-------------------------- MODULE CommandLineProofs --------------------------
(***************************************************************************)
(* The receipt and the exit status of CommandLine, for every size of the   *)
(* receipt, of the buffer below it and of the reader's pipe, every output  *)
(* the process may be given and any interleaving with the reader; and what *)
(* the feeds return and are believed on, for every list of components and  *)
(* every part of it a server answers.                                      *)
(***************************************************************************)
EXTENDS CommandLine, SequenceTheorems, FiniteSetTheorems, TLAPS

-----------------------------------------------------------------------------
(* Runs of bytes.                                                          *)

LEMMA BytesIs ==
  ASSUME NEW m \in Nat, NEW n \in Nat, m <= n
  PROVE  /\ Bytes(m, n) \in Seq(Nat)
         /\ Len(Bytes(m, n)) = n - m
         /\ \A i \in 1..(n - m) : Bytes(m, n)[i] = m + i
<1>1. n - m \in Nat /\ \A i \in 1..(n - m) : m + i \in Nat
  OBVIOUS
<1> QED BY <1>1 DEF Bytes

LEMMA BytesFromStart ==
  ASSUME NEW n \in Nat
  PROVE  Len(Bytes(0, n)) = n
<1>1. 0 \in Nat /\ 0 <= n /\ n - 0 = n
  OBVIOUS
<1> QED BY <1>1, BytesIs

LEMMA BytesEmpty ==
  ASSUME NEW m \in Nat, NEW n \in Nat, m <= n
  PROVE  Bytes(m, n) = <<>> <=> m = n
<1>1. Bytes(m, n) \in Seq(Nat) /\ Len(Bytes(m, n)) = n - m
  BY BytesIs
<1>2. Bytes(m, n) = <<>> <=> Len(Bytes(m, n)) = 0
  BY <1>1, EmptySeq
<1> QED BY <1>1, <1>2

\* SubSeq by a name the provers leave alone
Part(s, i, j) == SubSeq(s, i, j)

\* a part of a run is a run
LEMMA BytesPart ==
  ASSUME NEW m \in Nat, NEW n \in Nat, m <= n,
         NEW i \in Nat \ {0}, NEW j \in Nat, i <= j + 1, j <= n - m
  PROVE  Part(Bytes(m, n), i, j) = Bytes(m + i - 1, m + j)
<1> DEFINE s == Bytes(m, n)
           a == m + i - 1
           b == m + j
           t == SubSeq(s, i, j)
<1>1. a \in Nat /\ b \in Nat /\ a <= b /\ b - a = j - i + 1
  OBVIOUS
<1>2. \A k \in 1..(n - m) : s[k] = m + k
  BY BytesIs
<1>3. Bytes(a, b) \in Seq(Nat) /\ Len(Bytes(a, b)) = b - a /\ \A k \in 1..(b - a) : Bytes(a, b)[k] = a + k
  BY <1>1, BytesIs
<1> HIDE DEF s
<1>8. \A k \in i..j : s[k] = m + k /\ s[k] \in Nat
  BY <1>2
<1>4. /\ t \in Seq(Nat) /\ Len(t) = (IF i <= j THEN j - i + 1 ELSE 0)
      /\ \A k \in 1..(j - i + 1) : t[k] = s[i + k - 1]
  BY <1>8, SubSeqProperties
<1>5. \A k \in 1..(b - a) : t[k] = a + k
  BY <1>1, <1>8, <1>4
<1> HIDE DEF t, a, b
<1>6. Len(t) = b - a
  BY <1>1, <1>4
<1>7. t = Bytes(a, b)
  <2> DEFINE u == Bytes(a, b)
  <2>1. u \in Seq(Nat) /\ Len(t) = Len(u)
    BY <1>3, <1>6
  <2>2. \A k \in 1..Len(t) : t[k] = u[k]
    BY <1>3, <1>5, <1>6
  <2> HIDE DEF u
  <2>3. t = u
    BY <1>4, <2>1, <2>2, SeqEqual
  <2> QED BY <2>3 DEF u
<1> QED BY <1>7 DEF s, t, a, b, Part

\* a run and the one that follows it
LEMMA BytesJoin ==
  ASSUME NEW a \in Nat, NEW b \in Nat, NEW c \in Nat, a <= b, b <= c
  PROVE  Bytes(a, b) \o Bytes(b, c) = Bytes(a, c)
<1> DEFINE s == Bytes(a, b)
           t == Bytes(b, c)
           u == Bytes(a, c)
<1>1. s \in Seq(Nat) /\ Len(s) = b - a /\ \A i \in 1..(b - a) : s[i] = a + i
  BY BytesIs
<1>2. t \in Seq(Nat) /\ Len(t) = c - b /\ \A i \in 1..(c - b) : t[i] = b + i
  BY BytesIs
<1>3. u \in Seq(Nat) /\ Len(u) = c - a /\ \A i \in 1..(c - a) : u[i] = a + i
  BY BytesIs
<1> HIDE DEF s, t, u
<1> DEFINE v == s \o t
<1>4. /\ v \in Seq(Nat) /\ Len(v) = Len(s) + Len(t)
      /\ \A i \in 1..(Len(s) + Len(t)) : v[i] = IF i <= Len(s) THEN s[i] ELSE t[i - Len(s)]
  BY <1>1, <1>2, ConcatProperties
<1> HIDE DEF v
<1>7. Len(s) + Len(t) = c - a
  BY <1>1, <1>2
<1>8. ASSUME NEW i \in 1..(c - a)
      PROVE  v[i] = u[i]
  <2>1. CASE i <= b - a
    <3>1. i \in 1..(b - a)
      BY <2>1
    <3>2. i <= Len(s) /\ i \in 1..(Len(s) + Len(t))
      BY <1>1, <1>7, <2>1
    <3>3. v[i] = s[i]
      BY <1>4, <3>2
    <3> QED BY <1>1, <1>3, <3>1, <3>3
  <2>2. CASE ~(i <= b - a)
    <3>1. i - (b - a) \in 1..(c - b) /\ b + (i - (b - a)) = a + i
      BY <2>2
    <3> QED BY <1>1, <1>2, <1>3, <1>4, <1>7, <2>2, <3>1
  <2> QED BY <2>1, <2>2
<1>6. v = u
  BY <1>3, <1>4, <1>7, <1>8, SeqEqual
<1> QED BY <1>6 DEF s, t, u, v

LEMMA PrefixIs ==
  ASSUME NEW m \in Nat, NEW n \in Nat, NEW k \in Nat, m + k <= n
  PROVE  Prefix(Bytes(m, n), k) = Bytes(m, m + k)
<1>1. Part(Bytes(m, n), 1, k) = Bytes(m + 1 - 1, m + k)
  <2>1. m <= n /\ 1 <= k + 1 /\ k <= n - m /\ 1 \in Nat \ {0}
    OBVIOUS
  <2> QED BY <2>1, BytesPart
<1>2. m + 1 - 1 = m
  OBVIOUS
<1> QED BY <1>1, <1>2 DEF Prefix, Part

LEMMA WithoutIs ==
  ASSUME NEW m \in Nat, NEW n \in Nat, NEW k \in Nat, m + k <= n
  PROVE  Without(Bytes(m, n), k) = Bytes(m + k, n)
<1>1. Part(Bytes(m, n), k + 1, n - m) = Bytes(m + (k + 1) - 1, m + (n - m))
  <2>1. m <= n /\ k + 1 \in Nat \ {0} /\ n - m \in Nat /\ k + 1 <= (n - m) + 1 /\ n - m <= n - m
    OBVIOUS
  <2> QED BY <2>1, BytesPart
<1>2. m + (k + 1) - 1 = m + k /\ m + (n - m) = n /\ m <= n
  OBVIOUS
<1>3. Len(Bytes(m, n)) = n - m
  BY <1>2, BytesIs
<1> QED BY <1>1, <1>2, <1>3 DEF Without, Part

-----------------------------------------------------------------------------
(* The invariant of the receipt writer.  The bytes of the text are in      *)
(* three runs that follow one another: what the sink took, what the        *)
(* buffered writer holds, and what is left of the write in progress.       *)

N == out.prior + Size

Cut(a, b, r) ==
  /\ a <= b /\ r <= b /\ out.prior <= r /\ b <= N
  /\ sent = Bytes(0, a) /\ held = Bytes(a, b) /\ rest = Bytes(r, N) /\ took = b - r
  /\ at \in {"pending", "pendwait"} => r = out.prior /\ b = r
  /\ at \in {"flush", "flushwait", "whole"} => r = N /\ b = N
  /\ at = "whole" => a = N
  /\ at = "lost" => a < N
  /\ out.layer = "raw" => a = b /\ r = b

Flow == \E a \in Nat, b \in Nat, r \in Nat : Cut(a, b, r)

RInv ==
  /\ at \in {"idle", "over"} \cup Busy \cup Ended
  /\ at = "idle" => out = Unknown /\ sent = <<>> /\ held = <<>>
  /\ at # "idle" =>
       /\ out \in Outputs
       /\ IF out.layer = "text" THEN at = "whole" /\ sent = Stream(out.prior) /\ held = <<>>
                                ELSE Flow
  /\ SlowIsNotLost

LEMMA OutputsAre ==
  ASSUME NEW o \in Outputs
  PROVE  /\ o.prior \in Nat
         /\ o.layer \in {"none", "text", "raw", "buffered"}
         /\ o.layer # "buffered" => o.prior = 0
         /\ o.layer # "unknown"
<1>1. \A n \in 0..Prior : n \in Nat
  OBVIOUS
<1>2. CASE o \in [layer : {"none", "text"}, sink : {"pipe"}, encodes : {TRUE}, prior : {0}]
  BY <1>2
<1>3. CASE o \in [layer : {"raw"}, sink : Pipes \cup {"file"}, encodes : BOOLEAN, prior : {0}]
  BY <1>3
<1>4. CASE o \in [layer : {"buffered"}, sink : Pipes \cup {"file"}, encodes : BOOLEAN, prior : 0..Prior]
  BY <1>1, <1>4
<1> QED BY <1>2, <1>3, <1>4 DEF Outputs

LEMMA ReceiptInitially == ReceiptInit => RInv
  BY DEF ReceiptInit, RInv, SlowIsNotLost

LEMMA Sizes == Size \in Nat \ {0} /\ Buffer \in Nat \ {0} /\ Room \in Nat \ {0}
  BY SizesAssumption

LEMMA BeginKeeps ==
  ASSUME NEW o \in Outputs, NEW r, NEW g, Begin(o, r, g)
  PROVE  RInv'
<1>1. o.prior \in Nat /\ o.layer \in {"none", "text", "raw", "buffered"} /\ (o.layer # "buffered" => o.prior = 0)
  BY OutputsAre
<1>2. Bytes(0, 0) = <<>> /\ o.prior + Size \in Nat /\ o.prior < o.prior + Size
  BY <1>1, Sizes, BytesEmpty
<1>3. at' \in {"lost", "whole", "pending"} /\ out' = o
  BY <1>1 DEF Begin
<1>4. CASE o.layer = "text"
  BY <1>1, <1>2, <1>3, <1>4 DEF Begin, RInv, Stream, SlowIsNotLost, Ended, Busy
<1>5. CASE o.layer # "text"
  <2>1. Cut(0, o.prior, o.prior)'
    BY <1>1, <1>2, <1>3, <1>5 DEF Begin, Cut, N
  <2>2. Flow'
    BY <1>1, <2>1 DEF Flow
  <2>3. SlowIsNotLost'
    BY <1>1, <1>5 DEF Begin, SlowIsNotLost
  <2> QED BY <1>3, <1>5, <2>2, <2>3 DEF RInv, Ended, Busy
<1> QED BY <1>4, <1>5

\* while the writer is at work there is a cut
LEMMA AtWork ==
  ASSUME RInv, at \in Busy
  PROVE  /\ out \in Outputs /\ out.layer # "text" /\ Flow
         /\ out.prior \in Nat /\ N \in Nat /\ N = out.prior + Size
         /\ at \notin Ended
<1>1. at # "idle" /\ at # "whole" /\ at \notin Ended
  BY DEF Busy, Ended
<1>2. out \in Outputs /\ out.layer # "text" /\ Flow
  BY <1>1 DEF RInv
<1>3. out.prior \in Nat
  BY <1>2, OutputsAre
<1> QED BY <1>1, <1>2, <1>3, Sizes DEF N

\* and a step that leaves a cut keeps the invariant
LEMMA CutKeeps ==
  ASSUME out \in Outputs, out.layer # "text", out' = out, at' \in Busy \cup Ended,
         NEW a \in Nat, NEW b \in Nat, NEW r \in Nat, Cut(a, b, r)', SlowIsNotLost'
  PROVE  RInv'
<1>1. Flow'
  BY DEF Flow
<1>2. at' # "idle"
  BY DEF Busy, Ended
<1> QED BY <1>1, <1>2 DEF RInv

\* what a cut says of the parts
LEMMA Parts ==
  ASSUME out.prior \in Nat, N \in Nat, NEW a \in Nat, NEW b \in Nat, NEW r \in Nat, Cut(a, b, r)
  PROVE  /\ Len(held) = b - a /\ Len(rest) = N - r /\ Left = N - b
         /\ held = <<>> <=> a = b
         /\ Without(rest, took) = Bytes(b, N)
<1>1. a <= b /\ r <= b /\ b <= N /\ held = Bytes(a, b) /\ rest = Bytes(r, N) /\ took = b - r
  BY DEF Cut
<1>2. Len(held) = b - a /\ Len(rest) = N - r
  <2>1. r <= N
    BY <1>1
  <2> QED BY <1>1, <2>1, BytesIs
<1>3. held = <<>> <=> a = b
  BY <1>1, BytesEmpty
<1>4. Without(rest, took) = Bytes(b, N)
  <2>1. took \in Nat /\ r + took = b /\ r + took <= N
    BY <1>1
  <2>2. Without(Bytes(r, N), took) = Bytes(r + took, N)
    BY <2>1, WithoutIs
  <2> QED BY <1>1, <2>1, <2>2
<1>5. Left = N - b
  BY <1>1, <1>2 DEF Left
<1> QED BY <1>2, <1>3, <1>4, <1>5

\* k bytes go from the buffered writer to the sink
LEMMA Drained ==
  ASSUME NEW a \in Nat, NEW b \in Nat, NEW r \in Nat, Cut(a, b, r), NEW k \in Nat, k <= b - a
  PROVE  /\ sent \o Prefix(held, k) = Bytes(0, a + k)
         /\ Without(held, k) = Bytes(a + k, b)
<1>1. a <= b /\ sent = Bytes(0, a) /\ held = Bytes(a, b)
  BY DEF Cut
<1>2. a + k <= b /\ a + k \in Nat /\ a <= a + k /\ 0 <= a /\ 0 \in Nat
  OBVIOUS
<1>3. Bytes(0, a) \o Bytes(a, a + k) = Bytes(0, a + k)
  BY <1>2, BytesJoin
<1>4. Prefix(held, k) = Bytes(a, a + k) /\ Without(held, k) = Bytes(a + k, b)
  BY <1>1, <1>2, PrefixIs, WithoutIs
<1> QED BY <1>1, <1>3, <1>4

\* k bytes of the text go to the buffered writer
LEMMA Copied ==
  ASSUME N \in Nat, NEW a \in Nat, NEW b \in Nat, NEW r \in Nat, Cut(a, b, r), NEW k \in Nat, k <= N - b
  PROVE  held \o Part(rest, took + 1, took + k) = Bytes(a, b + k)
<1>1. a <= b /\ r <= b /\ held = Bytes(a, b) /\ rest = Bytes(r, N) /\ took = b - r
  BY DEF Cut
<1> DEFINE p == took + 1
           q == took + k
<1>2. /\ p \in Nat \ {0} /\ q \in Nat /\ p <= q + 1 /\ q <= N - r /\ r <= N
      /\ r + p - 1 = b /\ r + q = b + k
  BY <1>1
<1> HIDE DEF p, q
<1>3. Part(Bytes(r, N), p, q) = Bytes(b, b + k)
  <2>1. Part(Bytes(r, N), p, q) = Bytes(r + p - 1, r + q)
    BY <1>2, BytesPart
  <2> QED BY <1>2, <2>1
<1>4. b + k \in Nat /\ b <= b + k
  OBVIOUS
<1>5. Bytes(a, b) \o Bytes(b, b + k) = Bytes(a, b + k)
  BY <1>1, <1>4, BytesJoin
<1>6. held \o Part(rest, p, q) = Bytes(a, b + k)
  BY <1>1, <1>3, <1>5
<1> QED BY <1>6 DEF p, q

LEMMA DrainKeeps ==
  ASSUME RInv, NEW k, Drain(k)
  PROVE  RInv'
<1>1. at \in Busy
  BY DEF Drain, Busy
<1>2. /\ out \in Outputs /\ out.layer # "text" /\ Flow
      /\ out.prior \in Nat /\ N \in Nat /\ at \notin Ended
  BY <1>1, AtWork
<1>3. PICK a \in Nat, b \in Nat, r \in Nat : Cut(a, b, r)
  BY <1>2 DEF Flow
<1>4. Len(held) = b - a
  BY <1>2, <1>3, Parts
<1>5. k \in Nat /\ k # 0 /\ k <= b - a /\ a + k \in Nat
  <2>1. k \in 1..room /\ k <= Len(held)
    BY DEF Drain
  <2> QED BY <1>4, <2>1
<1>6. sent' = Bytes(0, a + k) /\ held' = Bytes(a + k, b)
  <2>1. sent \o Prefix(held, k) = Bytes(0, a + k) /\ Without(held, k) = Bytes(a + k, b)
    BY <1>3, <1>5, Drained
  <2> QED BY <2>1 DEF Drain
<1>7. UNCHANGED <<out, rest, took, at>> /\ N' = N
  BY DEF Drain, N
<1>8. Cut(a + k, b, r)'
  BY <1>1, <1>2, <1>3, <1>5, <1>6, <1>7 DEF Cut, Ended
<1>9. SlowIsNotLost'
  BY <1>2, <1>7 DEF SlowIsNotLost, Ended
<1> QED BY <1>1, <1>2, <1>5, <1>7, <1>8, <1>9, CutKeeps

LEMMA TakeKeeps ==
  ASSUME RInv, NEW k, Take(k)
  PROVE  RInv'
<1>1. at = "write" /\ at \in Busy
  BY DEF Take, Busy
<1>2. /\ out \in Outputs /\ out.layer # "text" /\ Flow
      /\ out.prior \in Nat /\ N \in Nat /\ at \notin Ended
  BY <1>1, AtWork
<1>3. PICK a \in Nat, b \in Nat, r \in Nat : Cut(a, b, r)
  BY <1>2 DEF Flow
<1>4. Left = N - b
  BY <1>2, <1>3, Parts
<1>5. k \in Nat /\ k <= N - b /\ b + k \in Nat
  <2>1. k \in 1..Left
    BY DEF Take
  <2> QED BY <1>4, <2>1
<1>6. held' = Bytes(a, b + k) /\ took' = took + k
  <2>1. held \o Part(rest, took + 1, took + k) = Bytes(a, b + k)
    BY <1>2, <1>3, <1>5, Copied
  <2> QED BY <2>1 DEF Take, Part
<1>7. UNCHANGED <<out, sent, rest, at>> /\ N' = N /\ out.layer = "buffered"
  BY DEF Take, N
<1>8. Cut(a, b + k, r)'
  BY <1>1, <1>2, <1>3, <1>5, <1>6, <1>7 DEF Cut
<1>9. SlowIsNotLost'
  BY <1>1, <1>7 DEF SlowIsNotLost
<1> QED BY <1>1, <1>2, <1>5, <1>7, <1>8, <1>9, CutKeeps

LEMMA WriteRawKeeps ==
  ASSUME RInv, NEW k, WriteRaw(k)
  PROVE  RInv'
<1>1. at = "write" /\ at \in Busy
  BY DEF WriteRaw, Busy
<1>2. /\ out \in Outputs /\ out.layer # "text" /\ Flow
      /\ out.prior \in Nat /\ N \in Nat /\ at \notin Ended
  BY <1>1, AtWork
<1>3. PICK a \in Nat, b \in Nat, r \in Nat : Cut(a, b, r)
  BY <1>2 DEF Flow
<1>4. Len(rest) = N - r /\ a = b /\ r = b /\ held = Bytes(a, b) /\ sent = Bytes(0, a) /\ rest = Bytes(r, N) /\ took = 0
  BY <1>2, <1>3, Parts DEF Cut, WriteRaw
<1>5. k \in Nat /\ k <= N - r /\ r + k \in Nat /\ r <= N
  <2>1. k \in 1..room /\ k <= Len(rest)
    BY DEF WriteRaw
  <2>2. r <= b /\ b <= N
    BY <1>3 DEF Cut
  <2>3. k \in Nat /\ k <= N - r
    BY <1>4, <2>1
  <2> QED BY <1>2, <2>2, <2>3
<1>6. sent' = Bytes(0, r + k)
  <2>1. Prefix(Bytes(r, N), k) = Bytes(r, r + k)
    <3>1. r + k <= N
      BY <1>2, <1>5
    <3> QED BY <1>2, <1>5, <3>1, PrefixIs
  <2>2. Bytes(0, r) \o Bytes(r, r + k) = Bytes(0, r + k)
    <3>1. 0 \in Nat /\ 0 <= r /\ r <= r + k
      BY <1>5
    <3> QED BY <1>5, <3>1, BytesJoin
  <2> QED BY <1>4, <2>1, <2>2 DEF WriteRaw
<1>7. rest' = Bytes(r + k, N)
  <2>1. r + k <= N
    BY <1>2, <1>5
  <2>2. Without(Bytes(r, N), k) = Bytes(r + k, N)
    BY <1>2, <1>5, <2>1, WithoutIs
  <2> QED BY <1>4, <2>2 DEF WriteRaw
<1>8. held' = Bytes(r + k, r + k)
  <2>1. Bytes(r, r) = <<>> /\ Bytes(r + k, r + k) = <<>>
    BY <1>5, BytesEmpty
  <2> QED BY <1>4, <2>1 DEF WriteRaw
<1>9. UNCHANGED <<out, took, at>> /\ N' = N
  BY DEF WriteRaw, N
<1>10. Cut(r + k, r + k, r + k)'
  BY <1>1, <1>2, <1>3, <1>4, <1>5, <1>6, <1>7, <1>8, <1>9 DEF Cut
<1>11. SlowIsNotLost'
  BY <1>1, <1>9 DEF SlowIsNotLost
<1> QED BY <1>1, <1>2, <1>5, <1>9, <1>10, <1>11, CutKeeps

LEMMA PendingDoneKeeps ==
  ASSUME RInv, PendingDone
  PROVE  RInv'
<1>1. at = "pending" /\ at \in Busy
  BY DEF PendingDone, Busy
<1>2. /\ out \in Outputs /\ out.layer # "text" /\ Flow
      /\ out.prior \in Nat /\ N \in Nat /\ at \notin Ended
  BY <1>1, AtWork
<1>3. PICK a \in Nat, b \in Nat, r \in Nat : Cut(a, b, r)
  BY <1>2 DEF Flow
<1>4. /\ Len(rest) = N - r /\ Left = N - b /\ (held = <<>> <=> a = b)
      /\ Without(rest, took) = Bytes(b, N)
  BY <1>2, <1>3, Parts
<1>5. UNCHANGED <<out, room, gone, sent, held, rest, took>> /\ N' = N
  BY DEF PendingDone, N
<1>8. Cut(a, b, r)'
  BY <1>1, <1>2, <1>3, <1>4, <1>5, Sizes DEF PendingDone, Cut, N, Left
<1>9. SlowIsNotLost'
  BY <1>1, <1>2, <1>5 DEF PendingDone, SlowIsNotLost, Waits, Full, Ended
<1>10. at' \in Busy \cup Ended
  BY <1>1 DEF PendingDone, Busy, Ended
<1> QED BY <1>2, <1>3, <1>5, <1>8, <1>9, <1>10, CutKeeps

LEMMA WroteKeeps ==
  ASSUME RInv, Wrote
  PROVE  RInv'
<1>1. at = "write" /\ at \in Busy
  BY DEF Wrote, Busy
<1>2. /\ out \in Outputs /\ out.layer # "text" /\ Flow
      /\ out.prior \in Nat /\ N \in Nat /\ at \notin Ended
  BY <1>1, AtWork
<1>3. PICK a \in Nat, b \in Nat, r \in Nat : Cut(a, b, r)
  BY <1>2 DEF Flow
<1>4. /\ Len(rest) = N - r /\ Left = N - b /\ (held = <<>> <=> a = b)
      /\ Without(rest, took) = Bytes(b, N)
  BY <1>2, <1>3, Parts
<1>5. UNCHANGED <<out, room, gone, sent, held>> /\ N' = N /\ rest' = <<>> /\ took' = 0 /\ at' = "flush"
  BY DEF Wrote, N
<1>6. b = N /\ Bytes(N, N) = <<>>
  <2>1. Left = 0
    BY DEF Wrote
  <2> QED BY <1>2, <1>4, <2>1, BytesEmpty
<1>7. /\ a <= N /\ out.prior <= N /\ sent = Bytes(0, a) /\ held = Bytes(a, N)
      /\ out.layer = "raw" => a = N
  BY <1>2, <1>3, <1>6 DEF Cut
<1>8. Cut(a, N, N)'
  <2>1. N - N = 0
    BY <1>2
  <2> QED BY <1>2, <1>5, <1>6, <1>7, <2>1 DEF Cut
<1>9. SlowIsNotLost'
  BY <1>1, <1>2, <1>5 DEF Wrote, SlowIsNotLost, Waits, Full, Ended
<1>10. at' \in Busy \cup Ended
  BY <1>1 DEF Wrote, Busy, Ended
<1> QED BY <1>2, <1>3, <1>5, <1>8, <1>9, <1>10, CutKeeps

LEMMA WouldBlockKeeps ==
  ASSUME RInv, WouldBlock
  PROVE  RInv'
<1>1. at = "write" /\ at \in Busy
  BY DEF WouldBlock, Busy
<1>2. /\ out \in Outputs /\ out.layer # "text" /\ Flow
      /\ out.prior \in Nat /\ N \in Nat /\ at \notin Ended
  BY <1>1, AtWork
<1>3. PICK a \in Nat, b \in Nat, r \in Nat : Cut(a, b, r)
  BY <1>2 DEF Flow
<1>4. /\ Len(rest) = N - r /\ Left = N - b /\ (held = <<>> <=> a = b)
      /\ Without(rest, took) = Bytes(b, N)
  BY <1>2, <1>3, Parts
<1>5. UNCHANGED <<out, room, gone, sent, held>> /\ N' = N
  BY DEF WouldBlock, N
<1>6. rest' = Bytes(b, N) /\ took' = 0 /\ b < N
  <2>1. Left > 0
    BY DEF WouldBlock
  <2>2. b < N
    BY <1>2, <1>4, <2>1
  <2> QED BY <1>4, <2>2 DEF WouldBlock
<1>7. /\ a <= b /\ out.prior <= b /\ b <= N /\ sent = Bytes(0, a) /\ held = Bytes(a, b)
      /\ out.layer = "raw" => a = b
  BY <1>2, <1>3 DEF Cut
<1>8. Cut(a, b, b)'
  <2>1. at' \in {"waiting", "lost"} /\ b - b = 0
    BY DEF WouldBlock
  <2>2. at' \notin {"pending", "pendwait", "flush", "flushwait", "whole"} /\ (at' = "lost" => a < N)
    BY <1>2, <1>6, <1>7, <2>1
  <2> QED BY <1>2, <1>5, <1>6, <1>7, <2>1, <2>2 DEF Cut
<1>9. SlowIsNotLost'
  BY <1>1, <1>2, <1>5 DEF WouldBlock, SlowIsNotLost, Waits, Full, Ended
<1>10. at' \in Busy \cup Ended
  BY <1>1 DEF WouldBlock, Busy, Ended
<1> QED BY <1>2, <1>3, <1>5, <1>8, <1>9, <1>10, CutKeeps

LEMMA FlushBlocksKeeps ==
  ASSUME RInv, FlushBlocks
  PROVE  RInv'
<1>1. at \in {"pending", "flush"} /\ at \in Busy
  BY DEF FlushBlocks, Busy
<1>2. /\ out \in Outputs /\ out.layer # "text" /\ Flow
      /\ out.prior \in Nat /\ N \in Nat /\ at \notin Ended
  BY <1>1, AtWork
<1>3. PICK a \in Nat, b \in Nat, r \in Nat : Cut(a, b, r)
  BY <1>2 DEF Flow
<1>4. /\ Len(rest) = N - r /\ Left = N - b /\ (held = <<>> <=> a = b)
      /\ Without(rest, took) = Bytes(b, N)
  BY <1>2, <1>3, Parts
<1>5. UNCHANGED <<out, room, gone, sent, held, rest, took>> /\ N' = N
  BY DEF FlushBlocks, N
<1>6. a # b
  BY <1>4 DEF FlushBlocks
<1>8. Cut(a, b, r)'
  BY <1>1, <1>2, <1>3, <1>4, <1>5, <1>6 DEF FlushBlocks, Cut
<1>9. SlowIsNotLost'
  BY <1>1, <1>2, <1>5 DEF FlushBlocks, SlowIsNotLost, Waits, Full, Ended
<1>10. at' \in Busy \cup Ended
  BY <1>1 DEF FlushBlocks, Busy, Ended
<1> QED BY <1>2, <1>3, <1>5, <1>8, <1>9, <1>10, CutKeeps

LEMMA WritableKeeps ==
  ASSUME RInv, Writable
  PROVE  RInv'
<1>1. at \in {"waiting", "pendwait", "flushwait"} /\ at \in Busy
  BY DEF Writable, Busy
<1>2. /\ out \in Outputs /\ out.layer # "text" /\ Flow
      /\ out.prior \in Nat /\ N \in Nat /\ at \notin Ended
  BY <1>1, AtWork
<1>3. PICK a \in Nat, b \in Nat, r \in Nat : Cut(a, b, r)
  BY <1>2 DEF Flow
<1>4. /\ Len(rest) = N - r /\ Left = N - b /\ (held = <<>> <=> a = b)
      /\ Without(rest, took) = Bytes(b, N)
  BY <1>2, <1>3, Parts
<1>5. UNCHANGED <<out, room, gone, sent, held, rest, took>> /\ N' = N
  BY DEF Writable, N
<1>8. Cut(a, b, r)'
  BY <1>1, <1>2, <1>3, <1>4, <1>5, Sizes DEF Writable, Cut, N, Left
<1>9. SlowIsNotLost'
  BY <1>1, <1>2, <1>5 DEF Writable, SlowIsNotLost, Waits, Full, Ended
<1>10. at' \in Busy \cup Ended
  BY <1>1 DEF Writable, Busy, Ended
<1> QED BY <1>2, <1>3, <1>5, <1>8, <1>9, <1>10, CutKeeps

LEMMA FlushDoneKeeps ==
  ASSUME RInv, FlushDone
  PROVE  RInv'
<1>1. at = "flush" /\ at \in Busy
  BY DEF FlushDone, Busy
<1>2. /\ out \in Outputs /\ out.layer # "text" /\ Flow
      /\ out.prior \in Nat /\ N \in Nat /\ at \notin Ended
  BY <1>1, AtWork
<1>3. PICK a \in Nat, b \in Nat, r \in Nat : Cut(a, b, r)
  BY <1>2 DEF Flow
<1>4. /\ Len(rest) = N - r /\ Left = N - b /\ (held = <<>> <=> a = b)
      /\ Without(rest, took) = Bytes(b, N)
  BY <1>2, <1>3, Parts
<1>5. UNCHANGED <<out, room, gone, sent, held, rest, took>> /\ N' = N
  BY DEF FlushDone, N
<1>8. Cut(a, b, r)'
  BY <1>1, <1>2, <1>3, <1>4, <1>5, Sizes DEF FlushDone, Cut, N, Left
<1>9. SlowIsNotLost'
  BY <1>1, <1>2, <1>5 DEF FlushDone, SlowIsNotLost, Waits, Full, Ended
<1>10. at' \in Busy \cup Ended
  BY <1>1 DEF FlushDone, Busy, Ended
<1> QED BY <1>2, <1>3, <1>5, <1>8, <1>9, <1>10, CutKeeps

LEMMA FailsKeeps ==
  ASSUME RInv, Fails
  PROVE  RInv'
<1>1. at \in {"pending", "flush", "write"} /\ at \in Busy
  BY DEF Fails, Busy
<1>2. /\ out \in Outputs /\ out.layer # "text" /\ Flow
      /\ out.prior \in Nat /\ N \in Nat /\ at \notin Ended
  BY <1>1, AtWork
<1>3. PICK a \in Nat, b \in Nat, r \in Nat : Cut(a, b, r)
  BY <1>2 DEF Flow
<1>4. /\ Len(rest) = N - r /\ Left = N - b /\ (held = <<>> <=> a = b)
      /\ Without(rest, took) = Bytes(b, N)
  BY <1>2, <1>3, Parts
<1>5. UNCHANGED <<out, room, gone, sent, held, rest, took>> /\ N' = N
  BY DEF Fails, N
<1>6. a < N
  <2>1. a <= b /\ b <= N
    BY <1>3 DEF Cut
  <2>2. CASE held # <<>>
    BY <1>2, <1>4, <2>1, <2>2
  <2>3. CASE held = <<>>
    <3>1. Left > 0
      <4>1. Len(held) = 0 /\ Buffer \in Nat /\ Buffer > 0
        BY <2>3, EmptySeq, Sizes
      <4> QED BY <1>2, <1>4, <2>1, <2>3, <4>1 DEF Fails
    <3> QED BY <1>2, <1>4, <2>1, <3>1
  <2> QED BY <2>2, <2>3
<1>8. Cut(a, b, r)'
  BY <1>1, <1>2, <1>3, <1>4, <1>5, <1>6, Sizes DEF Fails, Cut, N, Left
<1>9. SlowIsNotLost'
  BY <1>1, <1>2, <1>5 DEF Fails, SlowIsNotLost, Waits, Full, Ended
<1>10. at' \in Busy \cup Ended
  BY <1>1 DEF Fails, Busy, Ended
<1> QED BY <1>2, <1>3, <1>5, <1>8, <1>9, <1>10, CutKeeps

LEMMA WriterKeeps == RInv /\ WriterStep => RInv'
BY DrainKeeps, TakeKeeps, WriteRawKeeps, PendingDoneKeeps, WroteKeeps, WouldBlockKeeps, FlushBlocksKeeps,
   WritableKeeps, FlushDoneKeeps, FailsKeeps DEF WriterStep

\* the reader changes neither the bytes nor the writer's place
LEMMA ReaderKeeps == RInv /\ (ReaderReadsSome \/ ReaderLeaves) => RInv'
<1> SUFFICES ASSUME RInv, ReaderReadsSome \/ ReaderLeaves
             PROVE  RInv'
  OBVIOUS
<1>1. at \in Busy /\ UNCHANGED <<out, sent, held, rest, took, at>> /\ N' = N
  BY DEF ReaderReadsSome, ReaderReads, ReaderLeaves, N
<1>2. /\ out \in Outputs /\ out.layer # "text" /\ Flow
      /\ out.prior \in Nat /\ N \in Nat /\ at \notin Ended
  BY <1>1, AtWork
<1>3. PICK a \in Nat, b \in Nat, r \in Nat : Cut(a, b, r)
  BY <1>2 DEF Flow
<1>4. Cut(a, b, r)'
  BY <1>1, <1>3 DEF Cut
<1>5. SlowIsNotLost'
  BY <1>1, <1>2 DEF SlowIsNotLost, Ended
<1> QED BY <1>1, <1>2, <1>3, <1>4, <1>5, CutKeeps

\* what the last flush gets out follows what is there
LEMMA LastFlushKeeps ==
  ASSUME RInv, NEW k, LastFlush(k)
  PROVE  RInv' /\ out' = out /\ at' = "over"
<1>1. at = "lost" /\ k \in Nat /\ k <= Len(held)
  BY DEF LastFlush
<1>2. out \in Outputs /\ out.layer # "text" /\ Flow
  BY <1>1 DEF RInv
<1>3. out.prior \in Nat /\ N \in Nat
  BY <1>2, OutputsAre, Sizes DEF N
<1>4. PICK a \in Nat, b \in Nat, r \in Nat : Cut(a, b, r)
  BY <1>2 DEF Flow
<1>5. k <= b - a /\ a + k \in Nat /\ a + k <= b
  <2>1. Len(held) = b - a /\ a <= b
    BY <1>3, <1>4, Parts DEF Cut
  <2> QED BY <1>1, <2>1
<1>6. sent' = Bytes(0, a + k) /\ held' = Bytes(a + k, b)
  <2>1. sent \o Prefix(held, k) = Bytes(0, a + k) /\ Without(held, k) = Bytes(a + k, b)
    BY <1>1, <1>4, <1>5, Drained
  <2> QED BY <2>1 DEF LastFlush
<1>7. UNCHANGED <<out, rest, took>> /\ at' = "over" /\ N' = N
  BY DEF LastFlush, N
<1>8. out.layer = "raw" => k = 0
  BY <1>1, <1>3, <1>4, <1>5 DEF Cut
<1>9. Cut(a + k, b, r)'
  BY <1>4, <1>5, <1>6, <1>7, <1>8 DEF Cut
<1>10. Flow'
  BY <1>5, <1>9 DEF Flow
<1> QED BY <1>2, <1>7, <1>10 DEF RInv, SlowIsNotLost

LEMMA ReceiptStutters == RInv /\ UNCHANGED receiptVars => RInv'
BY DEF RInv, receiptVars, Flow, Cut, N, SlowIsNotLost, Waits

-----------------------------------------------------------------------------
(* What the invariant says of the bytes on standard output.                *)

LEMMA SentIs ==
  ASSUME RInv
  PROVE  /\ InOrder
         /\ at = "whole" => sent = Stream(out.prior) /\ held = <<>>
         /\ at = "lost" => sent # Stream(out.prior)
<1>1. CASE at = "idle"
  <2>1. out.prior = 0 /\ sent = <<>> /\ Len(sent) = 0
    BY <1>1 DEF RInv, Unknown
  <2>2. Stream(0) = Bytes(0, Size) /\ Prefix(Bytes(0, Size), 0) = Bytes(0, 0) /\ Bytes(0, 0) = <<>>
    BY Sizes, PrefixIs, BytesEmpty DEF Stream
  <2> QED BY <1>1, <2>1, <2>2, Sizes DEF InOrder
<1>2. CASE at # "idle" /\ out.layer = "text"
  <2>1. at = "whole" /\ sent = Bytes(0, N) /\ held = <<>> /\ out.prior \in Nat /\ N \in Nat
    BY <1>2, OutputsAre, Sizes DEF RInv, Stream, N
  <2>2. Len(sent) = N /\ Prefix(Bytes(0, N), N) = Bytes(0, N)
    BY <2>1, BytesFromStart, PrefixIs
  <2> QED BY <2>1, <2>2 DEF InOrder, Stream, N
<1>3. CASE at # "idle" /\ out.layer # "text"
  <2>1. Flow /\ out.prior \in Nat /\ N \in Nat
    BY <1>3, OutputsAre, Sizes DEF RInv, N
  <2>2. PICK a \in Nat, b \in Nat, r \in Nat : Cut(a, b, r)
    BY <2>1 DEF Flow
  <2>8. a <= N /\ sent = Bytes(0, a)
    BY <2>1, <2>2 DEF Cut
  <2>9. Len(Bytes(0, a)) = a /\ Len(Bytes(0, N)) = N
    BY <2>1, BytesFromStart
  <2>3. a <= N /\ sent = Bytes(0, a) /\ Len(sent) = a /\ Len(Bytes(0, N)) = N
    BY <2>1, <2>8, <2>9
  <2>4. Prefix(Bytes(0, N), a) = Bytes(0, a)
    BY <2>1, <2>3, PrefixIs
  <2>5. at = "whole" => a = N /\ b = N
    BY <2>2 DEF Cut
  <2>6. at = "whole" => held = <<>>
    BY <2>1, <2>2, <2>5, Parts
  <2>7. at = "lost" => a < N
    BY <2>2 DEF Cut
  <2> QED BY <2>1, <2>3, <2>4, <2>5, <2>6, <2>7 DEF InOrder, Stream, N
<1> QED BY <1>1, <1>2, <1>3

-----------------------------------------------------------------------------
(* The invariant of the process: where it is tells whether there is an     *)
(* outcome, what became of its receipt and which status follows.           *)

Steps == {"idle", "osv", "library", "cisa_kev", "enisa_euvd", "confirm", "confirmed", "work", "outcome",
          "receipt", "exit", "ended"}
\* after the outcome, or without one
Leaving == {"receipt", "exit", "ended"}

CInv ==
  /\ RInv
  /\ errLeft \in BOOLEAN /\ (errLeft => step \in {"exit", "ended"})
  /\ step \in Steps
  /\ computed \in BOOLEAN
  /\ computed => step \in Leaving /\ code \in {0, 1, 77}
  /\ step = "receipt" => computed
  /\ at # "idle" => computed
  /\ step = "library" => cmd = "library"
  /\ at = "over" => step = "ended" /\ computed
  /\ step = "exit" =>
       IF computed THEN \/ at = "whole" /\ status = code /\ ~errLeft
                        \/ at = "lost" /\ status = EX_IOERR /\ silenced \in {"yes", "failed"}
       ELSE cmd # "library" => status \in {1, 2, EX_IOERR}
  /\ step = "ended" =>
       IF computed THEN \/ at = "whole" /\ status = code
                        \/ at = "lost" /\ status = EX_IOERR
                        \/ at = "lost" /\ status = 120 /\ errLeft
                        \/ at = "over" /\ status \in {EX_IOERR, 120} /\ silenced = "failed"
       ELSE cmd # "library" => \/ status \in {1, 2, EX_IOERR}
                               \/ status = 120 /\ errLeft
  /\ cmd \in Recording /\ (computed \/ step = "outcome") => recorded

LEMMA CommandInitially == Init => CInv
<1> SUFFICES ASSUME Init PROVE CInv
  OBVIOUS
<1>1. RInv /\ at = "idle"
  BY ReceiptInitially DEF Init, ReceiptInit
<1> QED BY <1>1 DEF Init, CInv, Steps, Leaving, Recording

LEMMA NotRecording == "library" \notin Recording /\ "feeds" \notin Recording /\ "none" \notin Recording
BY DEF Recording

\* steps of the subcommand: nothing is on standard output yet
LEMMA SubcommandKeeps ==
  ASSUME CInv,
         \/ \E c \in Commands \ {"vuln"} : Start(c)
         \/ \E l, e, id : StartVuln(l, e, id)
         \/ \E components : StartLibrary(components)
         \/ Query \/ Queried \/ Confirm \/ Record
         \/ \E ok, part : LoadNext(ok, part) \/ LoadNamed(ok, part)
         \/ \E k \in {1, 2} : Refuse(k)
         \/ \E r \in BOOLEAN : PromiseBroken(r)
         \/ \E k : Outcome(k)
  PROVE  CInv'
<1>1. step \notin Leaving
  BY CommandLineAssumption
     DEF Start, StartVuln, StartLibrary, Query, Queried, Confirm, Record, LoadNext, LoadNamed, Refuse,
         PromiseBroken, Outcome, Leaving
<1>2. UNCHANGED receiptVars
  BY DEF Start, StartVuln, StartLibrary, Query, Queried, Confirm, Record, LoadNext, LoadNamed, Refuse,
         PromiseBroken, Outcome
<1>3. RInv' /\ at' = at
  BY <1>2, ReceiptStutters DEF CInv, receiptVars
<1>4. computed = FALSE /\ at = "idle" /\ errLeft = FALSE
  BY <1>1 DEF CInv, Leaving
<1>5. CASE \E c \in Commands \ {"vuln"} : Start(c)
  BY <1>3, <1>4, <1>5 DEF CInv, Start, Steps, Leaving
<1>6. CASE \E l, e, id : StartVuln(l, e, id)
  BY <1>3, <1>4, <1>6 DEF CInv, StartVuln, Steps, Leaving
<1>7. CASE \E components : StartLibrary(components)
  BY <1>3, <1>4, <1>7 DEF CInv, StartLibrary, Steps, Leaving
<1>8. CASE Query
  BY <1>3, <1>4, <1>8 DEF CInv, Query, cliVars
<1>9. CASE Queried
  BY <1>3, <1>4, <1>9 DEF CInv, Queried, Steps, Leaving
<1>10. CASE Confirm
  BY <1>3, <1>4, <1>10 DEF CInv, Confirm, Say, Leave, Steps, Leaving
<1>11. CASE Record
  BY <1>3, <1>4, <1>11 DEF CInv, Record, Steps, Leaving
<1>12. CASE \E ok, part : LoadNext(ok, part) \/ LoadNamed(ok, part)
  BY <1>3, <1>4, <1>12 DEF CInv, LoadNext, LoadNamed, Steps, Leaving
<1>13. CASE \E k \in {1, 2} : Refuse(k)
  BY <1>3, <1>4, <1>13 DEF CInv, Refuse, Say, Leave, Steps, Leaving
<1>14. CASE \E r \in BOOLEAN : PromiseBroken(r)
  BY <1>3, <1>4, <1>14 DEF CInv, PromiseBroken, Say, Leave, Steps, Leaving
<1>15. CASE \E k : Outcome(k)
  <2>1. PICK k : Outcome(k)
    BY <1>15
  <2>2. code' \in {0, 1, 77} /\ computed' = TRUE /\ step' = "receipt"
    BY <2>1 DEF Outcome, CodesOf
  <2>3. UNCHANGED <<cmd, recorded, errLeft>> /\ (cmd \in Recording => step = "outcome")
    BY <2>1 DEF Outcome
  <2>4. errLeft' = FALSE /\ at' = "idle" /\ (cmd' \in Recording => recorded')
    BY <1>3, <1>4, <2>3 DEF CInv
  <2> QED BY <1>3, <2>2, <2>4 DEF CInv, Steps, Leaving
<1> QED BY <1>5, <1>6, <1>7, <1>8, <1>9, <1>10, <1>11, <1>12, <1>13, <1>14, <1>15

\* steps of the writer and of its reader
LEMMA WritingKeeps ==
  ASSUME CInv, ReceiptBegins \/ ReceiptStep \/ Reads \/ Leaves
  PROVE  CInv'
<1>1. UNCHANGED cliVars
  BY DEF ReceiptBegins, ReceiptStep, Reads, Leaves
<1>2. RInv'
  <2>1. CASE ReceiptBegins
    BY <2>1, BeginKeeps DEF ReceiptBegins, BeginStep
  <2>2. CASE ReceiptStep
    BY <2>2, WriterKeeps DEF ReceiptStep, CInv
  <2>3. CASE Reads \/ Leaves
    BY <2>3, ReaderKeeps DEF Reads, Leaves, CInv
  <2> QED BY <2>1, <2>2, <2>3
<1>3. CASE ReceiptBegins \/ ReceiptStep
  <2>1. step = "receipt"
    BY <1>3 DEF ReceiptBegins, ReceiptStep
  <2>2. at # "over"
    BY <2>1 DEF CInv
  <2>3. at' # "over"
    <3>1. CASE ReceiptBegins
      BY <3>1 DEF ReceiptBegins, BeginStep, Begin
    <3>2. CASE ReceiptStep
      BY <3>2, <2>2 DEF ReceiptStep, WriterStep, Drain, Take, WriteRaw, PendingDone, Wrote, WouldBlock,
                        FlushBlocks, Writable, FlushDone, Fails
    <3> QED BY <1>3, <3>1, <3>2
  <2> QED BY <1>1, <1>2, <2>1, <2>3 DEF CInv, cliVars
<1>4. CASE Reads \/ Leaves
  <2>1. at' = at
    BY <1>4 DEF Reads, Leaves, ReaderReadsSome, ReaderReads, ReaderLeaves
  <2> QED BY <1>1, <1>2, <2>1 DEF CInv, cliVars
<1> QED BY <1>3, <1>4

\* the status is chosen, and the interpreter's last flush leaves it
LEMMA LeavingKeeps ==
  ASSUME CInv, ReceiptWhole \/ ReceiptLost \/ Exit
  PROVE  CInv'
<1>1. CASE ReceiptWhole
  <2>1. RInv' /\ at' = at
    BY <1>1, ReceiptStutters DEF CInv, ReceiptWhole, receiptVars
  <2> QED BY <1>1, <2>1 DEF CInv, ReceiptWhole, Leave, Steps, Leaving
<1>2. CASE ReceiptLost
  <2>1. RInv' /\ at' = at
    BY <1>2, ReceiptStutters DEF CInv, ReceiptLost, receiptVars
  <2>2. /\ step' = "exit" /\ status' = EX_IOERR /\ silenced' \in {"yes", "failed"} /\ errLeft' \in BOOLEAN
        /\ at = "lost" /\ UNCHANGED <<cmd, computed, code, recorded>>
    BY <1>2 DEF ReceiptLost, Leave, Say
  <2>3. computed /\ code \in {0, 1, 77} /\ (cmd \in Recording => recorded)
    BY <1>2 DEF CInv, ReceiptLost
  <2> QED BY <2>1, <2>2, <2>3 DEF CInv, Steps, Leaving
<1>3. CASE Exit /\ at = "lost" /\ silenced # "yes"
  <2>1. PICK k \in 0..Buffer : LastFlush(k)
    BY <1>3 DEF Exit
  <2>2. RInv' /\ at' = "over"
    BY <2>1, LastFlushKeeps DEF CInv
  <2>3. computed /\ status = EX_IOERR /\ silenced = "failed"
    BY <1>3 DEF CInv, Exit
  <2> QED BY <1>3, <2>2, <2>3 DEF CInv, Exit, Steps, Leaving
<1>4. CASE Exit /\ ~(at = "lost" /\ silenced # "yes")
  <2>1. UNCHANGED receiptVars
    BY <1>4 DEF Exit
  <2>2. RInv' /\ at' = at
    BY <2>1, ReceiptStutters DEF CInv, receiptVars
  <2>3. at # "over" /\ status' = IF errLeft THEN 120 ELSE status
    BY <1>4, <2>2 DEF CInv, Exit
  <2> QED BY <1>4, <2>2, <2>3 DEF CInv, Exit, Steps, Leaving
<1> QED BY <1>1, <1>2, <1>3, <1>4

LEMMA CommandKeeps == CInv /\ [Next]_vars => CInv'
<1> SUFFICES ASSUME CInv, [Next]_vars PROVE CInv'
  OBVIOUS
<1>1. CASE UNCHANGED vars
  <2>1. RInv' /\ at' = at
    BY <1>1, ReceiptStutters DEF CInv, vars, receiptVars
  <2> QED BY <1>1, <2>1 DEF CInv, vars, cliVars
<1>2. CASE Next
  BY <1>2, SubcommandKeeps, WritingKeeps, LeavingKeeps DEF Next, ProcessStep
<1> QED BY <1>1, <1>2

LEMMA CommandInvariant == Spec => []CInv
BY CommandInitially, CommandKeeps, PTL DEF Spec

-----------------------------------------------------------------------------
(* The theorems.                                                           *)

(* What standard output has taken is always the beginning of the text, and *)
(* a receipt that is whole is there to its last byte (cli.py, _write_all). *)
THEOREM ReceiptInOrder == Spec => []InOrder
<1>1. CInv => InOrder
  BY SentIs DEF CInv
<1> QED BY <1>1, CommandInvariant, PTL

(* A reader that is only slow never costs the receipt.                     *)
THEOREM SlowReader == Spec => []SlowIsNotLost
<1>1. CInv => SlowIsNotLost
  BY DEF CInv, RInv
<1> QED BY <1>1, CommandInvariant, PTL

(* The exit status says whether the outcome was delivered, and nothing is  *)
(* shown or claimed of a record that is not in the ledger.                 *)
THEOREM StatusIsHonest == Spec => []StatusTellsDelivery
<1>1. ASSUME CInv PROVE StatusTellsDelivery
  <2>1. at = "whole" => sent = Stream(out.prior)
    BY <1>1, SentIs DEF CInv
  <2>2. at = "lost" => sent # Stream(out.prior)
    BY <1>1, SentIs DEF CInv
  <2>3. ~computed => at = "idle" /\ sent = <<>> /\ Len(sent) = 0 /\ out.prior = 0
    BY <1>1 DEF CInv, RInv, Unknown
  <2>4. cmd \in Recording => cmd # "library"
    BY NotRecording
  <2>5. 0 \notin {1, 2, EX_IOERR, 120} /\ EX_IOERR # 120 /\ 120 \notin {1, 2}
    BY DEF EX_IOERR
  <2>9. computed => code # 120
    BY <1>1 DEF CInv
  <2>6. step = "ended" /\ cmd # "library" =>
          /\ status = 120 => errLeft \/ silenced = "failed"
          /\ IF computed
             THEN \/ status = code /\ sent = Stream(out.prior)
                  \/ status \in {EX_IOERR, 120} /\ (silenced # "failed" => sent # Stream(out.prior))
             ELSE status \in {1, 2, EX_IOERR, 120} /\ sent = <<>>
    BY <1>1, <2>1, <2>2, <2>3, <2>5, <2>9 DEF CInv
  <2>7. cmd \in Recording /\ Len(sent) > out.prior => recorded
    BY <1>1, <2>3 DEF CInv
  <2>8. cmd \in Recording /\ step = "ended" /\ status = 0 => recorded
    BY <1>1, <2>4, <2>5 DEF CInv
  <2> QED BY <2>6, <2>7, <2>8 DEF StatusTellsDelivery
<1>2. CInv => StatusTellsDelivery
  BY <1>1
<1> QED BY <1>2, CommandInvariant, PTL

-----------------------------------------------------------------------------
(* What a record says of the catalogue it names.                           *)

LInv ==
  /\ loaded \in [Catalogues -> [ids : SUBSET Cves, error : BOOLEAN]]
  /\ \A f \in Catalogues : loaded[f].ids \subseteq Listed[f]
  /\ step = "idle" => ~recorded /\ label = "none"
  /\ step \in {"confirm", "confirmed"} => ~recorded /\ label \in Catalogues
  /\ label \in Catalogues /\ step \notin {"idle", "confirm", "confirmed"} =>
       (wanted \in Listed[label] /\ exploited) \/ (~recorded /\ step \in {"exit", "ended"})

LEMMA LoadedIs ==
  ASSUME LInv, NEW f \in Catalogues, NEW ok, NEW part, Load(f, ok, part)
  PROVE  /\ loaded' \in [Catalogues -> [ids : SUBSET Cves, error : BOOLEAN]]
         /\ \A g \in Catalogues : loaded'[g].ids \subseteq Listed[g]
<1>1. Listed[f] \subseteq Cves /\ part \subseteq Listed[f]
  BY FeedsAssumption DEF Load
<1>2. PICK v \in [ids : SUBSET Cves, error : BOOLEAN] :
        v.ids \subseteq Listed[f] /\ loaded' = [loaded EXCEPT ![f] = v]
  <2>1. CASE ok /\ Control \in part
    <3>1. [ids |-> part, error |-> FALSE] \in [ids : SUBSET Cves, error : BOOLEAN]
      BY <1>1
    <3> QED BY <1>1, <2>1, <3>1 DEF Load
  <2>2. CASE ~(ok /\ Control \in part)
    BY <2>2 DEF Load, NotLoaded
  <2> QED BY <2>1, <2>2
<1> QED BY <1>2 DEF LInv

LEMMA ListedInitially == Init => LInv
<1>1. NotLoaded \in [ids : SUBSET Cves, error : BOOLEAN] /\ NotLoaded.ids = {}
  BY DEF NotLoaded
<1> QED BY <1>1, CommandLineAssumption DEF Init, FeedsInit, LInv

LEMMA ListedKeeps == LInv /\ [Next]_vars => LInv'
<1> SUFFICES ASSUME LInv, [Next]_vars PROVE LInv'
  OBVIOUS
<1>1. CASE \E ok, part : LoadNext(ok, part)
  <2>1. PICK ok, part : LoadNext(ok, part)
    BY <1>1
  <2>2. step \in Catalogues
    BY <2>1 DEF LoadNext
  <2>3. /\ loaded' \in [Catalogues -> [ids : SUBSET Cves, error : BOOLEAN]]
        /\ \A g \in Catalogues : loaded'[g].ids \subseteq Listed[g]
    BY <2>1, <2>2, LoadedIs DEF LoadNext
  <2> QED BY <2>1, <2>2, <2>3, CommandLineAssumption DEF LInv, LoadNext
<1>2. CASE \E ok, part : LoadNamed(ok, part)
  <2>1. PICK ok, part : LoadNamed(ok, part)
    BY <1>2
  <2>2. CASE label \in Catalogues
    <3>1. /\ loaded' \in [Catalogues -> [ids : SUBSET Cves, error : BOOLEAN]]
          /\ \A g \in Catalogues : loaded'[g].ids \subseteq Listed[g]
      BY <2>1, <2>2, LoadedIs DEF LoadNamed
    <3> QED BY <2>1, <2>2, <3>1 DEF LInv, LoadNamed
  <2>3. label \in Catalogues
    BY <2>1 DEF LInv, LoadNamed
  <2> QED BY <2>2, <2>3
<1>3. CASE ReceiptBegins
  <2>1. NotLoaded \in [ids : SUBSET Cves, error : BOOLEAN] /\ NotLoaded.ids = {}
    BY DEF NotLoaded
  <2>2. /\ loaded' \in [Catalogues -> [ids : SUBSET Cves, error : BOOLEAN]]
        /\ \A g \in Catalogues : loaded'[g].ids \subseteq Listed[g]
    BY <1>3, <2>1 DEF ReceiptBegins, Forget
  <2> QED BY <1>3, <2>2 DEF LInv, ReceiptBegins, cliVars
<1>4. CASE Confirm
  <2>1. Signal(wanted) = {f \in Catalogues : wanted \in loaded[f].ids}
    BY DEF Signal
  <2> QED BY <1>4, <2>1 DEF LInv, Confirm, Leave, feedVars
<1>5. CASE \E c \in Commands \ {"vuln"} : Start(c)
  BY <1>5, CommandLineAssumption DEF LInv, Start, Ask, feedVars
<1>6. CASE \E l, e, id : StartVuln(l, e, id)
  BY <1>6, CommandLineAssumption DEF LInv, StartVuln, feedVars
<1>7. CASE \E components : StartLibrary(components)
  BY <1>7, CommandLineAssumption DEF LInv, StartLibrary, Ask
<1>8. CASE Query
  <2>1. loaded' = loaded
    BY <1>8 DEF Query, QueryStep, PostBatch, FirstPage, NextPage, EmptyPage, Store, RequestFails, Raise
  <2> QED BY <1>8, <2>1 DEF LInv, Query, cliVars
<1>9. CASE Queried \/ Record
  BY <1>9 DEF LInv, Queried, Record, feedVars
<1>10. CASE \/ \E k \in {1, 2} : Refuse(k)
            \/ \E r \in BOOLEAN : PromiseBroken(r)
            \/ \E k : Outcome(k)
  BY <1>10 DEF LInv, Refuse, PromiseBroken, Outcome, Leave, feedVars
<1>11. CASE ReceiptStep \/ Reads \/ Leaves \/ UNCHANGED vars
  BY <1>11 DEF LInv, ReceiptStep, Reads, Leaves, vars, feedVars, cliVars
<1>12. CASE ReceiptWhole \/ ReceiptLost \/ Exit
  BY <1>12 DEF LInv, ReceiptWhole, ReceiptLost, Exit, Leave, feedVars
<1> QED BY <1>1, <1>2, <1>3, <1>4, <1>5, <1>6, <1>7, <1>8, <1>9, <1>10, <1>11, <1>12 DEF Next, ProcessStep

(* A vulnerability record in the ledger that names a catalogue as its      *)
(* source names one that lists it (cli.py:344-355).                        *)
THEOREM SourceIsListed == Spec => []NamedIsListed
<1>1. LInv => NamedIsListed
  BY DEF LInv, NamedIsListed
<1>2. Spec => []LInv
  BY ListedInitially, ListedKeeps, PTL DEF Spec
<1> QED BY <1>1, <1>2, PTL
-----------------------------------------------------------------------------
(* What osv_query_batch returns.  The queries are the positions of the     *)
(* input list that are asked for, each once; results are gathered in their *)
(* order, and put back at their positions.                                 *)

AskedFor(a) == {i \in DOMAIN a : a[i]}

\* Positions enumerates AskedFor, each position once
LEMMA PositionsAre ==
  ASSUME NEW a \in Seq(BOOLEAN)
  PROVE  /\ Positions(a) \in Seq(AskedFor(a))
         /\ Len(Positions(a)) \in Nat
         /\ \A k, l \in 1..Len(Positions(a)) : Positions(a)[k] = Positions(a)[l] => k = l
         /\ \A i \in AskedFor(a) : \E k \in 1..Len(Positions(a)) : Positions(a)[k] = i
<1> DEFINE S == AskedFor(a)
           n == Cardinality(S)
           r(i) == Cardinality({j \in S : j <= i})
           rank == [i \in S |-> r(i)]
           q == [k \in 1..n |-> CHOOSE i \in S : r(i) = k]
<1>1. S \subseteq 1..Len(a) /\ Len(a) \in Nat
  BY DEF AskedFor
<1>2. IsFiniteSet(S) /\ n \in Nat
  <2>1. IsFiniteSet(1..Len(a))
    BY <1>1, FS_Interval
  <2> QED BY <1>1, <2>1, FS_Subset, FS_CardinalityType
<1> HIDE DEF S
<1>3. ASSUME NEW i \in S
      PROVE  r(i) \in 1..n /\ IsFiniteSet({j \in S : j <= i})
  <2> DEFINE T == {j \in S : j <= i}
  <2>1. IsFiniteSet(T) /\ Cardinality(T) <= n
    BY <1>2, FS_Subset
  <2>2. i \in T
    BY <1>1
  <2>3. Cardinality(T) \in Nat /\ Cardinality(T) # 0
    BY <2>1, <2>2, FS_CardinalityType, FS_EmptySet
  <2> QED BY <1>2, <2>1, <2>3
<1>4. ASSUME NEW i \in S, NEW j \in S, i < j PROVE r(i) # r(j)
  <2> DEFINE T == {k \in S : k <= i}
             U == {k \in S : k <= j}
  <2>0. i \in Nat /\ j \in Nat /\ \A k \in S : k \in Nat
    BY <1>1
  <2>1. T \subseteq U /\ j \in U /\ j \notin T
    <3>1. \A k \in S : k <= i => k <= j
      BY <1>4, <2>0
    <3>2. j <= j /\ ~(j <= i) /\ j \in S
      BY <1>4, <2>0
    <3> QED BY <3>1, <3>2
  <2>2. IsFiniteSet(U)
    BY <1>3
  <2>3. Cardinality(T) # Cardinality(U)
    BY <2>1, <2>2, FS_Subset
  <2> QED BY <2>3
<1>5. \A i, j \in S : r(i) = r(j) => i = j
  BY <1>1, <1>4
<1>6. rank \in Injection(S, 1..n)
  <2>1. rank \in [S -> 1..n]
    BY <1>3
  <2>2. \A i, j \in S : rank[i] = rank[j] => i = j
    BY <1>5
  <2> HIDE DEF rank
  <2> QED BY <2>1, <2>2 DEF Injection, IsInjective
<1>7. rank \in Surjection(S, 1..n)
  <2>1. IsFiniteSet(1..n) /\ Cardinality(1..n) = n
    BY <1>2, FS_Interval
  <2> QED BY <1>6, <2>1, FS_Injection
<1>8. \A k \in 1..n : \E i \in S : r(i) = k
  <2> SUFFICES ASSUME NEW k \in 1..n PROVE \E i \in S : r(i) = k
    OBVIOUS
  <2>1. PICK i \in S : rank[i] = k
    BY <1>7 DEF Surjection
  <2> QED BY <2>1
<1> HIDE DEF r
<1>9. \A k \in 1..n : q[k] \in S /\ r(q[k]) = k
  BY <1>8
<1>10. Positions(a) = q
  BY DEF Positions, S, AskedFor, r
<1>11. q \in Seq(S) /\ Len(q) = n
  BY <1>2, <1>9
<1>12. \A i \in S : r(i) \in 1..n /\ q[r(i)] = i
  BY <1>3, <1>5, <1>9
<1> HIDE DEF q
<1> QED BY <1>2, <1>9, <1>10, <1>11, <1>12 DEF S

\* results gathered so far, the one in progress included
Gathered == IF fstep \in {"next", "store"} THEN Len(res) + 1 ELSE Len(res)

Ids == VulnIds \cup Cves

(* While a call runs: what is gathered for a query is what the server has  *)
(* shown for its position, all of it once the result is stored, unless an  *)
(* answer was empty; nothing has been shown for the queries still to come. *)
Querying ==
  /\ asked \in Seq(BOOLEAN)
  /\ served \in [1..Len(asked) -> SUBSET Ids]
  /\ unread \subseteq AskedFor(asked)
  /\ emptied \in BOOLEAN
  /\ res \in Seq(SUBSET Ids) /\ ids \in SUBSET Ids
  /\ start \in Nat /\ start <= Len(Queries)
  /\ \A k \in 1..Len(res) :
       /\ res[k] \subseteq served[Queries[k]]
       /\ ~emptied => res[k] = served[Queries[k]] /\ Queries[k] \notin unread
  /\ \A k \in 1..Len(Queries) : k > Gathered => served[Queries[k]] = {}
  /\ fstep = "batch" => start < Len(Queries) /\ Len(res) = start /\ ids = {}
  /\ fstep \in {"first", "next", "store"} =>
       batch \in 1..ChunkSize /\ Len(res) = start + ChunkSize - batch
  /\ fstep = "first" => ids = {}
  /\ fstep \in {"next", "store"} =>
       /\ ids \subseteq served[Reading]
       /\ ~emptied => ids = served[Reading] /\ (fstep = "store" => Reading \notin unread)

(* An answer, with what an empty body leaves of it.                        *)
Answered ==
  /\ asked \in Seq(BOOLEAN)
  /\ unread \subseteq AskedFor(asked)
  /\ answer.error => answer.results = <<>>
  /\ ~answer.error =>
       /\ Len(answer.results) = Len(asked)
       /\ \A i \in 1..Len(asked) :
            IF asked[i] THEN /\ answer.results[i] \subseteq served[i]
                             /\ ~emptied => answer.results[i] = served[i] /\ i \notin unread
                        ELSE answer.results[i] = NotQueried

OInv ==
  /\ fstep \in {"off", "batch", "first", "next", "store", "answered"}
  /\ fstep \in {"batch", "first", "next", "store"} => Querying
  /\ fstep = "answered" => Answered

LEMMA QueriesAre ==
  ASSUME asked \in Seq(BOOLEAN)
  PROVE  /\ Queries \in Seq(AskedFor(asked))
         /\ Len(Queries) \in Nat
         /\ \A k \in 1..Len(Queries) : Queries[k] \in AskedFor(asked)
         /\ \A k, l \in 1..Len(Queries) : Queries[k] = Queries[l] => k = l
         /\ \A i \in AskedFor(asked) : \E k \in 1..Len(Queries) : Queries[k] = i
         /\ AskedFor(asked) \subseteq 1..Len(asked)
<1>1. AskedFor(asked) \subseteq 1..Len(asked)
  BY DEF AskedFor
<1> HIDE DEF AskedFor
<1>2. Queries \in Seq(AskedFor(asked)) => \A k \in 1..Len(Queries) : Queries[k] \in AskedFor(asked)
  OBVIOUS
<1> QED BY <1>1, <1>2, PositionsAre DEF Queries

\* a chunk is not empty, and ends within the queries
LEMMA ChunkIs ==
  ASSUME asked \in Seq(BOOLEAN), start \in Nat, start <= Len(Queries)
  PROVE  /\ ChunkSize \in Nat
         /\ start + ChunkSize <= Len(Queries)
         /\ start < Len(Queries) => ChunkSize \in 1..BatchMax
<1>1. Len(Queries) \in Nat /\ BatchMax \in Nat \ {0}
  BY QueriesAre, FeedsAssumption
<1> QED BY <1>1 DEF ChunkSize

\* the failure of a call
LEMMA RaiseKeeps == ASSUME OInv, fstep \in {"batch", "first", "next", "store"}, Raise PROVE OInv'
<1>1. /\ asked' = asked /\ unread' = unread /\ fstep' = "answered"
      /\ answer'.error /\ answer'.results = <<>>
  BY DEF Raise, NoAnswer
<1> QED BY <1>1 DEF OInv, Querying, Answered

LEMMA AskKeeps == ASSUME NEW a \in Seq(BOOLEAN), Ask(a) PROVE OInv'
<1>1. asked' = a /\ served' = [i \in 1..Len(a) |-> {}] /\ unread' = AskedFor(a)
  BY DEF Ask, AskedFor
<1>2. CASE unread' = {}
  <2>1. /\ fstep' = "answered" /\ ~answer'.error
        /\ answer'.results = [i \in 1..Len(a) |-> NotQueried]
    BY <1>2 DEF Ask
  <2>2. \A i \in 1..Len(a) : ~a[i]
    BY <1>1, <1>2 DEF AskedFor
  <2> QED BY <1>1, <1>2, <2>1, <2>2 DEF OInv, Answered
<1>3. CASE unread' # {}
  <2>1. /\ fstep' = "batch" /\ start' = 0 /\ ids' = {} /\ res' = <<>> /\ emptied' = FALSE
    BY <1>3 DEF Ask
  <2>2. Queries' = Positions(a)
    BY <1>1 DEF Queries
  <2>3. Len(Positions(a)) \in Nat /\ Len(Positions(a)) # 0
        /\ \A k \in 1..Len(Positions(a)) : Positions(a)[k] \in 1..Len(a)
    <3>1. AskedFor(a) \subseteq 1..Len(a)
      BY DEF AskedFor
    <3>2. PICK i \in AskedFor(a) : TRUE
      BY <1>1, <1>3
    <3>3. PICK k \in 1..Len(Positions(a)) : Positions(a)[k] = i
      BY PositionsAre
    <3> HIDE DEF AskedFor
    <3>4. Positions(a) \in Seq(AskedFor(a)) /\ Len(Positions(a)) \in Nat
      BY PositionsAre
    <3> QED BY <3>1, <3>3, <3>4
  <2>4. /\ served' \in [1..Len(a) -> SUBSET Ids]
        /\ \A k \in 1..Len(Positions(a)) : served'[Positions(a)[k]] = {}
    BY <1>1, <2>3
  <2>5. unread' \subseteq AskedFor(asked') /\ emptied' \in BOOLEAN
        /\ ids' \in SUBSET Ids /\ res' \in Seq(SUBSET Ids) /\ Len(res') = 0
    <3>1. \A T : <<>> \in Seq(T) /\ Len(<<>>) = 0
      OBVIOUS
    <3>2. res' \in Seq(SUBSET Ids) /\ Len(res') = 0
      BY <2>1, <3>1
    <3> QED BY <1>1, <2>1, <3>2
  <2> HIDE DEF AskedFor
  <2>6. Querying'
    BY <1>1, <2>1, <2>2, <2>3, <2>4, <2>5 DEF Querying, Gathered
  <2> QED BY <2>1, <2>6 DEF OInv
<1> QED BY <1>2, <1>3

LEMMA PostBatchKeeps == ASSUME OInv, NEW n, PostBatch(n) PROVE OInv'
<1>1. fstep = "batch" /\ Querying
  BY DEF PostBatch, OInv
<1>2. CASE n # ChunkSize
  BY <1>1, <1>2, RaiseKeeps DEF PostBatch
<1>3. CASE n = ChunkSize
  <2>1. /\ fstep' = "first" /\ batch' = ChunkSize
        /\ UNCHANGED <<asked, start, ids, pages, res, answer, served, unread, emptied, loaded>>
    BY <1>3 DEF PostBatch
  <2>2. Queries' = Queries /\ ChunkSize' = ChunkSize
    BY <2>1 DEF Queries, ChunkSize
  <2>3. ChunkSize \in Nat /\ ChunkSize # 0
    BY <1>1, ChunkIs DEF Querying
  <2>4. Querying'
    BY <1>1, <2>1, <2>2, <2>3 DEF Querying, Gathered
  <2> QED BY <2>1, <2>4 DEF OInv
<1> QED BY <1>2, <1>3

\* where the result in progress belongs
LEMMA ReadingIs ==
  ASSUME Querying, fstep \in {"first", "next", "store"}
  PROVE  /\ Reading = Queries[Len(res) + 1]
         /\ Len(res) \in Nat /\ Len(res) + 1 \in 1..Len(Queries)
         /\ Reading \in AskedFor(asked) /\ Reading \in 1..Len(asked)
         /\ \A k \in 1..Len(Queries) : k # Len(res) + 1 => Queries[k] # Reading
<1>1. /\ ChunkSize \in Nat /\ start + ChunkSize <= Len(Queries) /\ Len(Queries) \in Nat
      /\ batch \in 1..ChunkSize /\ Len(res) = start + ChunkSize - batch /\ start \in Nat
  BY ChunkIs, QueriesAre DEF Querying
<1>2. Len(res) + 1 = start + ChunkSize - batch + 1 /\ Len(res) + 1 \in 1..Len(Queries) /\ Len(res) \in Nat
  BY <1>1
<1>3. Reading = Queries[Len(res) + 1]
  BY <1>2 DEF Reading
<1> QED BY <1>2, <1>3, QueriesAre DEF Querying

LEMMA AliasesAre ==
  ASSUME NEW vs \in SUBSET VulnIds, NEW bare \in SUBSET vs
  PROVE  /\ WithAliases(vs, bare) \subseteq WithAliases(vs, {})
         /\ WithAliases(vs, {}) \subseteq Ids
<1>1. \A v \in vs : AliasesOf[v] \subseteq Cves
  BY FeedsAssumption
<1> QED BY <1>1 DEF WithAliases, Ids

\* one page of the result in progress
LEMMA ReadPageKeeps ==
  ASSUME OInv, fstep \in {"first", "next"},
         NEW vs \in SUBSET VulnIds, NEW more \in BOOLEAN, NEW bare \in SUBSET vs,
         ReadPage(vs, more, bare), UNCHANGED <<asked, start, batch, res>>
  PROVE  OInv'
<1> DEFINE R == Reading
           W == WithAliases(vs, bare)
           A == WithAliases(vs, {})
           m == Len(res)
<1>1. Querying
  BY DEF OInv
<1>2. /\ R = Queries[m + 1] /\ m \in Nat /\ m + 1 \in 1..Len(Queries)
      /\ R \in 1..Len(asked)
      /\ \A k \in 1..Len(Queries) : k # m + 1 => Queries[k] # R
      /\ \A k \in 1..Len(Queries) : Queries[k] \in 1..Len(asked)
      /\ Len(Queries) \in Nat
  BY <1>1, ReadingIs, QueriesAre DEF Querying
<1>3. Queries' = Queries /\ ChunkSize' = ChunkSize /\ Reading' = R
  BY DEF Queries, ChunkSize, Reading
<1>4. W \subseteq A /\ A \subseteq Ids /\ (bare = {} => W = A)
  BY AliasesAre
<1>5. /\ ids' = ids \cup W
      /\ served' = [served EXCEPT ![R] = @ \cup A]
      /\ unread' = IF more THEN unread ELSE unread \ {R}
      /\ emptied' = (emptied \/ bare # {})
      /\ fstep' = IF more THEN "next" ELSE "store"
  BY DEF ReadPage
<1> HIDE DEF R, W, A
<1>6. /\ served' \in [1..Len(asked) -> SUBSET Ids]
      /\ served'[R] = served[R] \cup A
      /\ \A i \in 1..Len(asked) : i # R => served'[i] = served[i]
  BY <1>1, <1>2, <1>4, <1>5 DEF Querying
<1>7. ids \subseteq served[R] /\ (~emptied => ids = served[R])
  <2>1. CASE fstep = "first"
    <3>1. ids = {} /\ served[Queries[m + 1]] = {}
      BY <1>1, <1>2, <2>1 DEF Querying, Gathered
    <3> QED BY <1>2, <3>1
  <2>2. CASE fstep = "next"
    BY <1>1, <2>2 DEF Querying, R
  <2> QED BY <2>1, <2>2
<1>8. \A k \in 1..m : /\ res[k] \subseteq served'[Queries[k]]
                      /\ ~emptied' => res[k] = served'[Queries[k]] /\ Queries[k] \notin unread'
  <2> SUFFICES ASSUME NEW k \in 1..m
               PROVE  /\ res[k] \subseteq served'[Queries[k]]
                      /\ ~emptied' => res[k] = served'[Queries[k]] /\ Queries[k] \notin unread'
    OBVIOUS
  <2>1. k \in 1..Len(Queries) /\ k # m + 1
    BY <1>2
  <2>2. served'[Queries[k]] = served[Queries[k]]
    BY <1>2, <1>6, <2>1
  <2> QED BY <1>1, <1>5, <2>2 DEF Querying
<1>9. \A k \in 1..Len(Queries) : k > m + 1 => served'[Queries[k]] = {}
  <2> SUFFICES ASSUME NEW k \in 1..Len(Queries), k > m + 1 PROVE served'[Queries[k]] = {}
    OBVIOUS
  <2>1. k > Gathered /\ k # m + 1
    BY <1>2 DEF Gathered
  <2>2. served[Queries[k]] = {}
    BY <1>1, <2>1 DEF Querying
  <2> QED BY <1>2, <1>6, <2>1, <2>2
<1>10. /\ ids' \subseteq served'[R]
       /\ ~emptied' => ids' = served'[R] /\ (fstep' = "store" => R \notin unread')
  BY <1>4, <1>5, <1>6, <1>7
<1>11. unread' \subseteq AskedFor(asked) /\ ids' \in SUBSET Ids /\ emptied' \in BOOLEAN
  BY <1>1, <1>4, <1>5 DEF Querying
<1>12. fstep' \in {"next", "store"}
  BY <1>5
<1>13. Gathered' = m + 1
  BY <1>12 DEF Gathered
<1>14. Querying'
  BY <1>1, <1>3, <1>6, <1>8, <1>9, <1>10, <1>11, <1>12, <1>13 DEF Querying
<1> QED BY <1>12, <1>14 DEF OInv

LEMMA FirstPageKeeps ==
  ASSUME OInv, NEW vs \in SUBSET VulnIds, NEW more \in BOOLEAN, NEW bare \in SUBSET vs,
         FirstPage(vs, more, bare)
  PROVE  OInv'
BY ReadPageKeeps DEF FirstPage

LEMMA NextPageKeeps ==
  ASSUME OInv, NEW vs \in SUBSET VulnIds, NEW more \in BOOLEAN, NEW bare \in SUBSET vs,
         NextPage(vs, more, bare)
  PROVE  OInv'
<1>1. fstep = "next"
  BY DEF NextPage
<1>2. CASE pages = PageLimit
  BY <1>1, <1>2, RaiseKeeps DEF NextPage
<1>3. CASE pages # PageLimit
  BY <1>1, <1>3, ReadPageKeeps DEF NextPage
<1> QED BY <1>2, <1>3

LEMMA EmptyPageKeeps == ASSUME OInv, EmptyPage PROVE OInv'
<1>1. /\ fstep = "next" /\ fstep' = "store" /\ emptied'
      /\ UNCHANGED <<asked, start, batch, ids, res, served, unread>>
  BY DEF EmptyPage
<1>2. Querying
  BY <1>1 DEF OInv
<1>3. Queries' = Queries /\ ChunkSize' = ChunkSize /\ Reading' = Reading /\ Gathered' = Gathered
  BY <1>1 DEF Queries, ChunkSize, Reading, Gathered
<1>4. emptied' \in BOOLEAN
  BY DEF EmptyPage
<1>5. Querying'
  BY <1>1, <1>2, <1>3, <1>4 DEF Querying
<1> QED BY <1>1, <1>5 DEF OInv

\* the results of all queries, put at their positions
LEMMA AlignedIs ==
  ASSUME asked \in Seq(BOOLEAN), NEW r, Len(r) = Len(Queries)
  PROVE  /\ Len(Aligned(r)) = Len(asked)
         /\ \A k \in 1..Len(Queries) : Aligned(r)[Queries[k]] = r[k]
         /\ \A i \in 1..Len(asked) : ~asked[i] => Aligned(r)[i] = NotQueried
<1>1. Len(asked) \in Nat /\ DOMAIN Aligned(r) = 1..Len(asked)
  BY DEF Aligned
<1>2. Len(Aligned(r)) = Len(asked)
  BY DEF Aligned
<1>3. ASSUME NEW k \in 1..Len(Queries)
      PROVE  Aligned(r)[Queries[k]] = r[k]
  <2> DEFINE i == Queries[k]
             l == CHOOSE j \in 1..Len(r) : Queries[j] = i
  <2>1. i \in 1..Len(asked)
    BY QueriesAre
  <2>2. l \in 1..Len(r) /\ Queries[l] = i
    OBVIOUS
  <2>3. l = k
    BY <2>2, QueriesAre
  <2>4. Aligned(r)[i] = r[l]
    BY <2>1 DEF Aligned
  <2> HIDE DEF l
  <2> QED BY <2>3, <2>4
<1>4. ASSUME NEW i \in 1..Len(asked), ~asked[i]
      PROVE  Aligned(r)[i] = NotQueried
  <2>1. ~\E k \in 1..Len(r) : Queries[k] = i
    BY <1>4, QueriesAre DEF AskedFor
  <2> QED BY <2>1 DEF Aligned
<1> QED BY <1>2, <1>3, <1>4

\* the result in progress is stored: the next one, the next chunk, or the answer
LEMMA StoreKeeps == ASSUME OInv, Store PROVE OInv'
<1> DEFINE m == Len(res)
<1>1. /\ fstep = "store" /\ Querying
      /\ res' = Append(res, ids) /\ ids' = {} /\ batch' = batch - 1
      /\ UNCHANGED <<asked, served, unread, emptied>>
  BY DEF Store, OInv
<1>2. /\ Reading = Queries[m + 1] /\ m \in Nat /\ m + 1 \in 1..Len(Queries)
      /\ Len(Queries) \in Nat
  BY <1>1, ReadingIs, QueriesAre DEF Querying
<1>3. /\ ChunkSize \in Nat /\ start \in Nat /\ start + ChunkSize <= Len(Queries)
      /\ batch \in 1..ChunkSize /\ m = start + ChunkSize - batch
  BY <1>1, ChunkIs DEF Querying
<1>4. /\ res' \in Seq(SUBSET Ids) /\ Len(res') = m + 1
      /\ \A k \in 1..m : res'[k] = res[k]
      /\ res'[m + 1] = ids
  BY <1>1, AppendProperties DEF Querying
<1>5. Queries' = Queries
  BY <1>1 DEF Queries
<1>6. \A k \in 1..m + 1 :
        /\ res'[k] \subseteq served[Queries[k]]
        /\ ~emptied => res'[k] = served[Queries[k]] /\ Queries[k] \notin unread
  <2> SUFFICES ASSUME NEW k \in 1..m + 1
               PROVE  /\ res'[k] \subseteq served[Queries[k]]
                      /\ ~emptied => res'[k] = served[Queries[k]] /\ Queries[k] \notin unread
    OBVIOUS
  <2>1. CASE k = m + 1
    BY <1>1, <1>2, <1>4, <2>1 DEF Querying
  <2>2. CASE k # m + 1
    <3>1. k \in 1..m
      BY <1>2, <2>2
    <3> QED BY <1>1, <1>4, <3>1 DEF Querying
  <2> QED BY <2>1, <2>2
<1>7. \A k \in 1..Len(Queries) : k > m + 1 => served[Queries[k]] = {}
  BY <1>1 DEF Querying, Gathered
<1>8. asked \in Seq(BOOLEAN) /\ unread \subseteq AskedFor(asked)
  BY <1>1 DEF Querying
<1> HIDE DEF m
<1>9. ASSUME start' \in Nat, start' <= Len(Queries),
             \/ fstep' = "batch" /\ start' < Len(Queries) /\ m + 1 = start'
             \/ fstep' = "first" /\ batch' \in 1..ChunkSize' /\ m + 1 = start' + ChunkSize' - batch'
      PROVE  OInv'
  <2>1. Gathered' = m + 1
    BY <1>4, <1>9 DEF Gathered
  <2>2. Querying'
    BY <1>1, <1>4, <1>5, <1>6, <1>7, <1>9, <2>1 DEF Querying
  <2> QED BY <1>9, <2>2 DEF OInv
<1>10. CASE batch > 1
  <2>1. fstep' = "first" /\ start' = start
    BY <1>10 DEF Store
  <2>2. ChunkSize' = ChunkSize
    BY <1>5, <2>1 DEF ChunkSize
  <2>3. batch' \in 1..ChunkSize' /\ m + 1 = start' + ChunkSize' - batch'
    BY <1>1, <1>3, <1>10, <2>1, <2>2
  <2> QED BY <1>3, <1>2, <1>9, <2>1, <2>3
<1>11. CASE ~(batch > 1)
  <2>1. start' = start + ChunkSize /\ m + 1 = start'
    BY <1>3, <1>11 DEF Store
  <2>2. CASE start' < Len(Queries)
    <3>1. fstep' = "batch"
      BY <1>11, <2>2 DEF Store
    <3> QED BY <1>3, <1>9, <2>1, <2>2, <3>1
  <2>3. CASE ~(start' < Len(Queries))
    <3>1. fstep' = "answered" /\ answer' = [results |-> Aligned(res'), error |-> FALSE]
      BY <1>11, <2>3 DEF Store
    <3>2. m + 1 = Len(Queries) /\ Len(res') = Len(Queries)
      BY <1>2, <1>3, <1>4, <2>1, <2>3
    <3> DEFINE R == Aligned(res')
    <3>3. PICK rr : rr = res'
      OBVIOUS
    <3>4. /\ Len(Aligned(rr)) = Len(asked)
          /\ \A k \in 1..Len(Queries) : Aligned(rr)[Queries[k]] = rr[k]
          /\ \A i \in 1..Len(asked) : ~asked[i] => Aligned(rr)[i] = NotQueried
      BY <1>8, <3>2, <3>3, AlignedIs
    <3>5. ASSUME NEW i \in 1..Len(asked)
          PROVE  IF asked[i] THEN /\ answer'.results[i] \subseteq served[i]
                                  /\ ~emptied => answer'.results[i] = served[i] /\ i \notin unread
                             ELSE answer'.results[i] = NotQueried
      <4>1. answer'.results[i] = Aligned(rr)[i]
        BY <3>1, <3>3
      <4>2. CASE asked[i]
        <5>1. PICK k \in 1..Len(Queries) : Queries[k] = i
          BY <1>8, <4>2, QueriesAre DEF AskedFor
        <5> QED BY <1>6, <3>2, <3>3, <3>4, <4>1, <4>2, <5>1
      <4>3. CASE ~asked[i]
        BY <3>4, <4>1, <4>3
      <4> QED BY <4>2, <4>3
    <3>6. ~answer'.error /\ Len(answer'.results) = Len(asked)
      BY <3>1, <3>3, <3>4
    <3>7. Answered'
      BY <1>1, <1>8, <3>5, <3>6 DEF Answered
    <3> QED BY <3>1, <3>7 DEF OInv
  <2> QED BY <2>2, <2>3
<1> QED BY <1>10, <1>11

LEMMA QueryStepKeeps == ASSUME OInv, QueryStep PROVE OInv'
<1>1. CASE \E n \in 0..(BatchMax + 1) : PostBatch(n)
  BY <1>1, PostBatchKeeps
<1>2. CASE \E vs \in SUBSET VulnIds, more \in BOOLEAN : \E bare \in SUBSET vs :
             FirstPage(vs, more, bare) \/ NextPage(vs, more, bare)
  BY <1>2, FirstPageKeeps, NextPageKeeps
<1>3. CASE RequestFails
  BY <1>3, RaiseKeeps DEF RequestFails
<1> QED BY <1>1, <1>2, <1>3, EmptyPageKeeps, StoreKeeps DEF QueryStep
LEMMA QueriesStutter == ASSUME OInv, UNCHANGED osvVars PROVE OInv'
<1>1. UNCHANGED <<fstep, asked, start, batch, ids, res, answer, served, unread, emptied>>
  BY DEF osvVars
<1>2. /\ Queries' = Queries /\ ChunkSize' = ChunkSize /\ Reading' = Reading
      /\ Gathered' = Gathered
  BY <1>1 DEF Queries, ChunkSize, Reading, Gathered
<1>3. Querying => Querying'
  BY <1>1, <1>2 DEF Querying
<1>4. Answered => Answered'
  BY <1>1 DEF Answered
<1> QED BY <1>1, <1>3, <1>4 DEF OInv

LEMMA AskedKept == ASSUME QueryStep PROVE asked' = asked /\ loaded' = loaded
BY DEF QueryStep, PostBatch, FirstPage, NextPage, EmptyPage, Store, RequestFails, Raise

LEMMA OInvInitially == Init => OInv
BY DEF Init, FeedsInit, OInv

\* the steps of a process that are no steps of a query
LEMMA OInvKeeps == OInv /\ [Next]_vars => OInv'
<1> SUFFICES ASSUME OInv, [Next]_vars PROVE OInv'
  OBVIOUS
<1>1. CASE UNCHANGED osvVars
  BY <1>1, QueriesStutter
<1>2. CASE Query
  BY <1>2, QueryStepKeeps DEF Query
<1>3. CASE \E c \in Commands : Start(c)
  <2>1. ControlAsked \in Seq(BOOLEAN)
    BY DEF ControlAsked
  <2>2. Ask(ControlAsked) \/ UNCHANGED feedVars
    BY <1>3 DEF Start
  <2> QED BY <2>1, <2>2, AskKeeps, QueriesStutter DEF feedVars
<1>4. CASE \E n \in 1..MaxAsked : \E components \in [1..n -> BOOLEAN] : StartLibrary(components)
  <2>1. PICK n \in 1..MaxAsked : \E components \in [1..n -> BOOLEAN] : StartLibrary(components)
    BY <1>4
  <2>2. PICK components \in [1..n -> BOOLEAN] : StartLibrary(components)
    BY <2>1
  <2>3. components \in Seq(BOOLEAN)
    BY CommandLineAssumption
  <2> QED BY <2>2, <2>3, AskKeeps DEF StartLibrary
<1>5. CASE ReceiptBegins
  <2>1. fstep' = "off"
    BY <1>5 DEF ReceiptBegins, Forget
  <2> QED BY <2>1 DEF OInv
<1>6. CASE \/ \E l, e, id : StartVuln(l, e, id)
           \/ Queried \/ Confirm \/ Record
           \/ \E ok, part : LoadNext(ok, part) \/ LoadNamed(ok, part)
           \/ \E k \in {1, 2} : Refuse(k)
           \/ \E r \in BOOLEAN : PromiseBroken(r)
           \/ \E k : Outcome(k)
           \/ ReceiptStep \/ ReceiptWhole \/ ReceiptLost \/ Exit \/ Reads \/ Leaves
           \/ UNCHANGED vars
  <2>1. UNCHANGED osvVars
    BY <1>6 DEF StartVuln, Queried, Confirm, Record, LoadNext, LoadNamed, Load, Refuse,
                PromiseBroken, Outcome, ReceiptStep, ReceiptWhole, ReceiptLost, Exit, Reads,
                Leaves, vars, feedVars
  <2> QED BY <1>1, <2>1
<1> QED BY <1>2, <1>3, <1>4, <1>5, <1>6 DEF Next, ProcessStep

(* CompleteOrError: an answer of osv_query_batch is an error without       *)
(* results, or the whole of what the server has for each component, at     *)
(* its place: for every list of components, every size of a chunk and any  *)
(* number of pages.                                                        *)
THEOREM NeverPartial == Spec => []CompleteOrError
<1>1. OInv => CompleteOrError
  BY DEF OInv, Answered, CompleteOrError
<1>2. Spec => []OInv
  BY OInvInitially, OInvKeeps, PTL DEF Spec
<1> QED BY <1>1, <1>2, PTL

-----------------------------------------------------------------------------
(* What `feeds` believes.                                                  *)

Believed ==
  /\ served[1] \cap Cves # {} /\ (unread = {} \/ emptied)
  /\ \A f \in Catalogues : Control \in loaded[f].ids

BInv ==
  /\ LInv /\ OInv
  /\ \A f \in Catalogues : loaded[f].error \/ Control \in loaded[f].ids
  /\ step = "idle" => cmd = "none"
  /\ cmd = "feeds" =>
       /\ step \in {"osv", "cisa_kev", "enisa_euvd", "work", "receipt", "exit", "ended"}
       /\ step \in {"osv", "cisa_kev", "enisa_euvd", "work"} => asked = ControlAsked
       /\ step \in {"cisa_kev", "enisa_euvd", "work"} => fstep = "answered"
       /\ step = "receipt" /\ at = "idle" /\ code = 0 => Believed

\* a catalogue that is loaded shows the control
LEMMA LoadShows ==
  ASSUME BInv, NEW f \in Catalogues, NEW ok, NEW part, Load(f, ok, part)
  PROVE  \A g \in Catalogues : loaded'[g].error \/ Control \in loaded'[g].ids
<1>1. PICK v : /\ v.error \/ Control \in v.ids
               /\ loaded' = [loaded EXCEPT ![f] = v]
  <2>1. CASE ok /\ Control \in part
    <3> DEFINE v == [ids |-> part, error |-> FALSE]
    <3>1. Control \in v.ids /\ loaded' = [loaded EXCEPT ![f] = v]
      BY <2>1 DEF Load
    <3> QED BY <3>1
  <2>2. CASE ~(ok /\ Control \in part)
    <3>1. NotLoaded.error /\ loaded' = [loaded EXCEPT ![f] = NotLoaded]
      BY <2>2 DEF Load, NotLoaded
    <3> QED BY <3>1
  <2> QED BY <2>1, <2>2
<1> QED BY <1>1 DEF BInv, LInv

\* an answer to the control that is believed is one that was read to its end
LEMMA ControlIs ==
  ASSUME BInv, cmd = "feeds", step = "work", FeedsCode = 0
  PROVE  Believed
<1>1. ControlOk /\ \A f \in Catalogues : ~loaded[f].error
  BY DEF FeedsCode
<1>2. asked = <<TRUE>> /\ Answered
  BY DEF BInv, ControlAsked, OInv
<1>3. ~answer.error /\ answer.results[1] \cap Cves # {}
  BY <1>1 DEF ControlOk
<1>4. Len(asked) = 1 /\ asked[1] /\ AskedFor(asked) \subseteq {1}
  BY <1>2 DEF AskedFor
<1>5. /\ answer.results[1] \subseteq served[1]
      /\ ~emptied => 1 \notin unread
      /\ unread \subseteq {1}
  <2>1. 1 \in 1..Len(asked) /\ asked[1]
    BY <1>4
  <2>2. unread \subseteq {1}
    BY <1>2, <1>4 DEF Answered
  <2> HIDE DEF Answered
  <2>3. /\ answer.results[1] \subseteq served[1]
        /\ ~emptied => 1 \notin unread
    <3>1. \A i \in 1..Len(asked) :
            asked[i] => /\ answer.results[i] \subseteq served[i]
                        /\ ~emptied => i \notin unread
      BY <1>2, <1>3 DEF Answered
    <3> QED BY <2>1, <3>1
  <2> QED BY <2>2, <2>3
<1> QED BY <1>1, <1>3, <1>5 DEF Believed, BInv

LEMMA BelievedKeeps == BInv /\ [Next]_vars => BInv'
<1> SUFFICES ASSUME BInv, [Next]_vars PROVE BInv'
  OBVIOUS
<1>1. LInv' /\ OInv'
  BY ListedKeeps, OInvKeeps DEF BInv
<1>2. CASE \E ok, part : LoadNext(ok, part) \/ LoadNamed(ok, part)
  <2>1. PICK ok, part : LoadNext(ok, part) \/ LoadNamed(ok, part)
    BY <1>2
  <2>2. PICK f \in Catalogues : Load(f, ok, part)
    BY <2>1 DEF LoadNext, LoadNamed, BInv, LInv
  <2>3. \A g \in Catalogues : loaded'[g].error \/ Control \in loaded'[g].ids
    BY <2>2, LoadShows
  <2>4. fstep' = fstep /\ asked' = asked /\ cmd' = cmd
    BY <2>1, <2>2 DEF LoadNext, LoadNamed, Load, osvVars
  <2>5. cmd = "feeds" => step \in Catalogues /\ step' \in {"enisa_euvd", "work"}
    BY <2>1 DEF BInv, LoadNext, LoadNamed
  <2>6. step' # "idle"
    BY <2>1 DEF LoadNext, LoadNamed
  <2> QED BY <1>1, <2>3, <2>4, <2>5, <2>6, CommandLineAssumption DEF BInv
<1>3. CASE Query
  <2>1. loaded' = loaded /\ asked' = asked /\ cmd' = cmd /\ step' = step /\ step \in {"osv", "library"}
    BY <1>3, AskedKept DEF Query, cliVars
  <2> QED BY <1>1, <2>1 DEF BInv
<1>4. CASE \E c \in Commands \ {"vuln"} : Start(c)
  <2>1. loaded' = loaded /\ step' # "idle"
    BY <1>4 DEF Start, Ask, feedVars
  <2>2. cmd' = "feeds" => step' = "osv" /\ asked' = ControlAsked
    BY <1>4 DEF Start, Ask
  <2> QED BY <1>1, <2>1, <2>2 DEF BInv
<1>5. CASE \E components : StartLibrary(components)
  BY <1>1, <1>5 DEF BInv, StartLibrary, Ask
<1>6. CASE \E l, e, id : StartVuln(l, e, id)
  BY <1>1, <1>6 DEF BInv, StartVuln, feedVars
<1>7. CASE Queried
  BY <1>1, <1>7 DEF BInv, Queried, feedVars, osvVars
<1>8. CASE \E k : Outcome(k)
  <2>1. PICK k : Outcome(k)
    BY <1>8
  <2>2. UNCHANGED feedVars /\ cmd' = cmd /\ code' = k /\ step' = "receipt"
        /\ (cmd = "feeds" => k = FeedsCode)
    BY <2>1 DEF Outcome
  <2>3. cmd = "feeds" => step = "work"
    BY <2>1, NotRecording DEF Outcome
  <2>4. cmd = "feeds" /\ k = 0 => Believed
    BY <2>2, <2>3, ControlIs
  <2>5. Believed => Believed'
    BY <2>2 DEF Believed, feedVars, osvVars
  <2> QED BY <1>1, <2>2, <2>4, <2>5 DEF BInv, feedVars, osvVars
<1>9. CASE Confirm \/ Record \/ (\E k \in {1, 2} : Refuse(k)) \/ (\E r \in BOOLEAN : PromiseBroken(r))
  <2>1. cmd # "feeds"
    BY <1>9 DEF BInv, Confirm, Record, Refuse, PromiseBroken, Recording, Writing
  <2> QED BY <1>1, <1>9, <2>1 DEF BInv, Confirm, Record, Refuse, PromiseBroken, Leave, feedVars
<1>10. CASE ReceiptBegins
  <2>1. at' # "idle"
    BY <1>10 DEF ReceiptBegins, BeginStep, Begin
  <2>2. \A f \in Catalogues : loaded'[f].error
    BY <1>10 DEF ReceiptBegins, Forget, NotLoaded
  <2>3. step' = "receipt" /\ cmd' = cmd
    BY <1>10 DEF ReceiptBegins, cliVars
  <2> QED BY <1>1, <2>1, <2>2, <2>3 DEF BInv
<1>11. CASE ReceiptStep
  <2>1. at' # "idle" /\ step' = "receipt" /\ cmd' = cmd /\ UNCHANGED feedVars
    BY <1>11 DEF ReceiptStep, WriterStep, Drain, Take, WriteRaw, PendingDone, Wrote, WouldBlock,
                 FlushBlocks, Writable, FlushDone, Fails, cliVars
  <2> QED BY <1>1, <2>1 DEF BInv, feedVars
<1>12. CASE ReceiptWhole \/ ReceiptLost \/ Exit
  BY <1>1, <1>12 DEF BInv, ReceiptWhole, ReceiptLost, Exit, Leave, feedVars
<1>13. CASE Reads \/ Leaves \/ UNCHANGED vars
  <2>1. at' = at /\ UNCHANGED <<feedVars, cliVars>>
    BY <1>13 DEF Reads, Leaves, ReaderReadsSome, ReaderReads, ReaderLeaves, vars, receiptVars
  <2>2. Believed => Believed'
    BY <2>1 DEF Believed, feedVars, osvVars
  <2> QED BY <1>1, <2>1, <2>2 DEF BInv, feedVars, osvVars, cliVars
<1> QED BY <1>2, <1>3, <1>4, <1>5, <1>6, <1>7, <1>8, <1>9, <1>10, <1>11, <1>12, <1>13 DEF Next, ProcessStep

(* FeedsBelieved: `feeds` exits 0 only when OSV's control has shown a CVE  *)
(* and each catalogue its own (feeds.py:9-10), and a record names only a   *)
(* catalogue that lists its vulnerability (cli.py:344-355).                *)
THEOREM BelievedOnEvidence == Spec => []FeedsBelieved
<1>1. Init => BInv
  <2>1. \A f \in Catalogues : Init => loaded[f].error
    BY DEF Init, FeedsInit, NotLoaded
  <2> QED BY <2>1, ListedInitially, OInvInitially DEF Init, BInv
<1>2. BInv => FeedsBelieved
  BY DEF BInv, LInv, NamedIsListed, FeedsBelieved, Believed
<1> QED BY <1>1, <1>2, BelievedKeeps, PTL DEF Spec
=============================================================================

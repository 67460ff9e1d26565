----------------------------- MODULE LedgerProofs -----------------------------
(***************************************************************************)
(* For any processes, any records and any failures: the ledger of module   *)
(* Ledger stays a chain and keeps what it promised, as long as its appends *)
(* are serialised, by flock or because one process at most does without.   *)
(* The lemmas come first: what the readers of LedgerLines find in a file   *)
(* that is the start of a chain written entry by entry, for every length   *)
(* of the file and wherever its last line is cut.                          *)
(***************************************************************************)
EXTENDS Ledger, FiniteSetTheorems, SequenceTheorems, TLAPS

-----------------------------------------------------------------------------
(* Numbers.                                                                *)

\* a set of natural numbers that is not empty has a least one
LEMMA LeastOf ==
  ASSUME NEW T \in SUBSET Nat, T # {}
  PROVE  \E m \in T : \A k \in T : m <= k
<1> DEFINE R == OpToRel(<, Nat)
<1>1. IsWellFoundedOn(R, Nat)
  BY NatLessThanWellFounded
<1>2. \A x, y \in Nat : x < y => <<x, y>> \in R
  BY DEF OpToRel
<1> HIDE DEF R
<1>3. PICK m \in T : \A y \in T : ~(<<y, m>> \in R)
  BY <1>1, WFMin
<1>4. \A k \in T : m <= k
  <2> SUFFICES ASSUME NEW k \in T, k < m PROVE FALSE
    OBVIOUS
  <2>1. <<k, m>> \in R
    BY <1>2
  <2> QED BY <1>3, <2>1
<1> QED BY <1>4

\* what holds of 0 and passes from each number to the next holds of all
LEMMA UpTo ==
  ASSUME NEW S, 0 \in S, \A n \in Nat : n \in S => n + 1 \in S
  PROVE  Nat \subseteq S
<1> DEFINE T == Nat \ S
<1> SUFFICES ASSUME T # {} PROVE FALSE
  OBVIOUS
<1>1. PICK m \in T : \A k \in T : m <= k
  BY LeastOf
<1>2. m - 1 \in Nat /\ m - 1 \in S
  BY <1>1
<1> QED BY <1>1, <1>2

\* one that has an upper bound has a greatest one
LEMMA GreatestOf ==
  ASSUME NEW T \in SUBSET Nat, T # {}, NEW b \in Nat, \A k \in T : k <= b
  PROVE  Greatest(T) \in T /\ \A k \in T : k <= Greatest(T)
<1> DEFINE B == {m \in Nat : \A k \in T : k <= m}
<1>1. PICK m \in B : \A k \in B : m <= k
  <2>1. b \in B
    OBVIOUS
  <2> QED BY <2>1, LeastOf
<1>2. m \in T
  <2> SUFFICES ASSUME m \notin T PROVE FALSE
    OBVIOUS
  <2>1. PICK t \in T : TRUE
    OBVIOUS
  <2>2. \A k \in T : k <= m - 1
    <3> SUFFICES ASSUME NEW k \in T PROVE k <= m - 1
      OBVIOUS
    <3>1. k <= m /\ k # m /\ k \in Nat /\ m \in Nat
      BY <1>1
    <3> QED BY <3>1
  <2>3. m - 1 \in Nat
    BY <1>1, <2>1, <2>2
  <2>4. m - 1 \in B
    BY <2>2, <2>3
  <2> QED BY <1>1, <2>4
<1>3. m \in T /\ \A k \in T : k <= m
  BY <1>1, <1>2
<1> HIDE DEF B
<1> QED BY <1>3 DEF Greatest

-----------------------------------------------------------------------------
(* Files that are the start of a chain.                                    *)

\* what is there of entry j: cell 3j+1 opens it, 3j+2 closes it, 3j+3 ends its
\* line
EntryCells(f, j) ==
  /\ 3*j + 1 <= Len(f) => /\ f[3*j + 1].part = "open"
                          /\ f[3*j + 1].e \in Entry
                          /\ f[3*j + 1].e.idx = j
                          /\ f[3*j + 1].e.prev =
                               IF j = 0 THEN GENESIS
                                        ELSE SelfHash(f[3*j - 2].e)
  /\ 3*j + 2 <= Len(f) => f[3*j + 2] = Close(f[3*j + 1].e)
  /\ 3*j + 3 <= Len(f) => f[3*j + 3] = NL

Chained(f) == \A j \in Nat : EntryCells(f, j)

\* a natural number is one of 3j, 3j+1, 3j+2
LEMMA ByThree ==
  ASSUME NEW n \in Nat
  PROVE  \E j \in Nat : n = 3*j \/ n = 3*j + 1 \/ n = 3*j + 2
<1>1. n = 3 * (n \div 3) + (n % 3) /\ n % 3 \in 0..2 /\ n \div 3 \in Nat
  OBVIOUS
<1> QED BY <1>1

LEMMA CellParts ==
  /\ \A e : Open(e).part = "open" /\ Close(e).part = "close"
  /\ \A e : Open(e) # NL /\ Close(e) # NL /\ Open(e).e = e /\ Close(e).e = e
  /\ \A c \in Cell : c.part = "open" => c = Open(c.e) /\ c # NL
  BY DEF Open, Close, NL, NUL, Cell

\* any part of a chained file from its start is chained
LEMMA ChainedPrefix ==
  ASSUME NEW f \in Seq(Cell), Chained(f), NEW k \in 0..Len(f)
  PROVE  SubSeq(f, 1, k) \in Seq(Cell) /\ Chained(SubSeq(f, 1, k))
<1> DEFINE g == SubSeq(f, 1, k)
<1>1. g \in Seq(Cell) /\ Len(g) = k /\ \A i \in 1..k : g[i] = f[i]
  OBVIOUS
<1>2. ASSUME NEW j \in Nat
      PROVE  EntryCells(g, j)
  <2>1. EntryCells(f, j)
    BY DEF Chained
  <2>2. 3*j + 1 <= k => g[3*j + 1] = f[3*j + 1]
    BY <1>1
  <2>3. 3*j + 1 <= k /\ j # 0 => g[3*j - 2] = f[3*j - 2]
    BY <1>1
  <2>4. 3*j + 2 <= k => g[3*j + 2] = f[3*j + 2]
    BY <1>1
  <2>5. 3*j + 3 <= k => g[3*j + 3] = f[3*j + 3]
    BY <1>1
  <2>6. k <= Len(f) /\ Len(f) \in Nat /\ k \in Nat /\ Len(g) = k
    BY <1>1
  <2> HIDE DEF g
  <2>7. 3*j + 1 <= Len(g) => /\ g[3*j + 1].part = "open"
                             /\ g[3*j + 1].e \in Entry
                             /\ g[3*j + 1].e.idx = j
    <3>1. 3*j + 1 <= Len(g) => 3*j + 1 <= Len(f)
      BY <2>6
    <3> QED BY <2>1, <2>2, <2>6, <3>1, Zenon DEF EntryCells
  <2>8. 3*j + 1 <= Len(g) =>
          g[3*j + 1].e.prev = IF j = 0 THEN GENESIS ELSE SelfHash(g[3*j - 2].e)
    <3>1. 3*j + 1 <= Len(g) => 3*j + 1 <= Len(f)
      BY <2>6
    <3> QED BY <2>1, <2>2, <2>3, <2>6, <3>1, Zenon DEF EntryCells
  <2>9. 3*j + 2 <= Len(g) => g[3*j + 2] = Close(g[3*j + 1].e)
    <3>1. 3*j + 2 <= Len(g) => 3*j + 2 <= Len(f) /\ 3*j + 1 <= k
      BY <2>6
    <3> QED BY <2>1, <2>2, <2>4, <2>6, <3>1, Zenon DEF EntryCells
  <2>10. 3*j + 3 <= Len(g) => g[3*j + 3] = NL
    <3>1. 3*j + 3 <= Len(g) => 3*j + 3 <= Len(f)
      BY <2>6
    <3> QED BY <2>1, <2>5, <2>6, <3>1, Zenon DEF EntryCells
  <2> QED BY <2>7, <2>8, <2>9, <2>10, Zenon DEF EntryCells
<1> QED BY <1>1, <1>2 DEF Chained

\* lines start where the code puts an entry's first cell, and nowhere else
LEMMA ChainedLineStarts ==
  ASSUME NEW f \in Seq(Cell), Chained(f)
  PROVE  LineStarts(f) = {i \in 1..Len(f) : \E j \in Nat : i = 3*j + 1}
<1>1. ASSUME NEW j \in Nat, 3*j + 1 <= Len(f)
      PROVE  3*j + 1 \in LineStarts(f)
  <2>1. CASE j = 0
    BY <1>1, <2>1 DEF LineStarts
  <2>2. CASE j # 0
    <3>1. j - 1 \in Nat /\ 3*(j - 1) + 3 = 3*j /\ 3*j <= Len(f)
      BY <1>1, <2>2
    <3>2. EntryCells(f, j - 1)
      BY <3>1 DEF Chained
    <3>3. f[3*j] = NL
      BY <3>1, <3>2 DEF EntryCells
    <3> QED BY <1>1, <3>3 DEF LineStarts
  <2> QED BY <2>1, <2>2
<1>2. ASSUME NEW i \in LineStarts(f)
      PROVE  \E j \in Nat : i = 3*j + 1
  <2>1. i \in 1..Len(f) /\ (i = 1 \/ f[i-1] = NL)
    BY DEF LineStarts
  <2>2. CASE i = 1
    BY <2>2
  <2>3. CASE i # 1
    <3>0. i \in Nat /\ Len(f) \in Nat /\ i <= Len(f) /\ i > 0
      BY <2>1
    <3>1. PICK j \in Nat : i = 3*j \/ i = 3*j + 1 \/ i = 3*j + 2
      BY <3>0, ByThree
    <3>2. f[i-1] = NL
      BY <2>1, <2>3
    <3>3. CASE i = 3*j
      <4>1. j - 1 \in Nat /\ i = 3*(j - 1) + 3 /\ i - 1 = 3*(j - 1) + 2
        BY <3>0, <3>3
      <4>2. EntryCells(f, j - 1)
        BY <4>1 DEF Chained
      <4>3. f[i-1] = Close(f[3*(j-1) + 1].e)
        BY <3>0, <4>1, <4>2 DEF EntryCells
      <4> QED BY <3>2, <4>3, CellParts
    <3>4. CASE i = 3*j + 2
      <4>1. EntryCells(f, j)
        BY DEF Chained
      <4>2. i - 1 = 3*j + 1 /\ f[i-1].part = "open"
        BY <3>0, <3>4, <4>1 DEF EntryCells
      <4> QED BY <3>2, <4>2 DEF NL
    <3> QED BY <3>1, <3>3, <3>4
  <2> QED BY <2>2, <2>3
<1>3. LineStarts(f) \subseteq 1..Len(f)
  BY DEF LineStarts
<1> QED BY <1>1, <1>2, <1>3

\* the lines that parse are those whose entry is closed
LEMMA ChainedStarts ==
  ASSUME NEW f \in Seq(Cell), Chained(f)
  PROVE  Starts(f) = {i \in 1..Len(f) : \E j \in Nat : i = 3*j + 1 /\ 3*j + 2 <= Len(f)}
<1>0. Len(f) \in Nat
  OBVIOUS
<1>1. ASSUME NEW j \in Nat, 3*j + 2 <= Len(f)
      PROVE  WholeAt(f, 3*j + 1)
  <2>0. EntryCells(f, j)
    BY DEF Chained
  <2>1. f[3*j + 1].part = "open" /\ f[3*j + 2] = Close(f[3*j + 1].e)
    BY <1>0, <1>1, <2>0 DEF EntryCells
  <2>2. 3*j + 2 = Len(f) \/ f[3*j + 3] = NL
    BY <1>0, <1>1, <2>0 DEF EntryCells
  <2>3. 3*j + 1 + 1 = 3*j + 2 /\ 3*j + 1 + 2 = 3*j + 3 /\ 3*j + 1 < Len(f)
    BY <1>0, <1>1
  <2> QED BY <2>1, <2>2, <2>3 DEF WholeAt
<1>2. ASSUME NEW i \in Starts(f)
      PROVE  \E j \in Nat : i = 3*j + 1 /\ 3*j + 2 <= Len(f)
  <2>1. i \in LineStarts(f) /\ i < Len(f)
    BY DEF Starts, WholeAt
  <2>2. PICK j \in Nat : i = 3*j + 1
    BY <2>1, ChainedLineStarts
  <2> QED BY <2>1, <2>2
<1> QED BY <1>1, <1>2, ChainedLineStarts DEF Starts
-----------------------------------------------------------------------------
\* the first n line starts
Thirds(n) == {3*i + 1 : i \in 0..(n - 1)}

LEMMA ThirdsCount ==
  ASSUME NEW n \in Nat
  PROVE  Cardinality(Thirds(n)) = n
<1> DEFINE F == [i \in 0..(n - 1) |-> 3*i + 1]
<1>1. F \in Bijection(0..(n - 1), Thirds(n))
  <2>1. F \in [0..(n - 1) -> Thirds(n)]
    BY DEF Thirds
  <2>2. \A a, b \in DOMAIN F : F[a] = F[b] => a = b
    OBVIOUS
  <2>3. \A t \in Thirds(n) : \E s \in 0..(n - 1) : F[s] = t
    BY DEF Thirds
  <2> HIDE DEF F
  <2>4. F \in Injection(0..(n - 1), Thirds(n))
    BY <2>1, <2>2 DEF Injection, IsInjective
  <2>5. F \in Surjection(0..(n - 1), Thirds(n))
    BY <2>1, <2>3 DEF Surjection
  <2> QED BY <2>4, <2>5 DEF Bijection
<1>2. ExistsBijection(0..(n - 1), Thirds(n))
  BY <1>1 DEF ExistsBijection
<1>3. IsFiniteSet(0..(n - 1)) /\ Cardinality(0..(n - 1)) = n
  BY FS_Interval
<1> QED BY <1>2, <1>3, FS_Bijection

LEMMA ThirdsEnds ==
  ASSUME NEW n \in Nat, n > 0
  PROVE  Thirds(n) # {} /\ Greatest(Thirds(n)) = 3*n - 2 /\ Least(Thirds(n)) = 1
<1>1. 3*(n - 1) + 1 \in Thirds(n) /\ 3*0 + 1 \in Thirds(n)
  BY DEF Thirds
<1>2. 3*n - 2 \in Thirds(n) /\ 1 \in Thirds(n)
  BY <1>1
<1>3. \A k \in Thirds(n) : k \in Nat /\ 1 <= k /\ k <= 3*n - 2
  BY DEF Thirds
<1>4. \A k \in Thirds(n) : (\A l \in Thirds(n) : l <= k) => k = 3*n - 2
  BY <1>2, <1>3
<1>5. \A k \in Thirds(n) : (\A l \in Thirds(n) : k <= l) => k = 1
  BY <1>2, <1>3
<1>6. Greatest(Thirds(n)) = 3*n - 2
  BY <1>2, <1>3, <1>4 DEF Greatest
<1>7. Least(Thirds(n)) = 1
  BY <1>2, <1>3, <1>5 DEF Least
<1> QED BY <1>2, <1>6, <1>7

LEMMA ThirdsEmpty == Thirds(0) = {}
  BY DEF Thirds

-----------------------------------------------------------------------------
\* n is how many entries of a chained file are closed
Closed(f, n) == n \in Nat /\ 3*n - 1 <= Len(f) /\ Len(f) <= 3*n + 1

LEMMA ClosedExists ==
  ASSUME NEW f \in Seq(Cell)
  PROVE  \E n : Closed(f, n)
<1>1. PICK j \in Nat : Len(f) = 3*j \/ Len(f) = 3*j + 1 \/ Len(f) = 3*j + 2
  BY ByThree
<1>2. CASE Len(f) = 3*j + 2
  <2>1. Closed(f, j + 1)
    BY <1>2 DEF Closed
  <2> QED BY <2>1
<1>3. CASE Len(f) # 3*j + 2
  <2>1. Closed(f, j)
    BY <1>1, <1>3 DEF Closed
  <2> QED BY <2>1
<1> QED BY <1>2, <1>3

LEMMA ClosedStarts ==
  ASSUME NEW f \in Seq(Cell), Chained(f), NEW n, Closed(f, n)
  PROVE  Starts(f) = Thirds(n)
<1>1. n \in Nat /\ Len(f) \in Nat /\ 3*n - 1 <= Len(f) /\ Len(f) <= 3*n + 1
  BY DEF Closed
<1>2. \A j \in Nat : 3*j + 2 <= Len(f) <=> j \in 0..(n - 1)
  BY <1>1
<1>3. Starts(f) = {i \in 1..Len(f) : \E j \in Nat : i = 3*j + 1 /\ 3*j + 2 <= Len(f)}
  BY ChainedStarts
<1>4. ASSUME NEW i \in Starts(f) PROVE i \in Thirds(n)
  BY <1>2, <1>3 DEF Thirds
<1>5. ASSUME NEW i \in Thirds(n) PROVE i \in Starts(f)
  <2>1. PICK j \in 0..(n - 1) : i = 3*j + 1
    BY DEF Thirds
  <2>2. j \in Nat /\ 3*j + 2 <= Len(f) /\ i \in 1..Len(f)
    BY <1>1, <1>2, <2>1
  <2> QED BY <1>3, <2>1, <2>2
<1> QED BY <1>4, <1>5

\* _tail_state finds the number of closed entries and the last one's hash
LEMMA ChainedTail ==
  ASSUME NEW f \in Seq(Cell), Chained(f), NEW n, Closed(f, n)
  PROVE  /\ Count(f) = n
         /\ n = 0 => LastHash(f) = GENESIS
         /\ n > 0 => /\ LastHash(f) = SelfHash(f[3*n - 2].e)
                     /\ FirstHash(f) = SelfHash(f[1].e)
<1>1. n \in Nat
  BY DEF Closed
<1>2. Starts(f) = Thirds(n)
  BY ClosedStarts
<1>3. Count(f) = n
  BY <1>1, <1>2, ThirdsCount DEF Count
<1>4. CASE n = 0
  BY <1>2, <1>3, <1>4, ThirdsEmpty DEF LastHash
<1>5. CASE n > 0
  <2>1. Starts(f) # {} /\ Greatest(Starts(f)) = 3*n - 2 /\ Least(Starts(f)) = 1
    BY <1>1, <1>2, <1>5, ThirdsEnds
  <2>2. LastHash(f) = SelfHash(f[3*n - 2].e)
    BY <2>1 DEF LastHash
  <2>3. FirstHash(f) = SelfHash(f[1].e)
    BY <2>1 DEF FirstHash
  <2> QED BY <1>3, <1>5, <2>2, <2>3
<1> QED BY <1>1, <1>3, <1>4, <1>5

\* a chained file is refused iff it ends in the first piece of an entry
LEMMA ChainedTorn ==
  ASSUME NEW f \in Seq(Cell), Chained(f)
  PROVE  /\ \A i \in LineStarts(f) \ Starts(f) : i = Len(f)
         /\ ~Unparsable(f) => ~\E j \in Nat : Len(f) = 3*j + 1
<1>1. Len(f) \in Nat
  OBVIOUS
<1>2. ASSUME NEW i \in LineStarts(f) \ Starts(f) PROVE i = Len(f)
  <2>1. PICK j \in Nat : i \in 1..Len(f) /\ i = 3*j + 1
    BY ChainedLineStarts
  <2>2. ~(3*j + 2 <= Len(f))
    BY <2>1, ChainedStarts
  <2> QED BY <1>1, <2>1, <2>2
<1>3. ASSUME NEW j \in Nat, Len(f) = 3*j + 1 PROVE Unparsable(f)
  <2>1. Len(f) \in LineStarts(f)
    BY <1>1, <1>3, ChainedLineStarts
  <2>2. Len(f) \notin Starts(f)
    <3>1. \A k \in Nat : ~(Len(f) = 3*k + 1 /\ 3*k + 2 <= Len(f))
      BY <1>3
    <3> QED BY <3>1, ChainedStarts
  <2>3. EntryCells(f, j)
    BY DEF Chained
  <2>4. f[Len(f)].part = "open"
    BY <1>1, <1>3, <2>3 DEF EntryCells
  <2>5. f[Len(f)] # NL
    BY <2>4 DEF NL
  <2> QED BY <2>1, <2>2, <2>5 DEF Unparsable
<1> QED BY <1>2, <1>3

\* Ledger.verify accepts the links of a chained file
LEMMA ChainedLinks ==
  ASSUME NEW f \in Seq(Cell), Chained(f)
  PROVE  /\ LinksHold(f)
         /\ \A j \in Nat : 3*j + 2 <= Len(f) =>
              /\ 3*j + 1 \in Starts(f)
              /\ Cardinality(Before(f, 3*j + 1)) = j
              /\ j = 0 => Before(f, 3*j + 1) = {}
<1>1. PICK n : Closed(f, n)
  BY ClosedExists
<1>2. n \in Nat /\ Starts(f) = Thirds(n)
  BY <1>1, ClosedStarts DEF Closed
<1>3. ASSUME NEW j \in 0..(n - 1)
      PROVE  Before(f, 3*j + 1) = Thirds(j)
  <2>1. n \in Nat /\ j \in Nat /\ j < n
    BY <1>2
  <2>2. Before(f, 3*j + 1) = {k \in Thirds(n) : k < 3*j + 1}
    BY <1>2 DEF Before
  <2>3. ASSUME NEW k \in Thirds(n), k < 3*j + 1
        PROVE  k \in Thirds(j)
    <3>1. PICK i \in 0..(n - 1) : k = 3*i + 1
      BY DEF Thirds
    <3>2. i \in 0..(j - 1)
      BY <2>1, <2>3, <3>1
    <3> QED BY <3>1, <3>2 DEF Thirds
  <2>4. ASSUME NEW k \in Thirds(j)
        PROVE  k \in Thirds(n) /\ k < 3*j + 1
    <3>1. PICK i \in 0..(j - 1) : k = 3*i + 1
      BY DEF Thirds
    <3>2. i \in 0..(n - 1) /\ k < 3*j + 1
      BY <2>1, <3>1
    <3> QED BY <3>1, <3>2 DEF Thirds
  <2> QED BY <2>2, <2>3, <2>4
<1>4. ASSUME NEW j \in 0..(n - 1)
      PROVE  /\ f[3*j + 1].e.idx = Cardinality(Before(f, 3*j + 1))
             /\ f[3*j + 1].e.prev =
                  IF Before(f, 3*j + 1) = {} THEN GENESIS
                  ELSE SelfHash(f[Greatest(Before(f, 3*j + 1))].e)
  <2>1. j \in Nat /\ Len(f) \in Nat /\ 3*j + 1 <= Len(f)
    BY <1>1 DEF Closed
  <2>2. EntryCells(f, j)
    BY <2>1 DEF Chained
  <2>3. f[3*j + 1].e.idx = Cardinality(Before(f, 3*j + 1))
    BY <1>3, <2>1, <2>2, ThirdsCount DEF EntryCells
  <2>4. CASE j = 0
    BY <1>3, <2>1, <2>2, <2>3, <2>4, ThirdsEmpty DEF EntryCells
  <2>5. CASE j > 0
    <3>1. Before(f, 3*j + 1) # {} /\ Greatest(Before(f, 3*j + 1)) = 3*j - 2
      BY <1>3, <2>1, <2>5, ThirdsEnds
    <3>2. f[3*j + 1].e.prev = SelfHash(f[3*j - 2].e)
      BY <2>1, <2>2, <2>5 DEF EntryCells
    <3> QED BY <2>3, <3>1, <3>2
  <2> QED BY <2>1, <2>4, <2>5
<1>5. LinksHold(f)
  <2> SUFFICES ASSUME NEW i \in Starts(f)
               PROVE  /\ f[i].e.idx = Cardinality(Before(f, i))
                      /\ f[i].e.prev = IF Before(f, i) = {} THEN GENESIS
                                       ELSE SelfHash(f[Greatest(Before(f, i))].e)
    BY DEF LinksHold
  <2>1. PICK j \in 0..(n - 1) : i = 3*j + 1
    BY <1>2 DEF Thirds
  <2> QED BY <1>4, <2>1
<1>6. ASSUME NEW j \in Nat, 3*j + 2 <= Len(f)
      PROVE  /\ 3*j + 1 \in Starts(f)
             /\ Cardinality(Before(f, 3*j + 1)) = j
             /\ j = 0 => Before(f, 3*j + 1) = {}
  <2>1. j \in 0..(n - 1)
    BY <1>1, <1>6 DEF Closed
  <2>2. 3*j + 1 \in Starts(f)
    BY <1>2, <2>1 DEF Thirds
  <2> QED BY <1>3, <2>1, <2>2, ThirdsCount, ThirdsEmpty
<1> QED BY <1>5, <1>6

-----------------------------------------------------------------------------
\* one sequence after another, cell by cell
LEMMA Joined ==
  ASSUME NEW a \in Seq(Cell), NEW b \in Seq(Cell)
  PROVE  /\ a \o b \in Seq(Cell)
         /\ Len(a \o b) = Len(a) + Len(b)
         /\ \A i \in 1..Len(a) : (a \o b)[i] = a[i]
         /\ \A i \in 1..Len(b) : (a \o b)[Len(a) + i] = b[i]
<1>1. Len(a) \in Nat /\ Len(b) \in Nat
  OBVIOUS
<1>2. a \o b \in Seq(Cell) /\ Len(a \o b) = Len(a) + Len(b)
  OBVIOUS
<1>3. ASSUME NEW i \in 1..Len(a) PROVE (a \o b)[i] = a[i]
  BY <1>1
<1>4. ASSUME NEW i \in 1..Len(b) PROVE (a \o b)[Len(a) + i] = b[i]
  <2>1. Len(a) + i \in 1..(Len(a) + Len(b)) /\ ~(Len(a) + i <= Len(a))
    BY <1>1
  <2>2. Len(a) + i - Len(a) = i
    BY <1>1
  <2> QED BY <1>1, <2>1, <2>2
<1> QED BY <1>2, <1>3, <1>4

\* writing some of r and leaving the rest: what a write loop may rely on
LEMMA PartWritten ==
  ASSUME NEW f \in Seq(Cell), NEW r \in Seq(Cell), NEW k \in 1..Len(r)
  PROVE  LET g == f \o SubSeq(r, 1, k)
             s == SubSeq(r, k + 1, Len(r))
         IN  /\ g \in Seq(Cell) /\ s \in Seq(Cell)
             /\ g = SubSeq(f \o r, 1, Len(f) + k)
             /\ g \o s = f \o r
             /\ Len(g) = Len(f) + k
             /\ \A i \in 1..Len(f) : g[i] = f[i]
<1> DEFINE a == SubSeq(r, 1, k)
           s == SubSeq(r, k + 1, Len(r))
           g == f \o a
           h == f \o r
<1>0. Len(f) \in Nat /\ Len(r) \in Nat /\ k \in Nat /\ 0 < k /\ k <= Len(r)
  OBVIOUS
<1>1. a \in Seq(Cell) /\ Len(a) = k /\ \A i \in 1..k : a[i] = r[i]
  OBVIOUS
<1>2. s \in Seq(Cell) /\ Len(s) = Len(r) - k /\ \A i \in 1..(Len(r) - k) : s[i] = r[k + i]
  OBVIOUS
<1> HIDE DEF a, s
<1>3. /\ g \in Seq(Cell) /\ Len(g) = Len(f) + k
      /\ \A i \in 1..Len(f) : g[i] = f[i]
      /\ \A i \in 1..k : g[Len(f) + i] = a[i]
  BY <1>1, Joined
<1>4. /\ h \in Seq(Cell) /\ Len(h) = Len(f) + Len(r)
      /\ \A i \in 1..Len(f) : h[i] = f[i]
      /\ \A i \in 1..Len(r) : h[Len(f) + i] = r[i]
  BY Joined
<1> HIDE DEF g, h
<1>5. ASSUME NEW i \in 1..(Len(f) + k) PROVE g[i] = h[i]
  <2>1. CASE i <= Len(f)
    BY <1>0, <1>3, <1>4, <2>1
  <2>2. CASE i > Len(f)
    <3>1. PICK l \in 1..k : i = Len(f) + l
      <4>1. i - Len(f) \in 1..k /\ i = Len(f) + (i - Len(f))
        BY <1>0, <2>2
      <4> QED BY <4>1
    <3>2. l \in 1..Len(r)
      BY <1>0
    <3> QED BY <1>1, <1>3, <1>4, <3>1, <3>2
  <2> QED BY <1>0, <2>1, <2>2
<1>6. g = SubSeq(h, 1, Len(f) + k)
  <2> DEFINE c == SubSeq(h, 1, Len(f) + k)
  <2>1. /\ c \in Seq(Cell) /\ Len(c) = Len(f) + k
        /\ \A i \in 1..(Len(f) + k) : c[i] = h[i]
    BY <1>0, <1>4
  <2> HIDE DEF c
  <2>2. \A i \in 1..(Len(f) + k) : c[i] = g[i]
    BY <1>5, <2>1
  <2>3. c = g
    BY <1>3, <2>1, <2>2
  <2> QED BY <2>3 DEF c
<1>7. g \o s = h
  <2> DEFINE c == g \o s
  <2>1. /\ c \in Seq(Cell) /\ Len(c) = Len(f) + Len(r)
        /\ \A i \in 1..(Len(f) + k) : c[i] = g[i]
        /\ \A i \in 1..(Len(r) - k) : c[(Len(f) + k) + i] = s[i]
    <3>1. /\ c \in Seq(Cell) /\ Len(c) = Len(g) + Len(s)
          /\ \A i \in 1..Len(g) : c[i] = g[i]
          /\ \A i \in 1..Len(s) : c[Len(g) + i] = s[i]
      BY <1>2, <1>3, Joined
    <3>2. Len(g) + Len(s) = Len(f) + Len(r)
      BY <1>0, <1>2, <1>3
    <3> HIDE DEF c
    <3> QED BY <1>2, <1>3, <3>1, <3>2
  <2> HIDE DEF c
  <2>2. ASSUME NEW i \in 1..(Len(f) + Len(r)) PROVE c[i] = h[i]
    <3>1. CASE i <= Len(f) + k
      BY <1>0, <1>5, <2>1, <3>1
    <3>2. CASE i > Len(f) + k
      <4>1. PICK l \in 1..(Len(r) - k) : i = (Len(f) + k) + l
        <5>1. i - (Len(f) + k) \in 1..(Len(r) - k) /\ i = (Len(f) + k) + (i - (Len(f) + k))
          BY <1>0, <3>2
        <5> QED BY <5>1
      <4>2. k + l \in 1..Len(r) /\ i = Len(f) + (k + l)
        BY <1>0, <4>1
      <4>3. h[i] = r[k + l]
        BY <1>4, <4>2
      <4>4. c[i] = r[k + l]
        BY <1>2, <2>1, <4>1
      <4> QED BY <4>3, <4>4
    <3> QED BY <1>0, <3>1, <3>2
  <2>3. c = h
    BY <1>4, <2>1, <2>2
  <2> QED BY <2>3 DEF c
<1> QED BY <1>2, <1>3, <1>6, <1>7 DEF a, s, g, h

\* cell by cell, what a file becomes when its tail is closed and a line added
LEMMA LineAdded ==
  ASSUME NEW f \in Seq(Cell), NEW e \in Entry
  PROVE  LET r == (IF Unterminated(f) THEN <<NL>> ELSE <<>>) \o Line(e)
             m == IF Unterminated(f) THEN Len(f) + 1 ELSE Len(f)
             g == f \o r
         IN  /\ r \in Seq(Cell) /\ g \in Seq(Cell)
             /\ Len(g) = m + 3
             /\ \A i \in 1..Len(f) : g[i] = f[i]
             /\ m # Len(f) => g[m] = NL
             /\ g[m + 1] = Open(e) /\ g[m + 2] = Close(e) /\ g[m + 3] = NL
<1>1. Open(e) \in Cell /\ Close(e) \in Cell /\ NL \in Cell
  BY DEF Open, Close, Cell
<1>2. /\ Line(e) \in Seq(Cell) /\ Len(Line(e)) = 3 /\ Line(e)[1] = Open(e)
      /\ Line(e)[2] = Close(e) /\ Line(e)[3] = NL
  BY <1>1 DEF Line
<1>3. Len(f) \in Nat
  OBVIOUS
<1>4. CASE Unterminated(f)
  <2>1. <<NL>> \in Seq(Cell) /\ Len(<<NL>>) = 1 /\ <<NL>>[1] = NL
    BY <1>1
  <2> DEFINE r == <<NL>> \o Line(e)
             g == f \o r
  <2>2. /\ r \in Seq(Cell) /\ Len(r) = 4
        /\ \A i \in 1..1 : r[i] = <<NL>>[i]
        /\ \A i \in 1..3 : r[1 + i] = Line(e)[i]
    <3>1. /\ r \in Seq(Cell) /\ Len(r) = Len(<<NL>>) + Len(Line(e))
          /\ \A i \in 1..Len(<<NL>>) : r[i] = <<NL>>[i]
          /\ \A i \in 1..Len(Line(e)) : r[Len(<<NL>>) + i] = Line(e)[i]
      BY <1>2, <2>1, Joined
    <3> HIDE DEF r
    <3> QED BY <1>2, <2>1, <3>1
  <2>3. r[1] = NL /\ r[2] = Open(e) /\ r[3] = Close(e) /\ r[4] = NL
    <3>1. r[1] = <<NL>>[1] /\ r[1 + 1] = Line(e)[1] /\ r[1 + 2] = Line(e)[2]
          /\ r[1 + 3] = Line(e)[3]
      BY <2>2
    <3> HIDE DEF r
    <3> QED BY <1>2, <2>1, <3>1
  <2> HIDE DEF r
  <2>4. /\ g \in Seq(Cell) /\ Len(g) = Len(f) + 4
        /\ \A i \in 1..Len(f) : g[i] = f[i]
        /\ \A i \in 1..4 : g[Len(f) + i] = r[i]
    <3>1. /\ g \in Seq(Cell) /\ Len(g) = Len(f) + Len(r)
          /\ \A i \in 1..Len(f) : g[i] = f[i]
          /\ \A i \in 1..Len(r) : g[Len(f) + i] = r[i]
      BY <2>2, Joined
    <3> HIDE DEF g
    <3> QED BY <2>2, <3>1
  <2> HIDE DEF g
  <2>5. g[Len(f) + 1] = NL /\ g[Len(f) + 2] = Open(e)
        /\ g[Len(f) + 3] = Close(e) /\ g[Len(f) + 4] = NL
    BY <2>3, <2>4
  <2>6. Len(f) + 1 # Len(f) /\ Len(f) + 1 + 1 = Len(f) + 2
        /\ Len(f) + 1 + 2 = Len(f) + 3 /\ Len(f) + 1 + 3 = Len(f) + 4
    BY <1>3
  <2>7. /\ r \in Seq(Cell) /\ g \in Seq(Cell)
        /\ Len(g) = (Len(f) + 1) + 3
        /\ \A i \in 1..Len(f) : g[i] = f[i]
        /\ g[Len(f) + 1] = NL
        /\ g[(Len(f) + 1) + 1] = Open(e)
        /\ g[(Len(f) + 1) + 2] = Close(e)
        /\ g[(Len(f) + 1) + 3] = NL
    BY <2>2, <2>4, <2>5, <2>6
  <2> QED BY <1>4, <2>7 DEF r, g
<1>5. CASE ~Unterminated(f)
  <2> DEFINE g == f \o Line(e)
  <2>1. <<>> \o Line(e) = Line(e)
    BY <1>2
  <2>2. /\ g \in Seq(Cell) /\ Len(g) = Len(f) + 3
        /\ \A i \in 1..Len(f) : g[i] = f[i]
        /\ \A i \in 1..3 : g[Len(f) + i] = Line(e)[i]
    <3>1. /\ g \in Seq(Cell) /\ Len(g) = Len(f) + Len(Line(e))
          /\ \A i \in 1..Len(f) : g[i] = f[i]
          /\ \A i \in 1..Len(Line(e)) : g[Len(f) + i] = Line(e)[i]
      BY <1>2, Joined
    <3> HIDE DEF g
    <3> QED BY <1>2, <3>1
  <2>3. g[Len(f) + 1] = Open(e) /\ g[Len(f) + 2] = Close(e) /\ g[Len(f) + 3] = NL
    <3> HIDE DEF g
    <3> QED BY <1>2, <2>2
  <2> QED BY <1>2, <1>5, <2>1, <2>2, <2>3
<1> QED BY <1>4, <1>5

\* an entry built from what _tail_state returned continues the chain
LEMMA ChainedGrows ==
  ASSUME NEW f \in Seq(Cell), Chained(f), ~Unparsable(f),
         NEW e \in Entry, e.idx = Count(f), e.prev = LastHash(f)
  PROVE  LET r == (IF Unterminated(f) THEN <<NL>> ELSE <<>>) \o Line(e)
             g == f \o r
         IN  /\ r \in Seq(Cell) /\ g \in Seq(Cell) /\ Chained(g)
             /\ Len(g) = 3*e.idx + 3
             /\ Len(f) <= 3*e.idx
             /\ g[3*e.idx + 1] = Open(e)
             /\ SelfHash(g[1].e) = IF e.idx > 0 THEN FirstHash(f) ELSE SelfHash(e)
             /\ Count(f) = e.idx
<1> DEFINE r == (IF Unterminated(f) THEN <<NL>> ELSE <<>>) \o Line(e)
           m == IF Unterminated(f) THEN Len(f) + 1 ELSE Len(f)
           g == f \o r
<1>1. PICK n : Closed(f, n)
  BY ClosedExists
<1>2. n \in Nat /\ Len(f) \in Nat /\ 3*n - 1 <= Len(f) /\ Len(f) <= 3*n + 1 /\ e.idx = n
  <2>1. Count(f) = n
    BY <1>1, ChainedTail
  <2>2. n \in Nat /\ 3*n - 1 <= Len(f) /\ Len(f) <= 3*n + 1
    BY <1>1 DEF Closed
  <2> QED BY <2>1, <2>2
<1>3. Len(f) # 3*n + 1
  BY <1>2, ChainedTorn
<1>4. /\ r \in Seq(Cell) /\ g \in Seq(Cell) /\ Len(g) = m + 3
      /\ \A i \in 1..Len(f) : g[i] = f[i]
      /\ m # Len(f) => g[m] = NL
      /\ g[m + 1] = Open(e) /\ g[m + 2] = Close(e) /\ g[m + 3] = NL
  BY LineAdded
<1>5. m = 3*n /\ (n > 0 => g[3*n] = NL)
  <2>1. CASE Len(f) = 3*n
    <3>1. n > 0 => f[3*n] = NL
      <4> SUFFICES ASSUME n > 0 PROVE f[3*n] = NL
        OBVIOUS
      <4>1. n - 1 \in Nat /\ 3*(n - 1) + 3 = 3*n
        BY <1>2
      <4>2. EntryCells(f, n - 1)
        BY <4>1 DEF Chained
      <4> QED BY <1>2, <2>1, <4>1, <4>2 DEF EntryCells
    <3>2. ~Unterminated(f)
      BY <1>2, <2>1, <3>1 DEF Unterminated
    <3> QED BY <1>2, <1>4, <2>1, <3>1, <3>2
  <2>2. CASE Len(f) = 3*n - 1
    <3>1. n > 0 /\ n - 1 \in Nat /\ 3*(n - 1) + 2 = 3*n - 1 /\ 3*(n - 1) + 1 = 3*n - 2
      BY <1>2, <2>2
    <3>2. EntryCells(f, n - 1)
      BY <3>1 DEF Chained
    <3>3. f[3*n - 1] = Close(f[3*n - 2].e)
      BY <1>2, <2>2, <3>1, <3>2 DEF EntryCells
    <3>4. Unterminated(f)
      BY <1>2, <2>2, <3>1, <3>3, CellParts DEF Unterminated
    <3>5. m = Len(f) + 1 /\ m = 3*n /\ m # Len(f)
      BY <1>2, <2>2, <3>4
    <3> HIDE DEF g, m
    <3> QED BY <1>4, <3>5
  <2>3. Len(f) = 3*n \/ Len(f) = 3*n - 1
    BY <1>2, <1>3
  <2> QED BY <2>1, <2>2, <2>3
<1>6. /\ Len(g) = 3*n + 3 /\ Len(f) <= 3*n /\ g[3*n + 1] = Open(e)
      /\ g[3*n + 2] = Close(e) /\ g[3*n + 3] = NL
  <2>1. Len(f) <= 3*n
    BY <1>2, <1>3
  <2>2. m = 3*n
    BY <1>5
  <2> HIDE DEF g, m
  <2> QED BY <1>4, <2>1, <2>2
<1>7. /\ n = 0 => e.prev = GENESIS
      /\ n > 0 => /\ e.prev = SelfHash(f[3*n - 2].e)
                  /\ FirstHash(f) = SelfHash(f[1].e)
  BY <1>1, <1>2, ChainedTail
<1>8. \A i \in 1..Len(f) : g[i] = f[i]
  BY <1>4
<1>9. n > 0 => g[3*n - 2] = f[3*n - 2] /\ g[1] = f[1]
  BY <1>2, <1>8
<1>10. ASSUME NEW j \in Nat PROVE EntryCells(g, j)
  <2>0. EntryCells(f, j)
    BY DEF Chained
  <2>1. CASE j < n
    <3>1. 3*j + 3 <= 3*n /\ 3*j + 2 <= Len(f)
      BY <1>2, <2>1
    <3>2. g[3*j + 1] = f[3*j + 1] /\ g[3*j + 2] = f[3*j + 2]
      BY <1>2, <1>8, <3>1
    <3>3. j # 0 => g[3*j - 2] = f[3*j - 2]
      BY <1>2, <1>8, <3>1
    <3>4. g[3*j + 3] = NL
      <4>1. CASE 3*j + 3 <= Len(f)
        <5>1. g[3*j + 3] = f[3*j + 3]
          BY <1>2, <1>8, <4>1
        <5> QED BY <2>0, <4>1, <5>1 DEF EntryCells
      <4>2. CASE 3*j + 3 > Len(f)
        <5>1. j + 1 = n
          BY <1>2, <2>1, <4>2
        <5>2. 3*j + 3 = 3*n
          BY <5>1
        <5> QED BY <1>2, <1>5, <5>1, <5>2
      <4> HIDE DEF g
      <4> QED BY <1>2, <2>1, <4>1, <4>2
    <3> HIDE DEF g, m
    <3> QED BY <1>2, <1>6, <2>0, <3>1, <3>2, <3>3, <3>4 DEF EntryCells
  <2>2. CASE j = n
    <3>1. e.idx = n /\ Open(e).part = "open" /\ Open(e).e = e
      BY <1>2, CellParts
    <3>2. e.prev = IF n = 0 THEN GENESIS ELSE SelfHash(g[3*n - 2].e)
      BY <1>2, <1>7, <1>9
    <3> HIDE DEF g, m
    <3> QED BY <1>2, <1>6, <2>2, <3>1, <3>2 DEF EntryCells
  <2>3. CASE j > n
    <3>1. ~(3*j + 1 <= Len(g)) /\ ~(3*j + 2 <= Len(g)) /\ ~(3*j + 3 <= Len(g))
      BY <1>2, <1>6, <2>3
    <3> HIDE DEF g, m
    <3> QED BY <3>1 DEF EntryCells
  <2> QED BY <1>2, <2>1, <2>2, <2>3
<1>11. SelfHash(g[1].e) = IF n > 0 THEN FirstHash(f) ELSE SelfHash(e)
  <2>1. CASE n > 0
    BY <1>7, <1>9, <2>1
  <2>2. CASE n = 0
    <3>1. g[1] = Open(e)
      BY <1>6, <2>2
    <3>2. Open(e).e = e
      BY CellParts
    <3>3. ~(n > 0)
      BY <2>2
    <3> HIDE DEF g
    <3> QED BY <3>1, <3>2, <3>3
  <2> HIDE DEF g
  <2> QED BY <1>2, <2>1, <2>2
<1>12. r \in Seq(Cell) /\ g \in Seq(Cell) /\ Chained(g)
  BY <1>4, <1>10 DEF Chained
<1> HIDE DEF g
<1> QED BY <1>2, <1>6, <1>11, <1>12 DEF g
-----------------------------------------------------------------------------
(* Hashes.                                                                 *)

LEMMA HashType == \A e \in Entry : SelfHash(e) \in Digest
  BY DEF SelfHash, Entry, Digest

\* no two entries have one hash
LEMMA HashTells ==
  ASSUME NEW a \in Entry, NEW b \in Entry, SelfHash(a) = SelfHash(b)
  PROVE  a = b
<1> DEFINE X == Nat \X Data
           s == a.prev
           t == b.prev
           x == <<a.idx, a.data>>
           y == <<b.idx, b.data>>
<1>1. /\ a.prev \in Seq(X) /\ b.prev \in Seq(X)
      /\ a.idx \in Nat /\ b.idx \in Nat /\ a.data \in Data /\ b.data \in Data
  BY DEF Entry, Digest
<1>2. s \in Seq(X) /\ t \in Seq(X) /\ x \in X /\ y \in X
  BY <1>1
<1>3. Append(s, x) = Append(t, y)
  BY DEF SelfHash
<1> HIDE DEF X, s, t, x, y
<1>4. s = t /\ x = y
  BY <1>2, <1>3, AppendInjective
<1>5. a.idx = b.idx /\ a.data = b.data /\ a.prev = b.prev
  BY <1>4 DEF s, t, x, y
<1> QED BY <1>5 DEF Entry

\* the hash of an entry commits to the place and the record of every entry up
\* to it
LEMMA ChainHash ==
  ASSUME NEW s \in Seq(Entry), IsChain(s)
  PROVE  \A k \in 1..Len(s) :
           /\ SelfHash(s[k]) \in Digest /\ Len(SelfHash(s[k])) = k
           /\ \A i \in 1..k : SelfHash(s[k])[i] = <<i - 1, s[i].data>>
<1> DEFINE P(k) == /\ SelfHash(s[k]) \in Digest /\ Len(SelfHash(s[k])) = k
                   /\ \A i \in 1..k : SelfHash(s[k])[i] = <<i - 1, s[i].data>>
           S == {m \in Nat : m + 1 \in 1..Len(s) => P(m + 1)}
<1>0. Len(s) \in Nat /\ \A k \in 1..Len(s) : s[k] \in Entry
  OBVIOUS
<1>1. ASSUME NEW k \in 1..Len(s), k > 1 => P(k - 1)
      PROVE  P(k)
  <2>1. /\ s[k].idx = k - 1
        /\ s[k].prev = IF k = 1 THEN <<>> ELSE SelfHash(s[k-1])
    BY DEF IsChain, GENESIS
  <2>2. s[k].prev \in Seq(Nat \X Data) /\ <<k - 1, s[k].data>> \in Nat \X Data
    BY <1>0, <2>1 DEF Entry, Digest
  <2>3. Len(s[k].prev) = k - 1 /\ \A i \in 1..(k - 1) : s[k].prev[i] = <<i - 1, s[i].data>>
    <3>1. CASE k = 1
      BY <2>1, <3>1
    <3>2. CASE k > 1
      BY <1>1, <2>1, <3>2
    <3> QED BY <1>0, <3>1, <3>2
  <2>4. SelfHash(s[k]) = Append(s[k].prev, <<k - 1, s[k].data>>)
    BY <2>1 DEF SelfHash
  <2>5. SelfHash(s[k]) \in Digest
    BY <1>0, HashType
  <2> QED BY <2>2, <2>3, <2>4, <2>5
<1> HIDE DEF P
<1>2. 0 \in S
  <2> SUFFICES ASSUME 1 \in 1..Len(s) PROVE P(1)
    OBVIOUS
  <2> QED BY <1>1
<1>3. ASSUME NEW m \in Nat, m \in S PROVE m + 1 \in S
  <2> SUFFICES ASSUME (m + 1) + 1 \in 1..Len(s) PROVE P((m + 1) + 1)
    OBVIOUS
  <2>1. m + 1 \in 1..Len(s) /\ ((m + 1) + 1) - 1 = m + 1
    BY <1>0
  <2>2. P(((m + 1) + 1) - 1)
    BY <1>3, <2>1
  <2> QED BY <1>1, <2>2
<1>4. Nat \subseteq S
  <2> HIDE DEF S
  <2> QED BY <1>2, <1>3, UpTo
<1>5. ASSUME NEW k \in 1..Len(s) PROVE P(k)
  <2>1. k - 1 \in Nat /\ (k - 1) + 1 = k
    BY <1>0
  <2>2. k - 1 \in S
    BY <1>4, <2>1
  <2> QED BY <2>1, <2>2
<1> QED BY <1>5 DEF P

-----------------------------------------------------------------------------
(* The entries of a chained file, in order.                                *)

LEMMA ChainedLog ==
  ASSUME NEW f \in Seq(Cell), Chained(f), NEW n, Closed(f, n)
  PROVE  /\ LogOf(f) \in Seq(Entry)
         /\ Len(LogOf(f)) = n
         /\ \A k \in 1..n : LogOf(f)[k] = f[3*k - 2].e
         /\ IsChain(LogOf(f))
<1>1. n \in Nat /\ Len(f) \in Nat /\ 3*n - 1 <= Len(f) /\ Len(f) <= 3*n + 1
  BY DEF Closed
<1>2. Starts(f) = Thirds(n) /\ Count(f) = n
  BY ClosedStarts, ChainedTail
<1>3. ASSUME NEW k \in 1..n
      PROVE  (CHOOSE i \in Starts(f) : Cardinality(Before(f, i)) = k - 1) = 3*k - 2
  <2>1. k - 1 \in Nat /\ 3*(k - 1) + 2 <= Len(f) /\ 3*(k - 1) + 1 = 3*k - 2
    BY <1>1
  <2>2. 3*k - 2 \in Starts(f) /\ Cardinality(Before(f, 3*k - 2)) = k - 1
    BY <2>1, ChainedLinks
  <2>3. ASSUME NEW i \in Starts(f), Cardinality(Before(f, i)) = k - 1
        PROVE  i = 3*k - 2
    <3>1. PICK j \in 0..(n - 1) : i = 3*j + 1
      BY <1>2 DEF Thirds
    <3>2. j \in Nat /\ 3*j + 2 <= Len(f)
      BY <1>1
    <3>3. Cardinality(Before(f, i)) = j
      BY <3>1, <3>2, ChainedLinks
    <3> QED BY <2>1, <2>3, <3>1, <3>3
  <2> QED BY <2>2, <2>3
<1>4. LogOf(f) = [k \in 1..n |-> f[3*k - 2].e]
  <2> DEFINE place(k) == CHOOSE i \in Starts(f) : Cardinality(Before(f, i)) = k - 1
  <2>1. LogOf(f) = [k \in 1..n |-> f[place(k)].e]
    BY <1>2, Zenon DEF LogOf
  <2>2. \A k \in 1..n : place(k) = 3*k - 2
    BY <1>3
  <2> HIDE DEF place
  <2> QED BY <2>1, <2>2
<1>5. ASSUME NEW k \in 1..n
      PROVE  /\ f[3*k - 2].e \in Entry
             /\ f[3*k - 2].e.idx = k - 1
             /\ f[3*k - 2].e.prev = IF k = 1 THEN GENESIS ELSE SelfHash(f[3*(k - 1) - 2].e)
  <2>1. /\ k - 1 \in Nat /\ 3*(k - 1) + 1 <= Len(f) /\ 3*(k - 1) + 1 = 3*k - 2
        /\ (k - 1 = 0 <=> k = 1)
    BY <1>1
  <2>2. EntryCells(f, k - 1)
    BY <2>1 DEF Chained
  <2> HIDE DEF EntryCells
  <2> QED BY <2>1, <2>2, Zenon DEF EntryCells
<1> DEFINE s == [k \in 1..n |-> f[3*k - 2].e]
<1>6. s \in Seq(Entry) /\ Len(s) = n
  <2>1. n \in Nat
    BY <1>1
  <2>2. s \in [1..n -> Entry]
    BY <1>5
  <2> HIDE DEF s
  <2> QED BY <2>1, <2>2
<1>7. IsChain(s)
  <2> SUFFICES ASSUME NEW k \in 1..n
               PROVE  /\ s[k].idx = k - 1
                      /\ s[k].prev = IF k = 1 THEN GENESIS ELSE SelfHash(s[k-1])
    BY <1>6 DEF IsChain
  <2>1. k # 1 => k - 1 \in 1..n
    BY <1>1
  <2> QED BY <1>5, <2>1
<1> QED BY <1>4, <1>6, <1>7

\* two chains that hold one entry are the same up to it
LEMMA SameChain ==
  ASSUME NEW f \in Seq(Cell), Chained(f), NEW g \in Seq(Cell), Chained(g),
         NEW j \in Nat, 3*j + 2 <= Len(f), 3*j + 2 <= Len(g),
         f[3*j + 1].e = g[3*j + 1].e
  PROVE  \A i \in 1..(3*j + 2) : g[i] = f[i]
<1> DEFINE Same(m) == \A i \in 1..(3*m + 2) : g[i] = f[i]
           S == {m \in Nat : /\ 3*m + 2 <= Len(f) /\ 3*m + 2 <= Len(g)
                             /\ f[3*m + 1].e = g[3*m + 1].e
                             => Same(m)}
<1>0. Len(f) \in Nat /\ Len(g) \in Nat
  OBVIOUS
<1>1. ASSUME NEW m \in Nat, 3*m + 2 <= Len(f), 3*m + 2 <= Len(g),
             f[3*m + 1].e = g[3*m + 1].e
      PROVE  /\ f[3*m + 1] = g[3*m + 1] /\ f[3*m + 2] = g[3*m + 2]
             /\ f[3*m + 1].e \in Entry
             /\ f[3*m + 1].e.prev = IF m = 0 THEN GENESIS ELSE SelfHash(f[3*m - 2].e)
             /\ g[3*m + 1].e.prev = IF m = 0 THEN GENESIS ELSE SelfHash(g[3*m - 2].e)
  <2>1. EntryCells(f, m) /\ EntryCells(g, m)
    BY DEF Chained
  <2>2. 3*m + 1 <= Len(f) /\ 3*m + 1 <= Len(g)
    BY <1>0, <1>1
  <2>3. /\ f[3*m + 1].part = "open" /\ g[3*m + 1].part = "open"
        /\ f[3*m + 2] = Close(f[3*m + 1].e) /\ g[3*m + 2] = Close(g[3*m + 1].e)
        /\ f[3*m + 1].e \in Entry
        /\ f[3*m + 1].e.prev = IF m = 0 THEN GENESIS ELSE SelfHash(f[3*m - 2].e)
        /\ g[3*m + 1].e.prev = IF m = 0 THEN GENESIS ELSE SelfHash(g[3*m - 2].e)
    BY <1>1, <2>1, <2>2, Zenon DEF EntryCells
  <2>4. f[3*m + 1] \in Cell /\ g[3*m + 1] \in Cell
    BY <1>0, <2>2
  <2>5. f[3*m + 1] = Open(f[3*m + 1].e) /\ g[3*m + 1] = Open(g[3*m + 1].e)
    BY <2>3, <2>4, CellParts
  <2>6. f[3*m + 1] = g[3*m + 1]
    BY <1>1, <2>5
  <2> QED BY <1>1, <2>3, <2>6
<1>2. 0 \in S
  <2> SUFFICES ASSUME 3*0 + 2 <= Len(f), 3*0 + 2 <= Len(g), f[3*0 + 1].e = g[3*0 + 1].e
               PROVE  Same(0)
    OBVIOUS
  <2>1. f[1] = g[1] /\ f[2] = g[2]
    BY <1>1
  <2> QED BY <2>1
<1>3. ASSUME NEW m \in Nat, m \in S PROVE m + 1 \in S
  <2> DEFINE l == m + 1
  <2> SUFFICES ASSUME 3*l + 2 <= Len(f), 3*l + 2 <= Len(g), f[3*l + 1].e = g[3*l + 1].e
               PROVE  Same(l)
    OBVIOUS
  <2>1. /\ l \in Nat /\ l # 0 /\ 3*l - 2 = 3*m + 1
        /\ 3*m + 2 <= Len(f) /\ 3*m + 2 <= Len(g)
        /\ 3*m + 1 <= Len(f) /\ 3*m + 1 <= Len(g)
        /\ 3*m + 3 <= Len(f) /\ 3*m + 3 <= Len(g)
    BY <1>0
  <2>2. /\ f[3*l + 1] = g[3*l + 1] /\ f[3*l + 2] = g[3*l + 2]
        /\ SelfHash(f[3*m + 1].e) = SelfHash(g[3*m + 1].e)
    <3> HIDE DEF l
    <3> QED BY <1>1, <2>1
  <2>3. EntryCells(f, m) /\ EntryCells(g, m)
    BY DEF Chained
  <2>4. /\ f[3*m + 1].e \in Entry /\ g[3*m + 1].e \in Entry
        /\ f[3*m + 3] = NL /\ g[3*m + 3] = NL
    <3> HIDE DEF l
    <3> QED BY <2>1, <2>3 DEF EntryCells
  <2>5. f[3*m + 1].e = g[3*m + 1].e
    BY <2>2, <2>4, HashTells
  <2>6. Same(m)
    BY <1>3, <2>1, <2>5
  <2>7. \A i \in 1..(3*l + 2) : i \in 1..(3*m + 2) \/ i = 3*m + 3 \/ i = 3*l + 1 \/ i = 3*l + 2
    BY <2>1
  <2> HIDE DEF l
  <2> QED BY <2>2, <2>4, <2>6, <2>7
<1>4. Nat \subseteq S
  <2> HIDE DEF S
  <2> QED BY <1>2, <1>3, UpTo
<1> QED BY <1>4

\* what two chained files have in common, their logs have
LEMMA CommonLog ==
  ASSUME NEW f \in Seq(Cell), Chained(f), NEW g \in Seq(Cell), Chained(g),
         NEW m \in Nat, 3*m - 1 <= Len(f), 3*m - 1 <= Len(g),
         \A i \in 1..(3*m - 1) : g[i] = f[i]
  PROVE  /\ m <= Len(LogOf(f)) /\ m <= Len(LogOf(g))
         /\ SubSeq(LogOf(g), 1, m) = SubSeq(LogOf(f), 1, m)
<1>1. PICK n : Closed(f, n)
  BY ClosedExists
<1>2. PICK l : Closed(g, l)
  BY ClosedExists
<1>3. /\ n \in Nat /\ Len(f) \in Nat /\ 3*n - 1 <= Len(f) /\ Len(f) <= 3*n + 1
      /\ l \in Nat /\ Len(g) \in Nat /\ 3*l - 1 <= Len(g) /\ Len(g) <= 3*l + 1
  BY <1>1, <1>2 DEF Closed
<1>4. m <= n /\ m <= l
  BY <1>3
<1>5. LogOf(f) \in Seq(Entry) /\ Len(LogOf(f)) = n /\ \A k \in 1..n : LogOf(f)[k] = f[3*k - 2].e
  BY <1>1, ChainedLog
<1>6. LogOf(g) \in Seq(Entry) /\ Len(LogOf(g)) = l /\ \A k \in 1..l : LogOf(g)[k] = g[3*k - 2].e
  BY <1>2, ChainedLog
<1>7. \A k \in 1..m : LogOf(g)[k] = LogOf(f)[k]
  <2> SUFFICES ASSUME NEW k \in 1..m PROVE LogOf(g)[k] = LogOf(f)[k]
    OBVIOUS
  <2>1. k \in 1..n /\ k \in 1..l /\ 3*k - 2 \in 1..(3*m - 1)
    BY <1>3, <1>4
  <2> QED BY <1>5, <1>6, <2>1
<1>8. PICK a \in Seq(Entry), b \in Seq(Entry) : a = LogOf(f) /\ b = LogOf(g)
  BY <1>5, <1>6
<1>9. SubSeq(b, 1, m) = SubSeq(a, 1, m)
  <2>1. m \in Nat /\ m <= Len(a) /\ m <= Len(b) /\ \A k \in 1..m : b[k] = a[k]
    BY <1>3, <1>4, <1>5, <1>6, <1>7, <1>8
  <2> QED BY <2>1
<1> QED BY <1>3, <1>4, <1>5, <1>6, <1>8, <1>9

-----------------------------------------------------------------------------
(* The entries of any file, chained or not.                                *)

LEMMA StartsType ==
  ASSUME NEW f \in Seq(Cell)
  PROVE  /\ Starts(f) \in SUBSET Nat
         /\ \A i \in Starts(f) : i \in 1..Len(f) /\ i <= Len(f) /\ f[i].e \in Entry
         /\ IsFiniteSet(Starts(f)) /\ Count(f) \in Nat
<1>1. Len(f) \in Nat /\ \A i \in Starts(f) : i \in 1..Len(f) /\ f[i].part = "open"
  BY DEF Starts, LineStarts, WholeAt
<1>2. \A c \in Cell : c.part = "open" => c.e \in Entry
  BY DEF Cell, NL, NUL
<1>3. \A i \in Starts(f) : i \in Nat /\ i <= Len(f) /\ f[i].e \in Entry
  BY <1>1, <1>2
<1>4. IsFiniteSet(Starts(f))
  BY <1>1, <1>3, FS_BoundedSetOfNaturals
<1> QED BY <1>1, <1>3, <1>4, FS_CardinalityType DEF Count

\* counted from 0, the lines that parse are in the order of the file
LEMMA StartRanks ==
  ASSUME NEW f \in Seq(Cell)
  PROVE  /\ \A i \in Starts(f) : Cardinality(Before(f, i)) \in 0..(Count(f) - 1)
         /\ \A i, j \in Starts(f) :
              i < j => Cardinality(Before(f, i)) < Cardinality(Before(f, j))
         /\ \A k \in 0..(Count(f) - 1) :
              \E i \in Starts(f) : Cardinality(Before(f, i)) = k
<1> DEFINE T == Starts(f)
           n == Count(f)
           rank(i) == Cardinality(Before(f, i))
           F == [i \in T |-> rank(i)]
<1>1. T \in SUBSET Nat /\ IsFiniteSet(T) /\ n \in Nat /\ Cardinality(T) = n
  BY StartsType DEF Count
<1>2. ASSUME NEW i \in T
      PROVE  IsFiniteSet(Before(f, i)) /\ rank(i) \in 0..(n - 1)
  <2>1. Before(f, i) \in SUBSET T /\ i \notin Before(f, i)
    BY <1>1 DEF Before
  <2>2. IsFiniteSet(Before(f, i)) /\ rank(i) \in Nat /\ rank(i) <= n /\ rank(i) # n
    <3>1. IsFiniteSet(Before(f, i)) /\ rank(i) <= n /\ rank(i) # n
      BY <1>1, <2>1, FS_Subset
    <3> QED BY <3>1, FS_CardinalityType
  <2> QED BY <1>1, <2>2
<1>3. ASSUME NEW i \in T, NEW j \in T, i < j
      PROVE  rank(i) < rank(j)
  <2>1. Before(f, i) \in SUBSET Before(f, j) /\ i \in Before(f, j) /\ i \notin Before(f, i)
    BY <1>1, <1>3 DEF Before
  <2>2. rank(i) <= rank(j) /\ rank(i) # rank(j)
    BY <1>2, <2>1, FS_Subset
  <2>3. rank(i) \in Nat /\ rank(j) \in Nat
    BY <1>2, FS_CardinalityType
  <2> QED BY <2>2, <2>3
<1> HIDE DEF rank, n, T
<1>4. F \in Injection(T, 0..(n - 1))
  <2>1. F \in [T -> 0..(n - 1)]
    BY <1>2
  <2>2. ASSUME NEW i \in T, NEW j \in T, F[i] = F[j] PROVE i = j
    <3>1. rank(i) = rank(j) /\ rank(i) \in Nat /\ i \in Nat /\ j \in Nat
      BY <1>1, <1>2, <2>2
    <3>2. ~(rank(i) < rank(j)) /\ ~(rank(j) < rank(i))
      BY <3>1
    <3> QED BY <1>3, <3>1, <3>2
  <2> HIDE DEF F
  <2> QED BY <2>1, <2>2 DEF Injection, IsInjective
<1>5. IsFiniteSet(0..(n - 1)) /\ Cardinality(0..(n - 1)) = n
  BY <1>1, FS_Interval
<1>6. F \in Surjection(T, 0..(n - 1))
  BY <1>1, <1>4, <1>5, FS_Injection
<1>7. \A k \in 0..(n - 1) : \E i \in T : rank(i) = k
  <2>1. \A k \in 0..(n - 1) : \E i \in T : F[i] = k
    <3> HIDE DEF F
    <3> QED BY <1>6 DEF Surjection
  <2> QED BY <2>1
<1> QED BY <1>2, <1>3, <1>7 DEF T, n, rank

\* LogOf puts every entry at its rank
LEMMA LogPlaces ==
  ASSUME NEW f \in Seq(Cell)
  PROVE  /\ LogOf(f) \in Seq(Entry) /\ Len(LogOf(f)) = Count(f)
         /\ \A i \in Starts(f) : LogOf(f)[Cardinality(Before(f, i)) + 1] = f[i].e
<1> DEFINE n == Count(f)
           place(k) == CHOOSE i \in Starts(f) : Cardinality(Before(f, i)) = k - 1
<1>1. n \in Nat /\ Starts(f) \in SUBSET Nat /\ \A i \in Starts(f) : f[i].e \in Entry
  BY StartsType
<1>2. ASSUME NEW k \in 1..n
      PROVE  place(k) \in Starts(f) /\ Cardinality(Before(f, place(k))) = k - 1
  <2>1. k - 1 \in 0..(n - 1)
    BY <1>1
  <2>2. \E i \in Starts(f) : Cardinality(Before(f, i)) = k - 1
    BY <2>1, StartRanks
  <2> QED BY <2>2
<1>3. LogOf(f) = [k \in 1..n |-> f[place(k)].e]
  BY Zenon DEF LogOf
<1>4. ASSUME NEW i \in Starts(f)
      PROVE  /\ Cardinality(Before(f, i)) + 1 \in 1..n
             /\ place(Cardinality(Before(f, i)) + 1) = i
  <2> DEFINE k == Cardinality(Before(f, i)) + 1
  <2>1. Cardinality(Before(f, i)) \in 0..(n - 1)
    BY StartRanks
  <2>2. k \in 1..n /\ k - 1 = Cardinality(Before(f, i))
    BY <1>1, <2>1
  <2>3. place(k) \in Starts(f) /\ Cardinality(Before(f, place(k))) = Cardinality(Before(f, i))
    BY <1>2, <2>2
  <2> HIDE DEF place, k
  <2>4. ~(place(k) < i) /\ ~(i < place(k))
    <3>1. Cardinality(Before(f, i)) \in Nat
      BY <2>1
    <3> QED BY <2>3, <3>1, StartRanks
  <2>5. place(k) = i
    BY <1>1, <2>3, <2>4
  <2> QED BY <2>2, <2>5 DEF k
<1> HIDE DEF place, n
<1>5. LogOf(f) \in Seq(Entry) /\ Len(LogOf(f)) = n
  <2>1. \A k \in 1..n : f[place(k)].e \in Entry
    BY <1>1, <1>2
  <2> QED BY <1>1, <1>3, <2>1
<1>6. ASSUME NEW i \in Starts(f)
      PROVE  LogOf(f)[Cardinality(Before(f, i)) + 1] = f[i].e
  <2> DEFINE k == Cardinality(Before(f, i)) + 1
  <2>1. k \in 1..n /\ place(k) = i
    BY <1>4
  <2> HIDE DEF k
  <2>2. LogOf(f)[k] = f[i].e
    BY <1>3, <2>1
  <2> QED BY <2>2 DEF k
<1> QED BY <1>5, <1>6 DEF n

\* what Ledger.verify accepts, it has read as a chain
LEMMA LogChain ==
  ASSUME NEW f \in Seq(Cell), LinksHold(f)
  PROVE  IsChain(LogOf(f))
<1> DEFINE n == Count(f)
           s == LogOf(f)
           rank(i) == Cardinality(Before(f, i))
<1>1. n \in Nat /\ Starts(f) \in SUBSET Nat /\ IsFiniteSet(Starts(f))
  BY StartsType
<1>2. s \in Seq(Entry) /\ Len(s) = n /\ \A i \in Starts(f) : s[rank(i) + 1] = f[i].e
  BY LogPlaces
<1> SUFFICES ASSUME NEW k \in 1..n
             PROVE  /\ s[k].idx = k - 1
                    /\ s[k].prev = IF k = 1 THEN GENESIS ELSE SelfHash(s[k-1])
  BY <1>2 DEF IsChain
<1>3. PICK i \in Starts(f) : rank(i) = k - 1
  <2>1. k - 1 \in 0..(n - 1)
    BY <1>1
  <2> QED BY <2>1, StartRanks
<1>4. s[k] = f[i].e
  <2>1. rank(i) + 1 = k
    BY <1>1, <1>3
  <2> HIDE DEF s, rank
  <2> QED BY <1>2, <2>1
<1>5. /\ f[i].e.idx = rank(i)
      /\ f[i].e.prev = IF Before(f, i) = {} THEN GENESIS
                       ELSE SelfHash(f[Greatest(Before(f, i))].e)
  BY DEF LinksHold
<1>6. Before(f, i) \in SUBSET Starts(f) /\ IsFiniteSet(Before(f, i))
  <2>1. Before(f, i) \in SUBSET Starts(f)
    BY DEF Before
  <2> QED BY <1>1, <2>1, FS_Subset
<1>7. CASE k = 1
  <2>1. Before(f, i) = {}
    BY <1>3, <1>6, <1>7, FS_EmptySet
  <2> QED BY <1>3, <1>4, <1>5, <1>7, <2>1
<1>8. CASE k # 1
  <2> DEFINE g == Greatest(Before(f, i))
  <2>1. Before(f, i) # {}
    <3>1. rank(i) # 0
      BY <1>1, <1>3, <1>8
    <3> QED BY <3>1, FS_EmptySet
  <2>2. g \in Before(f, i) /\ \A j \in Before(f, i) : j <= g
    <3>1. i \in Nat /\ Before(f, i) \in SUBSET Nat /\ \A j \in Before(f, i) : j <= i
      BY <1>1, <1>6 DEF Before
    <3> QED BY <2>1, <3>1, GreatestOf
  <2> HIDE DEF g
  <2>3. Before(f, i) = Before(f, g) \cup {g} /\ g \in Starts(f) /\ g \notin Before(f, g)
    BY <1>1, <2>2 DEF Before
  <2>4. IsFiniteSet(Before(f, g))
    BY <1>6, <2>3, FS_Subset
  <2>5. rank(i) = rank(g) + 1 /\ rank(g) \in Nat
    BY <2>3, <2>4, FS_AddElement, FS_CardinalityType
  <2>6. rank(g) + 1 = k - 1
    BY <1>3, <2>5
  <2>7. s[k - 1] = f[g].e
    <3> HIDE DEF s, rank
    <3> QED BY <1>2, <2>3, <2>6
  <2> HIDE DEF s
  <2> QED BY <1>3, <1>4, <1>5, <1>8, <2>1, <2>7 DEF g
<1> QED BY <1>7, <1>8

-----------------------------------------------------------------------------
(* The ledger of module Ledger.                                            *)

\* where flock may be missing, at most one process appends without it
Serialised == FALSE \in Flock => \A p, q \in AllowUnlocked : p = q

-----------------------------------------------------------------------------
(* The inductive invariant.                                                *)

\* inside the part of append that the lock protects
Inside == {"locked", "found", "write", "sync", "undo", "tip"}

LockHeld ==
  \A p \in Writers :
    pc[p] \in Inside => IF flock THEN lock = p ELSE p \in AllowUnlocked

\* both copies of the file are the start of a chain, cut anywhere
FileOK == Chained(file) /\ Chained(disk)

\* a promised entry is closed in the file, and on the medium up to its end
PromisedOK ==
  \A e \in promised :
    /\ 3*e.idx + 2 <= Len(file) /\ 3*e.idx + 2 <= Len(disk)
    /\ file[3*e.idx + 1] = Open(e)
    /\ \A i \in 1..(3*e.idx + 2) : disk[i] = file[i]

\* a tip names a promised entry and the file's first one
Vouched(t) ==
  t.n > 0 => /\ \E e \in promised : e.idx + 1 = t.n /\ SelfHash(e) = t.last
             /\ t.first = SelfHash(file[1].e)

TipOK == Vouched(tip) /\ Vouched(tipDisk)

\* g ends with the line of e, and the first entry of g has hash h
EndsWith(g, e, h) ==
  /\ Chained(g)
  /\ Len(g) = 3*e.idx + 3
  /\ g[3*e.idx + 1] = Open(e)
  /\ h = SelfHash(g[1].e)

\* what a call inside the protected part has found and left to do
Going(p) ==
  /\ pc[p] \in {"found", "write"} => EndsWith(file \o rest[p], entry[p], first[p])
  /\ pc[p] = "sync" => EndsWith(file, entry[p], first[p])
  /\ pc[p] = "tip" => entry[p] \in promised /\ first[p] = SelfHash(file[1].e)
  /\ pc[p] \in {"found", "write", "sync", "tip"} => tip.n <= entry[p].idx
  /\ pc[p] \in {"write", "sync", "undo"} =>
       /\ end[p] <= Len(file)
       /\ \A e \in promised : 3*e.idx + 2 <= end[p]

GoingOK == \A p \in Writers : Going(p)

IInv == TypeOK /\ LockHeld /\ FileOK /\ PromisedOK /\ TipOK /\ GoingOK

-----------------------------------------------------------------------------
(* Types.                                                                  *)

\* what _tail_state returns has its type
LEMMA TailType ==
  ASSUME NEW f \in Seq(Cell), Chained(f)
  PROVE  /\ Count(f) \in Nat /\ LastHash(f) \in Digest
         /\ Count(f) > 0 => FirstHash(f) \in Digest
<1>1. PICK n : Closed(f, n)
  BY ClosedExists
<1>2. n \in Nat /\ Len(f) \in Nat /\ Len(f) <= 3*n + 1 /\ 3*n - 1 <= Len(f) /\ Count(f) = n
  <2>1. Count(f) = n
    BY <1>1, ChainedTail
  <2>2. n \in Nat /\ Len(f) <= 3*n + 1 /\ 3*n - 1 <= Len(f)
    BY <1>1 DEF Closed
  <2> QED BY <2>1, <2>2
<1>3. CASE n = 0
  <2>1. LastHash(f) = GENESIS
    BY <1>1, <1>3, ChainedTail
  <2>2. GENESIS \in Digest
    BY DEF GENESIS, Digest
  <2> QED BY <1>2, <1>3, <2>1, <2>2
<1>4. CASE n > 0
  <2>1. LastHash(f) = SelfHash(f[3*n - 2].e) /\ FirstHash(f) = SelfHash(f[1].e)
    BY <1>1, <1>4, ChainedTail
  <2>2. f[3*n - 2].e \in Entry
    <3>1. n - 1 \in Nat /\ 3*(n - 1) + 1 = 3*n - 2 /\ 3*n - 2 <= Len(f)
      BY <1>2, <1>4
    <3>2. EntryCells(f, n - 1)
      BY <3>1 DEF Chained
    <3> QED BY <3>1, <3>2 DEF EntryCells
  <2>3. f[1].e \in Entry
    <3>1. EntryCells(f, 0) /\ 3*0 + 1 = 1 /\ 1 <= Len(f)
      BY <1>2, <1>4 DEF Chained
    <3> QED BY <3>1 DEF EntryCells
  <2> QED BY <1>2, <2>1, <2>2, <2>3, HashType
<1> QED BY <1>2, <1>3, <1>4

\* a call that returns changes its own variables only, within their sets
LEMMA ReturnType ==
  ASSUME NEW p \in Writers, NEW a \in Answers, TypeOK, Return(p, a)
  PROVE  /\ pc' \in [Writers -> Steps] /\ answer' \in [Writers -> Answers]
         /\ rest' \in [Writers -> Seq(Cell)] /\ end' \in [Writers -> Nat]
         /\ first' \in [Writers -> Digest] /\ lock' \in Writers \cup {NONE}
         /\ pc' = [pc EXCEPT ![p] = "idle"]
<1>1. "idle" \in Steps /\ <<>> \in Seq(Cell) /\ GENESIS \in Digest
  BY DEF Steps, GENESIS, Digest
<1> QED BY <1>1 DEF Return, Goto, Release, TypeOK

LEMMA InitType == Init => TypeOK
<1> SUFFICES ASSUME Init PROVE TypeOK
  OBVIOUS
<1>1. GENESIS \in Digest /\ <<>> \in Seq(Cell) /\ "idle" \in Steps /\ "none" \in Answers
  BY DEF GENESIS, Digest, Steps, Answers
<1>2. NoTip \in Tip
  BY <1>1 DEF NoTip, Tip
<1>3. \A d \in Data : Unplaced(d) \in Entry
  BY <1>1 DEF Unplaced, Entry
<1>4. (CHOOSE d \in Data : TRUE) \in Data
  BY LedgerConstants
<1> QED BY <1>1, <1>2, <1>3, <1>4 DEF Init, TypeOK

LEMMA SubSeqType ==
  ASSUME NEW f \in Seq(Cell), NEW k \in 0..Len(f)
  PROVE  SubSeq(f, 1, k) \in Seq(Cell)
  OBVIOUS

LEMMA TruncatedType ==
  ASSUME NEW f \in Seq(Cell), NEW n \in Nat
  PROVE  Truncated(f, n) \in Seq(Cell)
<1>1. \A i \in 1..n : i <= Len(f) => f[i] \in Cell
  OBVIOUS
<1>2. NUL \in Cell
  BY DEF Cell
<1> QED BY <1>1, <1>2 DEF Truncated

\* a power cut leaves the start of the file or of its synced copy
LEMMA SurvivorsPrefix ==
  ASSUME NEW d, NEW f, NEW g \in Survivors(d, f)
  PROVE  \E h \in {d, f} : \E k \in 0..Len(h) :
           /\ g = SubSeq(h, 1, k)
           /\ \A j \in 1..Len(d) : Agree(d, f, j) => j <= k
  BY DEF Survivors

\* every step keeps the types
LEMMA TypeStep == TypeOK /\ FileOK /\ [Next]_vars => TypeOK'
<1> SUFFICES ASSUME TypeOK, FileOK, [Next]_vars PROVE TypeOK'
  OBVIOUS
<1> USE DEF TypeOK
<1>0. \A a \in Steps : pc \in [Writers -> Steps] => \A p : [pc EXCEPT ![p] = a] \in [Writers -> Steps]
  OBVIOUS
<1>1. ASSUME NEW p \in Writers, NEW d \in Data, Call(p, d) PROVE TypeOK'
  <2>1. Unplaced(d) \in Entry
    BY DEF Unplaced, Entry, Digest, GENESIS
  <2> QED BY <1>1, <2>1 DEF Call, Goto, Steps, Answers, fileVars
<1>2. ASSUME NEW p \in Writers, LockFile(p) PROVE TypeOK'
  BY <1>2 DEF LockFile, Goto, Steps
<1>3. ASSUME NEW p \in Writers, NoFlock(p) PROVE TypeOK'
  <2>1. CASE Return(p, "no_lock")
    BY <1>3, <2>1, ReturnType DEF NoFlock, Answers
  <2>2. CASE ~Return(p, "no_lock")
    BY <1>3, <2>2 DEF NoFlock, Goto, Steps
  <2> QED BY <2>1, <2>2
<1>4. ASSUME NEW p \in Writers, ReadTail(p) PROVE TypeOK'
  <2>0. UNCHANGED <<flock, file, disk, tip, tipDisk, promised, used>>
    BY <1>4 DEF ReadTail
  <2>1. CASE UNCHANGED entry /\ (Return(p, "not_continuable") \/ Return(p, "refused"))
    BY <2>0, <2>1, ReturnType DEF Answers
  <2>2. CASE Place(p, Placed(entry[p].data))
    <3> DEFINE e == Placed(entry[p].data)
    <3>1. e \in Entry
      <4>1. entry[p].data \in Data
        BY DEF Entry
      <4> QED BY <4>1, TailType DEF FileOK, Placed, Entry
    <3>2. e.idx > 0 => FirstHash(file) \in Digest
      BY TailType DEF FileOK, Placed
    <3>3. SelfHash(e) \in Digest
      BY <3>1, HashType
    <3>4. (IF Unterminated(file) THEN <<NL>> ELSE <<>>) \o Line(e) \in Seq(Cell)
      BY <3>1, LineAdded
    <3>5. entry' \in [Writers -> Entry]
      BY <2>2, <3>1 DEF Place
    <3>6. first' \in [Writers -> Digest]
      BY <2>2, <3>2, <3>3 DEF Place
    <3>7. rest' \in [Writers -> Seq(Cell)]
      BY <2>2, <3>4 DEF Place
    <3>8. pc' \in [Writers -> Steps] /\ UNCHANGED <<lock, answer, end>>
      BY <2>2 DEF Place, Goto, Steps
    <3> QED BY <2>0, <3>5, <3>6, <3>7, <3>8
  <2> QED BY <1>4, <2>1, <2>2 DEF ReadTail
<1>5. ASSUME NEW p \in Writers, SeekEnd(p) PROVE TypeOK'
  BY <1>5 DEF SeekEnd, Goto, Steps, fileVars
<1>6. ASSUME NEW p \in Writers, Write(p) PROVE TypeOK'
  <2>1. PICK k \in 1..Len(rest[p]) :
          /\ file' = file \o SubSeq(rest[p], 1, k)
          /\ rest' = [rest EXCEPT ![p] = SubSeq(@, k + 1, Len(@))]
          /\ Goto(p, IF k = Len(rest[p]) THEN "sync" ELSE "write")
    BY <1>6 DEF Write
  <2>2. rest[p] \in Seq(Cell) /\ file \in Seq(Cell)
    OBVIOUS
  <2>3. file' \in Seq(Cell) /\ SubSeq(rest[p], k + 1, Len(rest[p])) \in Seq(Cell)
    BY <2>1, <2>2, PartWritten
  <2>4. rest' \in [Writers -> Seq(Cell)]
    BY <2>1, <2>3
  <2>5. pc' \in [Writers -> Steps]
    BY <2>1 DEF Goto, Steps
  <2> QED BY <1>6, <2>3, <2>4, <2>5 DEF Write
<1>7. ASSUME NEW p \in Writers, WriteFails(p) PROVE TypeOK'
  BY <1>7 DEF WriteFails, Goto, Steps, fileVars
<1>8. ASSUME NEW p \in Writers, Sync(p) PROVE TypeOK'
  <2>0. /\ disk' = file /\ promised' = promised \cup {entry[p]}
        /\ UNCHANGED <<flock, file, tip, tipDisk, entry, used>>
    BY <1>8 DEF Sync
  <2>1. CASE Return(p, "recorded")
    <3>1. promised' \subseteq Entry /\ disk' \in Seq(Cell)
      BY <2>0
    <3> QED BY <2>0, <2>1, <3>1, ReturnType DEF Answers
  <2>2. CASE Goto(p, "tip") /\ UNCHANGED <<lock, answer, first, rest, end>>
    BY <2>0, <2>2 DEF Goto, Steps
  <2> QED BY <1>8, <2>1, <2>2 DEF Sync, AfterSync
<1>9. ASSUME NEW p \in Writers, SyncFails(p) PROVE TypeOK'
  BY <1>9 DEF SyncFails, Goto, Steps
<1>10. ASSUME NEW p \in Writers, Undo(p) PROVE TypeOK'
  <2> DEFINE back == Truncated(file, end[p])
  <2>1. back \in Seq(Cell)
    BY TruncatedType
  <2> HIDE DEF back
  <2>2. /\ file' \in {file, back} /\ disk' \in {disk, file, back}
        /\ Return(p, "not_recorded") \/ Return(p, "maybe_part")
        /\ UNCHANGED <<flock, tip, tipDisk, entry, promised, used>>
    BY <1>10 DEF Undo, back
  <2> QED BY <2>1, <2>2, ReturnType DEF Answers
<1>11. ASSUME NEW p \in Writers, WriteTip(p) PROVE TypeOK'
  <2>1. [n |-> entry[p].idx + 1, first |-> first[p], last |-> SelfHash(entry[p])] \in Tip
    BY HashType DEF Tip, Entry
  <2> QED BY <1>11, <2>1, ReturnType DEF WriteTip, Answers
<1>12. ASSUME NEW p \in Writers, TipFails(p) PROVE TypeOK'
  BY <1>12, ReturnType DEF TipFails, Answers
<1>13. ASSUME NEW p \in Writers, Crash(p) PROVE TypeOK'
  BY <1>13, ReturnType DEF Crash, Answers
<1>14. ASSUME PowerLoss PROVE TypeOK'
  <2>1. \E h \in {disk, file} : \E k \in 0..Len(h) : file' = SubSeq(h, 1, k)
    <3>1. file' \in Survivors(disk, file)
      BY <1>14 DEF PowerLoss
    <3>2. \E h \in {disk, file} : \E k \in 0..Len(h) :
            /\ file' = SubSeq(h, 1, k)
            /\ \A j \in 1..Len(disk) : Agree(disk, file, j) => j <= k
      BY <3>1, SurvivorsPrefix
    <3> QED BY <3>2
  <2>2. file' \in Seq(Cell)
    BY <2>1, SubSeqType
  <2>3. <<>> \in Seq(Cell) /\ GENESIS \in Digest
    BY DEF GENESIS, Digest
  <2> QED BY <1>14, <2>2, <2>3 DEF PowerLoss, Steps
<1>15. ASSUME UNCHANGED vars PROVE TypeOK'
  BY <1>15 DEF vars, fileVars
<1> QED BY <1>1, <1>2, <1>3, <1>4, <1>5, <1>6, <1>7, <1>8, <1>9, <1>10, <1>11,
          <1>12, <1>13, <1>14, <1>15 DEF Next, Advance

-----------------------------------------------------------------------------
(* The lock.                                                               *)

\* serialised appends: two processes are never inside together
LEMMA Alone ==
  ASSUME Serialised, TypeOK, LockHeld, NEW p \in Writers, NEW q \in Writers,
         pc[p] \in Inside, pc[q] \in Inside
  PROVE  p = q
<1>1. CASE flock
  BY <1>1 DEF LockHeld
<1>2. CASE ~flock
  <2>1. FALSE \in Flock
    <3>1. flock \in Flock /\ Flock \subseteq BOOLEAN
      BY LedgerConstants DEF TypeOK
    <3>2. flock = FALSE
      BY <1>2, <3>1, Zenon
    <3> QED BY <3>1, <3>2
  <2>2. p \in AllowUnlocked /\ q \in AllowUnlocked
    BY <1>2 DEF LockHeld
  <2> QED BY <2>1, <2>2 DEF Serialised
<1> QED BY <1>1, <1>2

\* a process that returns takes the lock from nobody else
LEMMA ReturnLock ==
  ASSUME TypeOK, LockHeld, NEW p \in Writers, NEW a, Return(p, a), UNCHANGED flock
  PROVE  LockHeld'
<1>1. "idle" \notin Inside
  BY DEF Inside
<1>2. pc' = [pc EXCEPT ![p] = "idle"] /\ lock' = IF lock = p THEN NONE ELSE lock
  BY DEF Return, Goto, Release
<1>3. pc \in [Writers -> Steps]
  BY DEF TypeOK
<1>4. ASSUME NEW q \in Writers, pc'[q] \in Inside
      PROVE  IF flock' THEN lock' = q ELSE q \in AllowUnlocked
  <2>1. q # p /\ pc[q] \in Inside
    BY <1>1, <1>2, <1>3, <1>4
  <2> QED BY <1>2, <2>1 DEF LockHeld
<1> QED BY <1>4 DEF LockHeld

\* one that stays inside keeps it
LEMMA InsideLock ==
  ASSUME TypeOK, LockHeld, NEW p \in Writers, NEW l, Goto(p, l),
         pc[p] \in Inside \/ l \notin Inside, UNCHANGED <<flock, lock>>
  PROVE  LockHeld'
<1>1. pc \in [Writers -> Steps] /\ pc' = [pc EXCEPT ![p] = l]
  BY DEF TypeOK, Goto
<1>2. ASSUME NEW q \in Writers, pc'[q] \in Inside
      PROVE  IF flock' THEN lock' = q ELSE q \in AllowUnlocked
  <2>1. pc[q] \in Inside
    BY <1>1, <1>2
  <2> QED BY <2>1 DEF LockHeld
<1> QED BY <1>2 DEF LockHeld

\* every step leaves the lock with the process inside
LEMMA LockStep == TypeOK /\ LockHeld /\ [Next]_vars => LockHeld'
<1> SUFFICES ASSUME TypeOK, LockHeld, [Next]_vars PROVE LockHeld'
  OBVIOUS
<1>1. ASSUME NEW p \in Writers, NEW d \in Data, Call(p, d) PROVE LockHeld'
  BY <1>1, InsideLock DEF Call, Inside, fileVars
<1>2. ASSUME NEW p \in Writers, LockFile(p) PROVE LockHeld'
  <2>1. flock /\ lock = NONE /\ lock' = p /\ flock' = flock
        /\ pc' = [pc EXCEPT ![p] = "locked"] /\ pc \in [Writers -> Steps]
    BY <1>2 DEF LockFile, Goto, TypeOK
  <2>2. ASSUME NEW q \in Writers, q # p PROVE pc'[q] \notin Inside
    <3>1. pc'[q] = pc[q] /\ q # NONE
      BY <2>1, <2>2, LedgerConstants
    <3> QED BY <2>1, <3>1 DEF LockHeld
  <2> QED BY <2>1, <2>2 DEF LockHeld
<1>3. ASSUME NEW p \in Writers, NoFlock(p) PROVE LockHeld'
  <2>1. CASE p \in AllowUnlocked
    <3>1. ~flock /\ UNCHANGED <<flock, lock>> /\ pc' = [pc EXCEPT ![p] = "locked"]
          /\ pc \in [Writers -> Steps]
      BY <1>3, <2>1 DEF NoFlock, Goto, TypeOK
    <3>2. ASSUME NEW q \in Writers, q # p PROVE pc'[q] = pc[q]
      BY <3>1, <3>2
    <3> QED BY <2>1, <3>1, <3>2 DEF LockHeld
  <2>2. CASE p \notin AllowUnlocked
    BY <1>3, <2>2, ReturnLock DEF NoFlock
  <2> QED BY <2>1, <2>2
<1>4. ASSUME NEW p \in Writers, ReadTail(p) PROVE LockHeld'
  BY <1>4, ReturnLock, InsideLock DEF ReadTail, Place, Inside
<1>5. ASSUME NEW p \in Writers, SeekEnd(p) PROVE LockHeld'
  BY <1>5, InsideLock DEF SeekEnd, Inside, fileVars
<1>6. ASSUME NEW p \in Writers, Write(p) PROVE LockHeld'
  BY <1>6, InsideLock DEF Write, Inside
<1>7. ASSUME NEW p \in Writers, WriteFails(p) PROVE LockHeld'
  BY <1>7, InsideLock DEF WriteFails, Inside, fileVars
<1>8. ASSUME NEW p \in Writers, Sync(p) PROVE LockHeld'
  BY <1>8, ReturnLock, InsideLock DEF Sync, AfterSync, Inside
<1>9. ASSUME NEW p \in Writers, SyncFails(p) PROVE LockHeld'
  BY <1>9, InsideLock DEF SyncFails, Inside
<1>10. ASSUME NEW p \in Writers, Undo(p) PROVE LockHeld'
  BY <1>10, ReturnLock DEF Undo
<1>11. ASSUME NEW p \in Writers, WriteTip(p) PROVE LockHeld'
  BY <1>11, ReturnLock DEF WriteTip
<1>12. ASSUME NEW p \in Writers, TipFails(p) PROVE LockHeld'
  BY <1>12, ReturnLock DEF TipFails
<1>13. ASSUME NEW p \in Writers, Crash(p) PROVE LockHeld'
  BY <1>13, ReturnLock DEF Crash
<1>14. ASSUME PowerLoss PROVE LockHeld'
  BY <1>14 DEF PowerLoss, LockHeld, Inside
<1>15. ASSUME UNCHANGED vars PROVE LockHeld'
  BY <1>15 DEF vars, fileVars, LockHeld
<1> QED BY <1>1, <1>2, <1>3, <1>4, <1>5, <1>6, <1>7, <1>8, <1>9, <1>10, <1>11,
          <1>12, <1>13, <1>14, <1>15 DEF Next, Advance

-----------------------------------------------------------------------------
(* The file.                                                               *)

FilePart == FileOK /\ PromisedOK /\ TipOK

\* a step inside the protected part cannot disturb another call
LEMMA OthersOutside ==
  ASSUME Serialised, TypeOK, LockHeld, NEW p \in Writers, pc[p] \in Inside,
         NEW l, Goto(p, l), Going(p)'
  PROVE  GoingOK'
<1>1. pc \in [Writers -> Steps] /\ pc' = [pc EXCEPT ![p] = l]
  BY DEF TypeOK, Goto
<1>2. ASSUME NEW q \in Writers, q # p PROVE Going(q)'
  <2>1. pc'[q] \notin Inside
    BY <1>1, <1>2, Alone
  <2> QED BY <2>1 DEF Going, Inside
<1> QED BY <1>2 DEF GoingOK

\* a call that has returned owes nothing
LEMMA ReturnedGoing ==
  ASSUME Serialised, TypeOK, LockHeld, NEW p \in Writers, pc[p] \in Inside,
         NEW a, Return(p, a)
  PROVE  GoingOK'
<1>1. pc'[p] = "idle" /\ Goto(p, "idle")
  BY DEF TypeOK, Return, Goto
<1>2. Going(p)'
  BY <1>1 DEF Going
<1> QED BY <1>1, <1>2, OthersOutside DEF Inside

\* a step before the protected part leaves every call as it was
LEMMA OutsideGoing ==
  ASSUME TypeOK, GoingOK, NEW p \in Writers, NEW l, Goto(p, l),
         l \in {"idle", "opened", "locked"},
         UNCHANGED <<file, promised, tip>>,
         \A q \in Writers : q # p => /\ entry'[q] = entry[q] /\ first'[q] = first[q]
                                     /\ rest'[q] = rest[q] /\ end'[q] = end[q]
  PROVE  GoingOK'
<1>1. pc \in [Writers -> Steps] /\ pc' = [pc EXCEPT ![p] = l]
  BY DEF TypeOK, Goto
<1>2. ASSUME NEW q \in Writers PROVE Going(q)'
  <2>1. CASE q = p
    BY <1>1, <2>1 DEF Going
  <2>2. CASE q # p
    <3>1. pc'[q] = pc[q] /\ Going(q)
      BY <1>1, <2>2 DEF GoingOK
    <3> QED BY <2>2, <3>1 DEF Going, EndsWith
  <2> QED BY <2>1, <2>2
<1> QED BY <1>2 DEF GoingOK

\* neither the file nor what is promised of it changes
LEMMA FileUnchanged ==
  ASSUME FilePart, UNCHANGED <<file, disk, tip, tipDisk, promised>>
  PROVE  FilePart'
  BY DEF FilePart, FileOK, PromisedOK, TipOK, Vouched

\* the entry found continues the file, and the tip is behind it
LEMMA PlaceStep ==
  ASSUME Serialised, IInv, NEW p \in Writers, pc[p] = "locked", ~Unparsable(file),
         Place(p, Placed(entry[p].data)),
         UNCHANGED <<flock, file, disk, tip, tipDisk, promised, used>>
  PROVE  GoingOK'
<1> DEFINE e == Placed(entry[p].data)
           g == file \o rest'[p]
<1>0. TypeOK /\ LockHeld /\ FilePart /\ Chained(file)
  BY DEF IInv, FilePart, FileOK
<1>1. e \in Entry /\ e.idx = Count(file) /\ e.prev = LastHash(file)
  <2>1. entry[p].data \in Data /\ file \in Seq(Cell)
    BY <1>0 DEF TypeOK, Entry
  <2> QED BY <1>0, <2>1, TailType DEF Placed, Entry
<1>2. /\ entry'[p] = e /\ pc'[p] = "found" /\ Goto(p, "found")
      /\ first'[p] = IF e.idx > 0 THEN FirstHash(file) ELSE SelfHash(e)
      /\ rest'[p] = (IF Unterminated(file) THEN <<NL>> ELSE <<>>) \o Line(e)
  BY <1>0 DEF Place, TypeOK, Goto
<1>3. file \in Seq(Cell) /\ Len(file) \in Nat
  BY <1>0 DEF TypeOK
<1> HIDE DEF e
<1>4. /\ Chained(g) /\ Len(g) = 3*e.idx + 3 /\ g[3*e.idx + 1] = Open(e)
      /\ SelfHash(g[1].e) = IF e.idx > 0 THEN FirstHash(file) ELSE SelfHash(e)
      /\ Len(file) <= 3*e.idx
  <2> DEFINE r == (IF Unterminated(file) THEN <<NL>> ELSE <<>>) \o Line(e)
             h == file \o r
  <2>1. /\ Chained(h) /\ Len(h) = 3*e.idx + 3 /\ h[3*e.idx + 1] = Open(e)
        /\ SelfHash(h[1].e) = IF e.idx > 0 THEN FirstHash(file) ELSE SelfHash(e)
        /\ Len(file) <= 3*e.idx
    BY <1>0, <1>1, <1>3, ChainedGrows
  <2>2. g = h
    BY <1>2
  <2> HIDE DEF g, h
  <2> QED BY <2>1, <2>2
<1> HIDE DEF g
<1>5. EndsWith(g, entry'[p], first'[p])
  <2>1. first'[p] = SelfHash(g[1].e)
    BY <1>2, <1>4
  <2> QED BY <1>2, <1>4, <2>1 DEF EndsWith
<1>6. tip'.n <= entry'[p].idx
  <2>1. CASE tip.n > 0
    <3>1. PICK d \in promised : d.idx + 1 = tip.n
      BY <1>0, <2>1 DEF FilePart, TipOK, Vouched
    <3>2. 3*d.idx + 2 <= Len(file)
      BY <1>0 DEF FilePart, PromisedOK
    <3>3. d.idx \in Nat /\ e.idx \in Nat
      BY <1>0, <1>1 DEF TypeOK, Entry
    <3> QED BY <1>2, <1>3, <1>4, <3>1, <3>2, <3>3
  <2>2. CASE ~(tip.n > 0)
    <3>1. tip.n \in Nat /\ e.idx \in Nat
      BY <1>0, <1>1 DEF TypeOK, Tip, Entry
    <3> QED BY <1>2, <2>2, <3>1
  <2> QED BY <2>1, <2>2
<1>7. Going(p)'
  <2>1. file' \o rest'[p] = g
    BY DEF g
  <2>2. EndsWith(file' \o rest'[p], entry'[p], first'[p])
    BY <1>5, <2>1
  <2> QED BY <1>2, <1>6, <2>2 DEF Going
<1> QED BY <1>0, <1>2, <1>7, OthersOutside DEF Inside

\* what was promised ends before the place where the write starts
LEMMA SeekEndStep ==
  ASSUME Serialised, IInv, NEW p \in Writers, SeekEnd(p)
  PROVE  FilePart' /\ GoingOK'
<1>1. TypeOK /\ LockHeld /\ FilePart /\ Going(p)
  BY DEF IInv, FilePart, GoingOK
<1>2. /\ pc[p] = "found" /\ Goto(p, "write") /\ pc'[p] = "write"
      /\ UNCHANGED <<fileVars, entry, first, rest, promised>> /\ end'[p] = Len(file)
  BY <1>1 DEF SeekEnd, TypeOK, Goto
<1>3. Going(p)'
  <2>1. file' = file /\ promised' = promised /\ tip' = tip /\ entry' = entry
        /\ first' = first /\ rest' = rest
    BY <1>2 DEF fileVars
  <2>2. EndsWith(file \o rest[p], entry[p], first[p]) /\ tip.n <= entry[p].idx
    BY <1>1, <1>2 DEF Going
  <2>3. \A e \in promised : 3*e.idx + 2 <= Len(file)
    BY <1>1 DEF FilePart, PromisedOK
  <2>4. end'[p] <= Len(file')
    <3>1. Len(file) \in Nat
      BY <1>1 DEF TypeOK
    <3> QED BY <1>2, <2>1, <3>1
  <2>5. EndsWith(file' \o rest'[p], entry'[p], first'[p])
    BY <2>1, <2>2
  <2> QED BY <1>2, <2>1, <2>2, <2>3, <2>4, <2>5 DEF Going
<1>4. GoingOK'
  BY <1>1, <1>2, <1>3, OthersOutside DEF Inside
<1> QED BY <1>1, <1>2, <1>4, FileUnchanged DEF fileVars

\* a longer file with the same start holds what was promised and vouched for
LEMMA FileLonger ==
  ASSUME TypeOK, FilePart, file' \in Seq(Cell), Chained(file'), Len(file') >= Len(file),
         \A i \in 1..Len(file) : file'[i] = file[i],
         UNCHANGED <<disk, tip, tipDisk, promised>>
  PROVE  FilePart'
<1>1. Len(file) \in Nat /\ Len(file') \in Nat /\ \A e \in promised : e.idx \in Nat
  BY DEF TypeOK, Entry
<1>2. FileOK'
  BY DEF FilePart, FileOK
<1>3. PromisedOK'
  <2> SUFFICES ASSUME NEW e \in promised
               PROVE  /\ 3*e.idx + 2 <= Len(file') /\ 3*e.idx + 2 <= Len(disk)
                      /\ file'[3*e.idx + 1] = Open(e)
                      /\ \A i \in 1..(3*e.idx + 2) : disk[i] = file'[i]
    BY DEF PromisedOK
  <2>1. /\ 3*e.idx + 2 <= Len(file) /\ 3*e.idx + 2 <= Len(disk)
        /\ file[3*e.idx + 1] = Open(e)
        /\ \A i \in 1..(3*e.idx + 2) : disk[i] = file[i]
    BY DEF FilePart, PromisedOK
  <2>2. \A i \in 1..(3*e.idx + 2) : i \in 1..Len(file)
    BY <1>1, <2>1
  <2>3. 3*e.idx + 1 \in 1..(3*e.idx + 2)
    BY <1>1
  <2> QED BY <1>1, <2>1, <2>2, <2>3
<1>4. promised # {} => file'[1] = file[1]
  <2> SUFFICES ASSUME NEW e \in promised PROVE 1 \in 1..Len(file)
    OBVIOUS
  <2>1. 3*e.idx + 2 <= Len(file)
    BY DEF FilePart, PromisedOK
  <2> QED BY <1>1, <2>1
<1>5. TipOK'
  BY <1>4 DEF FilePart, TipOK, Vouched
<1> QED BY <1>2, <1>3, <1>5 DEF FilePart

\* any number of cells of the line may be written; together they are the line
LEMMA WriteStep ==
  ASSUME Serialised, IInv, NEW p \in Writers, Write(p)
  PROVE  FilePart' /\ GoingOK'
<1>1. TypeOK /\ LockHeld /\ FilePart /\ Going(p)
  BY DEF IInv, FilePart, GoingOK
<1>2. PICK k \in 1..Len(rest[p]) :
        /\ file' = file \o SubSeq(rest[p], 1, k)
        /\ rest' = [rest EXCEPT ![p] = SubSeq(@, k + 1, Len(@))]
        /\ Goto(p, IF k = Len(rest[p]) THEN "sync" ELSE "write")
  BY DEF Write
<1>3. /\ pc[p] = "write"
      /\ UNCHANGED <<disk, tip, tipDisk, entry, first, end, promised>>
  BY DEF Write
<1>4. file \in Seq(Cell) /\ rest[p] \in Seq(Cell) /\ Len(file) \in Nat /\ Len(rest[p]) \in Nat
  BY <1>1 DEF TypeOK
<1>5. rest'[p] = SubSeq(rest[p], k + 1, Len(rest[p]))
  BY <1>1, <1>2 DEF TypeOK
<1>6. /\ file' \in Seq(Cell) /\ rest'[p] \in Seq(Cell)
      /\ file' = SubSeq(file \o rest[p], 1, Len(file) + k)
      /\ file' \o rest'[p] = file \o rest[p]
      /\ Len(file') = Len(file) + k
      /\ \A i \in 1..Len(file) : file'[i] = file[i]
  <2> DEFINE g == file \o SubSeq(rest[p], 1, k)
             r == SubSeq(rest[p], k + 1, Len(rest[p]))
  <2>1. /\ g \in Seq(Cell) /\ r \in Seq(Cell)
        /\ g = SubSeq(file \o rest[p], 1, Len(file) + k)
        /\ g \o r = file \o rest[p]
        /\ Len(g) = Len(file) + k
        /\ \A i \in 1..Len(file) : g[i] = file[i]
    BY <1>4, PartWritten
  <2>2. file' = g /\ rest'[p] = r
    BY <1>2, <1>5
  <2> HIDE DEF g, r
  <2> QED BY <2>1, <2>2
<1>7. EndsWith(file \o rest[p], entry[p], first[p]) /\ tip.n <= entry[p].idx
      /\ end[p] <= Len(file) /\ \A e \in promised : 3*e.idx + 2 <= end[p]
  BY <1>1, <1>3 DEF Going
<1>8. Chained(file')
  <2>1. file \o rest[p] \in Seq(Cell) /\ Len(file \o rest[p]) = Len(file) + Len(rest[p])
    BY <1>4, Joined
  <2>2. Len(file) + k \in 0..Len(file \o rest[p])
    BY <1>4, <2>1
  <2> QED BY <1>6, <1>7, <2>1, <2>2, ChainedPrefix DEF EndsWith
<1>9. FilePart'
  BY <1>1, <1>3, <1>4, <1>6, <1>8, FileLonger
<1>10. Len(file) <= Len(file') /\ end'[p] <= Len(file')
  <2>1. end[p] \in Nat
    BY <1>1 DEF TypeOK
  <2> QED BY <1>3, <1>4, <1>6, <1>7, <2>1
<1>11. EndsWith(file' \o rest'[p], entry'[p], first'[p])
  BY <1>3, <1>6, <1>7
<1>12. CASE k = Len(rest[p])
  <2>1. pc'[p] = "sync" /\ Goto(p, "sync")
    BY <1>1, <1>2, <1>12 DEF Goto, TypeOK
  <2>2. file' = file \o rest[p]
    <3>1. SubSeq(rest[p], 1, k) = rest[p]
      BY <1>4, <1>12
    <3> QED BY <1>2, <3>1
  <2>3. EndsWith(file', entry'[p], first'[p])
    BY <1>3, <1>7, <2>2
  <2>4. Going(p)'
    BY <1>3, <1>7, <1>10, <2>1, <2>3 DEF Going
  <2> QED BY <1>1, <1>3, <1>9, <2>1, <2>4, OthersOutside DEF Inside
<1>13. CASE k # Len(rest[p])
  <2>1. pc'[p] = "write" /\ Goto(p, "write")
    BY <1>1, <1>2, <1>13 DEF Goto, TypeOK
  <2>2. Going(p)'
    BY <1>3, <1>7, <1>10, <1>11, <2>1 DEF Going
  <2> QED BY <1>1, <1>3, <1>9, <2>1, <2>2, OthersOutside DEF Inside
<1> QED BY <1>12, <1>13

LEMMA WriteFailsStep ==
  ASSUME Serialised, IInv, NEW p \in Writers, WriteFails(p)
  PROVE  FilePart' /\ GoingOK'
<1>1. TypeOK /\ LockHeld /\ FilePart /\ Going(p)
  BY DEF IInv, FilePart, GoingOK
<1>2. /\ pc[p] = "write" /\ Goto(p, "undo") /\ pc'[p] = "undo"
      /\ UNCHANGED <<file, disk, tip, tipDisk, promised, end>>
  BY <1>1 DEF WriteFails, TypeOK, Goto, fileVars
<1>3. Going(p)'
  BY <1>1, <1>2 DEF Going
<1> QED BY <1>1, <1>2, <1>3, OthersOutside, FileUnchanged DEF Inside

\* once synced, the entry is promised and the same on both sides
LEMMA SyncStep ==
  ASSUME Serialised, IInv, NEW p \in Writers, Sync(p)
  PROVE  FilePart' /\ GoingOK'
<1>1. TypeOK /\ LockHeld /\ FilePart /\ Going(p)
  BY DEF IInv, FilePart, GoingOK
<1>2. /\ pc[p] = "sync" /\ disk' = file /\ promised' = promised \cup {entry[p]}
      /\ UNCHANGED <<file, tip, tipDisk, entry>>
  BY DEF Sync
<1>3. /\ Chained(file) /\ Len(file) = 3*entry[p].idx + 3
      /\ file[3*entry[p].idx + 1] = Open(entry[p]) /\ first[p] = SelfHash(file[1].e)
      /\ tip.n <= entry[p].idx
  BY <1>1, <1>2 DEF Going, EndsWith
<1>4. entry[p].idx \in Nat /\ Len(file) \in Nat
  BY <1>1 DEF TypeOK, Entry
<1>5. FileOK'
  BY <1>2, <1>3 DEF FileOK
<1>6. PromisedOK'
  <2> SUFFICES ASSUME NEW e \in promised'
               PROVE  /\ 3*e.idx + 2 <= Len(file) /\ file[3*e.idx + 1] = Open(e)
    BY <1>2 DEF PromisedOK
  <2>1. CASE e = entry[p]
    BY <1>3, <1>4, <2>1
  <2>2. CASE e \in promised
    BY <1>1, <2>2 DEF FilePart, PromisedOK
  <2> QED BY <1>2, <2>1, <2>2
<1>7. TipOK'
  BY <1>1, <1>2 DEF FilePart, TipOK, Vouched
<1>8. CASE Return(p, "recorded")
  BY <1>1, <1>2, <1>5, <1>6, <1>7, <1>8, ReturnedGoing DEF FilePart, Inside
<1>9. CASE Goto(p, "tip") /\ UNCHANGED first
  <2>1. pc'[p] = "tip"
    BY <1>1, <1>9 DEF Goto, TypeOK
  <2>2. Going(p)'
    BY <1>2, <1>3, <1>9, <2>1 DEF Going
  <2> QED BY <1>1, <1>2, <1>5, <1>6, <1>7, <1>9, <2>2, OthersOutside DEF FilePart, Inside
<1> QED BY <1>8, <1>9 DEF Sync, AfterSync

\* g has every promised entry, in the cells where the file has it
Keeps(g) ==
  /\ g \in Seq(Cell) /\ Chained(g)
  /\ \A e \in promised : /\ 3*e.idx + 2 <= Len(g)
                         /\ \A j \in 1..(3*e.idx + 2) : g[j] = file[j]

LEMMA BothKeep ==
  ASSUME TypeOK, FilePart
  PROVE  Keeps(file) /\ Keeps(disk)
  BY DEF TypeOK, FilePart, FileOK, PromisedOK, Keeps

\* what keeps the promised entries still does when cut after them
LEMMA CutKeeps ==
  ASSUME TypeOK, NEW h, Keeps(h), NEW k \in 0..Len(h),
         \A e \in promised : 3*e.idx + 2 <= k
  PROVE  Keeps(SubSeq(h, 1, k))
<1> DEFINE g == SubSeq(h, 1, k)
<1>1. h \in Seq(Cell) /\ Chained(h)
  BY DEF Keeps
<1>2. g \in Seq(Cell) /\ Chained(g)
  BY <1>1, ChainedPrefix
<1>3. Len(g) = k /\ \A j \in 1..k : g[j] = h[j]
  BY <1>1
<1> HIDE DEF g
<1>4. ASSUME NEW e \in promised
      PROVE  3*e.idx + 2 <= Len(g) /\ \A j \in 1..(3*e.idx + 2) : g[j] = file[j]
  <2>1. \A j \in 1..(3*e.idx + 2) : h[j] = file[j]
    BY DEF Keeps
  <2>2. e.idx \in Nat /\ k \in Nat /\ 3*e.idx + 2 <= k
    BY <1>1 DEF TypeOK, Entry
  <2>3. \A j \in 1..(3*e.idx + 2) : j \in 1..k
    BY <2>2
  <2> QED BY <1>3, <2>1, <2>2, <2>3
<1>5. Keeps(g)
  BY <1>2, <1>4 DEF Keeps
<1> QED BY <1>5 DEF g

\* two files that keep the promised entries, and one of the two tips
LEMMA FileKept ==
  ASSUME TypeOK, FilePart, Keeps(file'), Keeps(disk'), promised' = promised,
         tip' \in {tip, tipDisk}, tipDisk' \in {tip, tipDisk}
  PROVE  FilePart'
<1>1. FileOK'
  BY DEF Keeps, FileOK
<1>2. \A e \in promised : e.idx \in Nat
  BY DEF TypeOK, Entry
<1>3. PromisedOK'
  <2> SUFFICES ASSUME NEW e \in promised
               PROVE  /\ 3*e.idx + 2 <= Len(file') /\ 3*e.idx + 2 <= Len(disk')
                      /\ file'[3*e.idx + 1] = Open(e)
                      /\ \A i \in 1..(3*e.idx + 2) : disk'[i] = file'[i]
    BY DEF PromisedOK
  <2>1. file[3*e.idx + 1] = Open(e)
    BY DEF FilePart, PromisedOK
  <2>2. /\ 3*e.idx + 2 <= Len(file') /\ 3*e.idx + 2 <= Len(disk')
        /\ \A i \in 1..(3*e.idx + 2) : file'[i] = file[i] /\ disk'[i] = file[i]
    BY DEF Keeps
  <2>3. 3*e.idx + 1 \in 1..(3*e.idx + 2)
    BY <1>2
  <2> QED BY <2>1, <2>2, <2>3
<1>4. promised # {} => file'[1] = file[1]
  <2> SUFFICES ASSUME NEW e \in promised PROVE file'[1] = file[1]
    OBVIOUS
  <2>1. \A i \in 1..(3*e.idx + 2) : file'[i] = file[i]
    BY DEF Keeps
  <2>2. 1 \in 1..(3*e.idx + 2)
    BY <1>2
  <2> QED BY <2>1, <2>2
<1>5. TipOK'
  BY <1>4 DEF FilePart, TipOK, Vouched
<1> QED BY <1>1, <1>3, <1>5 DEF FilePart

LEMMA SyncFailsStep ==
  ASSUME Serialised, IInv, NEW p \in Writers, SyncFails(p)
  PROVE  FilePart' /\ GoingOK'
<1>1. TypeOK /\ LockHeld /\ FilePart /\ Going(p)
  BY DEF IInv, FilePart, GoingOK
<1>2. /\ pc[p] = "sync" /\ disk' \in {disk, file} /\ Goto(p, "undo") /\ pc'[p] = "undo"
      /\ UNCHANGED <<file, tip, tipDisk, end, promised>>
  BY <1>1 DEF SyncFails, TypeOK, Goto
<1>3. Keeps(file') /\ Keeps(disk')
  BY <1>1, <1>2, BothKeep
<1>4. FilePart'
  BY <1>1, <1>2, <1>3, FileKept
<1>5. Going(p)'
  BY <1>1, <1>2 DEF Going
<1> QED BY <1>1, <1>2, <1>4, <1>5, OthersOutside DEF Inside

\* the rollback cuts the file after everything promised
LEMMA UndoStep ==
  ASSUME Serialised, IInv, NEW p \in Writers, Undo(p)
  PROVE  FilePart' /\ GoingOK'
<1> DEFINE back == Truncated(file, end[p])
<1>1. TypeOK /\ LockHeld /\ FilePart /\ Going(p)
  BY DEF IInv, FilePart, GoingOK
<1>2. pc[p] = "undo" /\ end[p] <= Len(file) /\ \A e \in promised : 3*e.idx + 2 <= end[p]
  BY <1>1 DEF Undo, Going
<1>3. end[p] \in 0..Len(file) /\ file \in Seq(Cell)
  <2>1. end[p] \in Nat /\ Len(file) \in Nat /\ file \in Seq(Cell)
    BY <1>1 DEF TypeOK
  <2> QED BY <1>2, <2>1
<1>4. back = SubSeq(file, 1, end[p])
  BY <1>3 DEF Truncated
<1>5. Keeps(file) /\ Keeps(disk) /\ Keeps(back)
  BY <1>1, <1>2, <1>3, <1>4, BothKeep, CutKeeps
<1> HIDE DEF back
<1>6. /\ file' \in {file, back} /\ disk' \in {disk, file, back}
      /\ UNCHANGED <<tip, tipDisk, promised>>
      /\ Return(p, "not_recorded") \/ Return(p, "maybe_part")
  BY DEF Undo, back
<1>7. FilePart'
  BY <1>1, <1>5, <1>6, FileKept
<1>8. GoingOK'
  BY <1>1, <1>2, <1>6, ReturnedGoing DEF Inside
<1> QED BY <1>7, <1>8

\* the tip written names the entry just promised
LEMMA WriteTipStep ==
  ASSUME Serialised, IInv, NEW p \in Writers, WriteTip(p)
  PROVE  FilePart' /\ GoingOK'
<1>1. TypeOK /\ LockHeld /\ FilePart /\ Going(p)
  BY DEF IInv, FilePart, GoingOK
<1>2. /\ pc[p] = "tip" /\ Return(p, "recorded") /\ UNCHANGED <<file, disk, promised>>
      /\ tip' = [n |-> entry[p].idx + 1, first |-> first[p], last |-> SelfHash(entry[p])]
      /\ tipDisk' \in {tipDisk, tip}
  BY DEF WriteTip
<1>3. entry[p] \in promised /\ first[p] = SelfHash(file[1].e)
  BY <1>1, <1>2 DEF Going
<1>4. TipOK'
  BY <1>1, <1>2, <1>3 DEF FilePart, TipOK, Vouched
<1>5. FilePart'
  BY <1>1, <1>2, <1>4 DEF FilePart, FileOK, PromisedOK
<1>6. GoingOK'
  BY <1>1, <1>2, ReturnedGoing DEF Inside
<1> QED BY <1>5, <1>6

\* a power cut leaves all that both copies have
LEMMA PowerLossStep ==
  ASSUME IInv, PowerLoss
  PROVE  FilePart' /\ GoingOK'
<1>1. TypeOK /\ FilePart
  BY DEF IInv, FilePart
<1>2. file' \in Survivors(disk, file)
  BY DEF PowerLoss
<1>h. PICK h \in {disk, file} : \E k \in 0..Len(h) :
        /\ file' = SubSeq(h, 1, k)
        /\ \A j \in 1..Len(disk) : Agree(disk, file, j) => j <= k
  BY <1>2, SurvivorsPrefix
<1>3. PICK k \in 0..Len(h) :
        /\ file' = SubSeq(h, 1, k)
        /\ \A j \in 1..Len(disk) : Agree(disk, file, j) => j <= k
  BY <1>h
<1>4. ASSUME NEW e \in promised PROVE 3*e.idx + 2 <= k
  <2> DEFINE j == 3*e.idx + 2
  <2>1. /\ j <= Len(file) /\ j <= Len(disk) /\ \A i \in 1..j : disk[i] = file[i]
    BY <1>1 DEF FilePart, PromisedOK
  <2>2. disk \in Seq(Cell) /\ file \in Seq(Cell) /\ e.idx \in Nat
    BY <1>1 DEF TypeOK, Entry
  <2>3. j \in 1..Len(disk) /\ j \in Nat
    BY <2>1, <2>2
  <2> HIDE DEF j
  <2>4. SubSeq(disk, 1, j) = SubSeq(file, 1, j)
    BY <2>1, <2>2, <2>3
  <2>5. j <= k
    BY <1>3, <2>1, <2>3, <2>4 DEF Agree
  <2> QED BY <2>5 DEF j
<1>5. Keeps(file')
  BY <1>1, <1>3, <1>4, BothKeep, CutKeeps
<1>6. disk' = file' /\ promised' = promised /\ tip' \in {tip, tipDisk} /\ tipDisk' = tip'
  BY DEF PowerLoss
<1>7. FilePart'
  BY <1>1, <1>5, <1>6, FileKept
<1>8. \A q \in Writers : pc'[q] = "idle"
  BY DEF PowerLoss
<1>9. GoingOK'
  BY <1>8 DEF GoingOK, Going
<1> QED BY <1>7, <1>9

-----------------------------------------------------------------------------
(* The invariant, and what follows from it.                                *)

LEMMA InitInvariant == Init => IInv
<1> SUFFICES ASSUME Init PROVE IInv
  OBVIOUS
<1>1. TypeOK
  BY InitType
<1>2. /\ file = <<>> /\ disk = <<>> /\ promised = {} /\ tip.n = 0 /\ tipDisk.n = 0
      /\ \A p \in Writers : pc[p] = "idle"
  BY DEF Init, NoTip
<1>3. LockHeld
  BY <1>2 DEF LockHeld, Inside
<1>4. Chained(<<>>)
  <2>1. Len(<<>>) = 0
    OBVIOUS
  <2> QED BY <2>1 DEF Chained, EntryCells
<1>5. FileOK /\ PromisedOK
  BY <1>2, <1>4 DEF FileOK, PromisedOK
<1>6. TipOK
  BY <1>2 DEF TipOK, Vouched
<1>7. GoingOK
  BY <1>2 DEF GoingOK, Going
<1> QED BY <1>1, <1>3, <1>5, <1>6, <1>7 DEF IInv

\* every step of every process, and of the environment, keeps it
LEMMA NextInvariant ==
  ASSUME Serialised, IInv, [Next]_vars
  PROVE  IInv'
<1>1. TypeOK /\ LockHeld /\ FilePart /\ GoingOK
  BY DEF IInv, FilePart
<1>2. TypeOK' /\ LockHeld'
  BY <1>1, TypeStep, LockStep DEF FilePart
<1>3. FilePart' /\ GoingOK'
  <2>1. ASSUME NEW p \in Writers, NEW d \in Data, Call(p, d) PROVE FilePart' /\ GoingOK'
    <3>1. /\ Goto(p, "opened") /\ entry' = [entry EXCEPT ![p] = Unplaced(d)]
          /\ UNCHANGED <<file, disk, tip, tipDisk, first, rest, end, promised>>
      BY <2>1 DEF Call, fileVars
    <3>2. \A q \in Writers : q # p => entry'[q] = entry[q]
      BY <1>1, <3>1 DEF TypeOK
    <3> QED BY <1>1, <3>1, <3>2, FileUnchanged, OutsideGoing
  <2>2. ASSUME NEW p \in Writers, LockFile(p) PROVE FilePart' /\ GoingOK'
    BY <1>1, <2>2, FileUnchanged, OutsideGoing DEF LockFile
  <2>3. ASSUME NEW p \in Writers, NEW l, NEW a, Return(p, a),
               UNCHANGED <<file, disk, tip, tipDisk, entry, promised>>
        PROVE  FilePart' /\ GoingOK'
    <3>1. /\ Goto(p, "idle")
          /\ \A q \in Writers : q # p => /\ entry'[q] = entry[q] /\ first'[q] = first[q]
                                         /\ rest'[q] = rest[q] /\ end'[q] = end[q]
      BY <1>1, <2>3 DEF Return, TypeOK
    <3> QED BY <1>1, <2>3, <3>1, FileUnchanged, OutsideGoing
  <2>4. ASSUME NEW p \in Writers, NoFlock(p) PROVE FilePart' /\ GoingOK'
    <3>1. UNCHANGED <<flock, file, disk, tip, tipDisk, entry, promised>>
      BY <2>4 DEF NoFlock
    <3>2. CASE p \in AllowUnlocked
      <4>1. Goto(p, "locked") /\ UNCHANGED <<rest, end, first>>
        BY <2>4, <3>2 DEF NoFlock
      <4> QED BY <1>1, <3>1, <4>1, FileUnchanged, OutsideGoing
    <3>3. CASE p \notin AllowUnlocked
      BY <2>3, <2>4, <3>1, <3>3 DEF NoFlock
    <3> QED BY <3>2, <3>3
  <2>5. ASSUME NEW p \in Writers, ReadTail(p) PROVE FilePart' /\ GoingOK'
    <3>1. UNCHANGED <<flock, file, disk, tip, tipDisk, promised, used>> /\ pc[p] = "locked"
      BY <2>5 DEF ReadTail
    <3>2. CASE UNCHANGED entry /\ (Return(p, "not_continuable") \/ Return(p, "refused"))
      BY <2>3, <3>1, <3>2
    <3>3. CASE ~Unparsable(file) /\ Place(p, Placed(entry[p].data))
      BY <1>1, <3>1, <3>3, FileUnchanged, PlaceStep
    <3> QED BY <2>5, <3>2, <3>3 DEF ReadTail
  <2>6. ASSUME NEW p \in Writers, TipFails(p) \/ Crash(p) PROVE FilePart' /\ GoingOK'
    BY <2>3, <2>6 DEF TipFails, Crash
  <2>7. ASSUME UNCHANGED vars PROVE FilePart' /\ GoingOK'
    <3>1. UNCHANGED <<file, disk, tip, tipDisk, promised, pc, entry, first, rest, end>>
      BY <2>7 DEF vars, fileVars
    <3>2. GoingOK'
      BY <1>1, <3>1 DEF GoingOK, Going, EndsWith
    <3> QED BY <1>1, <3>1, <3>2, FileUnchanged
  <2> QED BY <2>1, <2>2, <2>4, <2>5, <2>6, <2>7, SeekEndStep, WriteStep, WriteFailsStep,
             SyncStep, SyncFailsStep, UndoStep, WriteTipStep, PowerLossStep
          DEF Next, Advance
<1> QED BY <1>2, <1>3 DEF IInv, FilePart

LEMMA Invariant ==
  ASSUME Serialised
  PROVE  Spec => []IInv
<1>1. Serialised
  OBVIOUS
<1>2. IInv /\ [Next]_vars => IInv'
  BY <1>1, NextInvariant
<1> QED BY <1>2, InitInvariant, PTL DEF Spec

(* Ledger.append keeps every variable in its set, whatever fails.          *)
THEOREM TypesKept ==
  ASSUME Serialised
  PROVE  Spec => []TypeOK
<1>1. IInv => TypeOK
  BY DEF IInv
<1> QED BY <1>1, Invariant, PTL

(* Any number of processes that append under the lock, killed or failing   *)
(* anywhere, and power cuts leave a chain whose every link holds.          *)
THEOREM ChainNeverBroken ==
  ASSUME Serialised
  PROVE  Spec => []ChainIntact
<1>1. IInv => ChainIntact
  <2> SUFFICES ASSUME IInv PROVE ChainIntact
    OBVIOUS
  <2>1. file \in Seq(Cell) /\ Chained(file)
    BY DEF IInv, TypeOK, FileOK
  <2> QED BY <2>1, ChainedLinks DEF ChainIntact
<1> QED BY <1>1, Invariant, PTL

(* A line that does not parse is the last cell of the file, so cutting the *)
(* end repairs any ledger that append refuses to continue.                 *)
THEOREM TornLineIsLast ==
  ASSUME Serialised
  PROVE  Spec => []TornLast
<1>1. IInv => TornLast
  <2> SUFFICES ASSUME IInv PROVE TornLast
    OBVIOUS
  <2>1. file \in Seq(Cell) /\ Chained(file)
    BY DEF IInv, TypeOK, FileOK
  <2> QED BY <2>1, ChainedTorn DEF TornLast
<1> QED BY <1>1, Invariant, PTL

(* An entry whose fsync has returned is never lost, neither to the         *)
(* rollback of another append nor to a power cut.                          *)
THEOREM PromisesKept ==
  ASSUME Serialised
  PROVE  Spec => []PromisedKept
<1>1. IInv => PromisedKept
  <2> SUFFICES ASSUME IInv, NEW e \in promised PROVE Holds(file, e)
    BY DEF PromisedKept
  <2>1. file \in Seq(Cell) /\ Chained(file) /\ e.idx \in Nat
    BY DEF IInv, TypeOK, FileOK, Entry
  <2>2. 3*e.idx + 2 <= Len(file) /\ file[3*e.idx + 1] = Open(e)
    BY DEF IInv, PromisedOK
  <2>3. 3*e.idx + 1 \in Starts(file)
    BY <2>1, <2>2, ChainedLinks
  <2>4. file[3*e.idx + 1].e = e
    BY <2>2, CellParts
  <2> QED BY <2>3, <2>4 DEF Holds
<1> QED BY <1>1, Invariant, PTL

(* The signed tip always names the first entry and a promised one, at the  *)
(* place the tip counts: no tip vouches for a record that can be lost.     *)
THEOREM TipsTrue ==
  ASSUME Serialised
  PROVE  Spec => []TipNamesPrefix
<1>1. IInv => TipNamesPrefix
  <2> SUFFICES ASSUME IInv, tip.n > 0
               PROVE  \E i, j \in Starts(file) :
                        /\ Before(file, i) = {} /\ SelfHash(file[i].e) = tip.first
                        /\ Cardinality(Before(file, j)) = tip.n - 1
                        /\ SelfHash(file[j].e) = tip.last
    BY DEF TipNamesPrefix
  <2>1. PICK e \in promised : e.idx + 1 = tip.n /\ SelfHash(e) = tip.last
    BY DEF IInv, TipOK, Vouched
  <2>2. tip.first = SelfHash(file[1].e)
    BY DEF IInv, TipOK, Vouched
  <2>3. file \in Seq(Cell) /\ Chained(file) /\ e.idx \in Nat /\ Len(file) \in Nat
    BY DEF IInv, TypeOK, FileOK, Entry
  <2>4. 3*e.idx + 2 <= Len(file) /\ file[3*e.idx + 1] = Open(e)
    BY DEF IInv, PromisedOK
  <2>5. 3*e.idx + 1 \in Starts(file) /\ Cardinality(Before(file, 3*e.idx + 1)) = e.idx
    BY <2>3, <2>4, ChainedLinks
  <2>6. 1 \in Starts(file) /\ Before(file, 1) = {}
    <3>1. 3*0 + 2 <= Len(file) /\ 3*0 + 1 = 1
      BY <2>3, <2>4
    <3> QED BY <2>3, <3>1, ChainedLinks
  <2>7. file[3*e.idx + 1].e = e
    BY <2>4, CellParts
  <2>8. e.idx = tip.n - 1
    BY <2>1, <2>3
  <2> QED BY <2>1, <2>2, <2>5, <2>6, <2>7, <2>8
<1> QED BY <1>1, Invariant, PTL

(* Tips are written in the order of the entries they name: a tip is only   *)
(* replaced by one that counts more, or set back by a power cut.           *)
THEOREM TipsInOrder ==
  ASSUME Serialised
  PROVE  Spec => TipForward
<1>1. IInv /\ [Next]_vars => [tip' # tip => tip'.n > tip.n \/ PowerLoss]_vars
  <2> SUFFICES ASSUME IInv, [Next]_vars, tip' # tip, ~PowerLoss PROVE tip'.n > tip.n
    OBVIOUS
  <2>1. PICK p \in Writers : WriteTip(p)
    BY DEF Next, Advance, Call, LockFile, NoFlock, ReadTail, SeekEnd, Write, WriteFails,
           Sync, SyncFails, Undo, TipFails, Crash, vars, fileVars
  <2>2. pc[p] = "tip" /\ tip'.n = entry[p].idx + 1
    BY <2>1 DEF WriteTip
  <2>3. tip.n <= entry[p].idx
    BY <2>2 DEF IInv, GoingOK, Going
  <2>4. tip.n \in Nat /\ entry[p].idx \in Nat
    BY DEF IInv, TypeOK, Tip, Entry
  <2> QED BY <2>2, <2>3, <2>4
<1> QED BY <1>1, Invariant, PTL DEF Spec, TipForward

-----------------------------------------------------------------------------
(* The abstract log.                                                       *)

\* what is promised of a ledger is at the start of its log
KeptPart ==
  /\ Kept \in Nat
  /\ \A e \in promised : e.idx + 1 <= Kept
  /\ Kept > 0 => \E e \in promised : e.idx + 1 = Kept
  /\ 3*Kept - 1 <= Len(file)
  /\ LogOf(file) \in Seq(Entry) /\ IsChain(LogOf(file))
  /\ Kept <= Len(LogOf(file))

LEMMA KeptIs == IInv => KeptPart
<1> SUFFICES ASSUME IInv PROVE KeptPart
  OBVIOUS
<1>1. /\ file \in Seq(Cell) /\ Len(file) \in Nat /\ Chained(file)
      /\ \A e \in promised : e.idx \in Nat /\ 3*e.idx + 2 <= Len(file)
  BY DEF IInv, TypeOK, FileOK, PromisedOK, Entry
<1>2. /\ Kept \in Nat
      /\ \A e \in promised : e.idx + 1 <= Kept
      /\ Kept > 0 => \E e \in promised : e.idx + 1 = Kept
  <2>1. CASE promised = {}
    BY <2>1 DEF Kept
  <2>2. CASE promised # {}
    <3> DEFINE T == {e.idx : e \in promised}
    <3>1. T \in SUBSET Nat /\ T # {} /\ \A k \in T : k <= Len(file)
      BY <1>1, <2>2
    <3>2. Greatest(T) \in T /\ \A k \in T : k <= Greatest(T)
      <4> HIDE DEF T
      <4> QED BY <1>1, <3>1, GreatestOf
    <3>3. Kept = 1 + Greatest(T)
      BY <2>2 DEF Kept
    <3>4. PICK e \in promised : Greatest(T) = e.idx
      BY <3>2
    <3>5. \A d \in promised : d.idx \in T
      OBVIOUS
    <3> HIDE DEF T
    <3> QED BY <1>1, <3>2, <3>3, <3>4, <3>5
  <2> QED BY <2>1, <2>2
<1>3. 3*Kept - 1 <= Len(file)
  <2>1. CASE Kept > 0
    BY <1>1, <1>2, <2>1
  <2>2. CASE ~(Kept > 0)
    BY <1>1, <1>2, <2>2
  <2> QED BY <2>1, <2>2
<1>4. PICK n : Closed(file, n)
  BY <1>1, ClosedExists
<1>5. LogOf(file) \in Seq(Entry) /\ Len(LogOf(file)) = n /\ IsChain(LogOf(file))
  BY <1>1, <1>4, ChainedLog
<1>6. Kept <= n
  <2>1. n \in Nat /\ Len(file) <= 3*n + 1
    BY <1>4 DEF Closed
  <2> QED BY <1>1, <1>2, <1>3, <2>1
<1> QED BY <1>2, <1>3, <1>5, <1>6 DEF KeptPart

\* only an fsync promises, and it leaves the file alone
LEMMA PromisedStep ==
  ASSUME [Next]_vars
  PROVE  promised' = promised \/ (promised \subseteq promised' /\ file' = file)
<1>1. ASSUME NEW p \in Writers, Sync(p) PROVE promised \subseteq promised' /\ file' = file
  BY <1>1 DEF Sync
<1> QED BY <1>1 DEF Next, Advance, Call, LockFile, NoFlock, ReadTail, SeekEnd, Write,
             WriteFails, SyncFails, Undo, WriteTip, TipFails, Crash, PowerLoss, vars, fileVars

\* two states of the ledger agree on what is promised in both: the hash of a
\* promised entry fixes every entry before it
LEMMA PromisedSame ==
  ASSUME IInv, IInv', NEW e \in promised, e \in promised'
  PROVE  \A i \in 1..(3*e.idx + 2) : file'[i] = file[i]
<1>1. file \in Seq(Cell) /\ Chained(file) /\ e.idx \in Nat
  BY DEF IInv, TypeOK, FileOK, Entry
<1>2. file' \in Seq(Cell) /\ Chained(file')
  BY DEF IInv, TypeOK, FileOK
<1>3. 3*e.idx + 2 <= Len(file) /\ file[3*e.idx + 1] = Open(e)
  BY DEF IInv, PromisedOK
<1>4. 3*e.idx + 2 <= Len(file') /\ file'[3*e.idx + 1] = Open(e)
  BY DEF IInv, PromisedOK
<1> QED BY <1>1, <1>2, <1>3, <1>4, SameChain

\* every step of the ledger is one of the log, or none
LEMMA LogStep ==
  ASSUME IInv, IInv', [Next]_vars
  PROVE  [Log!Next]_<<LogOf(file), Kept>>
<1>1. KeptPart /\ KeptPart'
  <2>1. IInv' => KeptPart'
    BY KeptIs, PTL
  <2> QED BY <2>1, KeptIs
<1>2. Kept \in Nat /\ Kept' \in Nat
  BY <1>1 DEF KeptPart
<1>3. CASE promised' = promised
  <2>1. Kept' = Kept
    BY <1>3 DEF Kept
  <2>2. /\ file \in Seq(Cell) /\ Chained(file) /\ file' \in Seq(Cell) /\ Chained(file')
    BY DEF IInv, TypeOK, FileOK
  <2>3. \A i \in 1..(3*Kept - 1) : file'[i] = file[i]
    <3> SUFFICES ASSUME NEW i \in 1..(3*Kept - 1) PROVE file'[i] = file[i]
      OBVIOUS
    <3>1. PICK e \in promised : e.idx + 1 = Kept
      BY <1>1, <1>2 DEF KeptPart
    <3>2. e.idx \in Nat
      BY DEF IInv, TypeOK, Entry
    <3>3. i \in 1..(3*e.idx + 2)
      BY <1>2, <3>1, <3>2
    <3> QED BY <1>3, <3>3, PromisedSame
  <2>4. SubSeq(LogOf(file'), 1, Kept) = SubSeq(LogOf(file), 1, Kept)
    BY <1>1, <2>1, <2>2, <2>3, CommonLog DEF KeptPart
  <2>5. LogOf(file)' = LogOf(file')
    OBVIOUS
  <2>6. Log!Revise
    <3>1. /\ LogOf(file)' \in Seq(Entry) /\ IsChain(LogOf(file)')
          /\ Kept <= Len(LogOf(file)')
      BY <1>1, <2>1 DEF KeptPart
    <3> QED BY <1>2, <2>1, <2>4, <2>5, <3>1
            DEF Log!Revise, Log!IsChain, IsChain, Log!SelfHash, SelfHash, Log!Entry, Entry,
                Log!Digest, Digest, Log!GENESIS, GENESIS
  <2> QED BY <2>6 DEF Log!Next
<1>4. CASE promised \subseteq promised' /\ file' = file
  <2>1. LogOf(file)' = LogOf(file)
    BY <1>4
  <2>2. Kept <= Kept'
    BY <1>1, <1>2, <1>4 DEF KeptPart
  <2>3. CASE Kept' = Kept
    BY <2>1, <2>3
  <2>4. CASE Kept' # Kept
    <3>1. Kept' \in (Kept + 1)..Len(LogOf(file))
      <4>1. Kept' <= Len(LogOf(file)) /\ Len(LogOf(file)) \in Nat
        BY <1>1, <2>1 DEF KeptPart
      <4> QED BY <1>1, <1>2, <2>1, <2>2, <2>4, <4>1
    <3>2. Log!Keep
      BY <2>1, <3>1 DEF Log!Keep
    <3> QED BY <3>2 DEF Log!Next
  <2> QED BY <2>3, <2>4
<1> QED BY <1>3, <1>4, PromisedStep

(* Ledger.append, under any interleaving, failure and power cut, is the    *)
(* abstract log: its file read line by line is always a chain, and what    *)
(* some append has answered for is a prefix that never changes.            *)
THEOREM LedgerIsLog ==
  ASSUME Serialised
  PROVE  Spec => ImplementsLog
<1>1. Init => Log!Init
  <2> SUFFICES ASSUME Init PROVE Log!Init
    OBVIOUS
  <2>1. file = <<>> /\ promised = {}
    BY DEF Init
  <2>2. IInv
    BY InitInvariant
  <2>3. Closed(file, 0)
    BY <2>1 DEF Closed
  <2>4. LogOf(file) \in Seq(Entry) /\ Len(LogOf(file)) = 0
    BY <2>2, <2>3, ChainedLog DEF IInv, TypeOK, FileOK
  <2>5. LogOf(file) = <<>>
    BY <2>4
  <2>6. Kept = 0
    BY <2>1 DEF Kept
  <2> QED BY <2>5, <2>6 DEF Log!Init
<1>2. IInv /\ IInv' /\ [Next]_vars => [Log!Next]_<<LogOf(file), Kept>>
  BY LogStep
<1> QED BY <1>1, <1>2, Invariant, PTL DEF Spec, ImplementsLog, Log!Spec

-----------------------------------------------------------------------------
(* Whose record a file shows.                                              *)

\* the records of which some piece is in f
Shown(f) == {f[i].e.data : i \in {i \in 1..Len(f) : f[i].part \in {"open", "close"}}}

LEMMA ShownPrefix ==
  ASSUME NEW f \in Seq(Cell), NEW k \in 0..Len(f)
  PROVE  Shown(SubSeq(f, 1, k)) \subseteq Shown(f)
<1> DEFINE g == SubSeq(f, 1, k)
<1>1. Len(g) = k /\ \A i \in 1..k : i \in 1..Len(f) /\ g[i] = f[i]
  OBVIOUS
<1> HIDE DEF g
<1>2. Shown(g) \subseteq Shown(f)
  BY <1>1 DEF Shown
<1> QED BY <1>2 DEF g

LEMMA ShownRest ==
  ASSUME NEW f \in Seq(Cell), NEW k \in 1..Len(f)
  PROVE  /\ Shown(SubSeq(f, k + 1, Len(f))) \subseteq Shown(f)
         /\ Shown(SubSeq(f, 1, k)) \subseteq Shown(f)
<1> DEFINE g == SubSeq(f, k + 1, Len(f))
<1>1. Len(f) \in Nat /\ k \in Nat /\ k <= Len(f) /\ k \in 0..Len(f)
  OBVIOUS
<1>2. Len(g) = Len(f) - k /\ \A i \in 1..(Len(f) - k) : k + i \in 1..Len(f) /\ g[i] = f[k + i]
  BY <1>1
<1> HIDE DEF g
<1>3. Shown(g) \subseteq Shown(f)
  BY <1>1, <1>2 DEF Shown
<1> QED BY <1>1, <1>3, ShownPrefix DEF g

LEMMA ShownBoth ==
  ASSUME NEW a \in Seq(Cell), NEW b \in Seq(Cell)
  PROVE  Shown(a \o b) \subseteq Shown(a) \cup Shown(b)
<1> DEFINE c == a \o b
<1>0. Len(a) \in Nat /\ Len(b) \in Nat
  OBVIOUS
<1>1. /\ Len(c) = Len(a) + Len(b)
      /\ \A i \in 1..Len(a) : c[i] = a[i]
      /\ \A i \in 1..Len(b) : c[Len(a) + i] = b[i]
  BY Joined
<1> HIDE DEF c
<1>2. ASSUME NEW i \in 1..Len(c), c[i].part \in {"open", "close"}
      PROVE  c[i].e.data \in Shown(a) \cup Shown(b)
  <2>1. CASE i <= Len(a)
    <3>1. i \in 1..Len(a) /\ c[i] = a[i]
      BY <1>0, <1>1, <2>1
    <3> QED BY <1>2, <3>1 DEF Shown
  <2>2. CASE i > Len(a)
    <3>1. i - Len(a) \in 1..Len(b) /\ Len(a) + (i - Len(a)) = i
      BY <1>0, <1>1, <2>2
    <3>2. c[i] = b[i - Len(a)]
      BY <1>1, <3>1
    <3> QED BY <1>2, <3>1, <3>2 DEF Shown
  <2> QED BY <1>0, <1>1, <2>1, <2>2
<1>3. Shown(c) \subseteq Shown(a) \cup Shown(b)
  BY <1>2 DEF Shown
<1> QED BY <1>3 DEF c

LEMMA ShownLine ==
  ASSUME NEW f \in Seq(Cell), NEW e \in Entry
  PROVE  Shown((IF Unterminated(f) THEN <<NL>> ELSE <<>>) \o Line(e)) \subseteq {e.data}
<1>1. Open(e) \in Cell /\ Close(e) \in Cell /\ NL \in Cell
  BY DEF Open, Close, Cell
<1>2. Line(e) \in Seq(Cell) /\ Len(Line(e)) = 3 /\ \A i \in 1..3 : Line(e)[i] \in {Open(e), Close(e), NL}
  BY <1>1 DEF Line
<1>3. Open(e).e = e /\ Close(e).e = e /\ NL.part \notin {"open", "close"}
  BY DEF Open, Close, NL
<1>4. Shown(Line(e)) \subseteq {e.data}
  BY <1>2, <1>3 DEF Shown
<1>5. Shown(<<NL>>) = {} /\ Shown(<<>>) = {} /\ <<NL>> \in Seq(Cell) /\ <<>> \in Seq(Cell)
  BY <1>1, <1>3 DEF Shown
<1> QED BY <1>2, <1>4, <1>5, ShownBoth

LEMMA ShownHolds ==
  ASSUME NEW f, NEW e, Holds(f, e)
  PROVE  e.data \in Shown(f)
<1>1. PICK i \in Starts(f) : f[i].e = e
  BY DEF Holds
<1>2. i \in 1..Len(f) /\ f[i].part = "open"
  BY DEF Starts, LineStarts, WholeAt
<1> QED BY <1>1, <1>2 DEF Shown

\* some call of p, running or answered, has entry[p] as its own
Mine(p) == pc[p] # "idle" \/ answer[p] # "none"

Unsynced == {"opened", "locked", "found", "write", "sync", "undo"}
Failed == {"not_recorded", "maybe_part", "not_continuable", "refused", "no_lock"}

\* what a call knows of its own entry: where it shows, and if it is promised
Own(p) ==
  /\ pc[p] # "idle" => answer[p] = "none"
  /\ answer[p] \in {"recorded", "tip_not_written"} => entry[p] \in promised
  /\ Mine(p) => entry[p].data \in used
  /\ pc[p] \in {"found", "write"} => Shown(rest[p]) \subseteq {entry[p].data}
  /\ pc[p] \in {"opened", "locked", "found"} \/ answer[p] = "not_recorded" =>
       entry[p].data \notin Shown(file) \cup Shown(disk)
  /\ pc[p] \in {"write", "sync", "undo"} =>
       entry[p].data \notin Shown(SubSeq(file, 1, end[p]))
  /\ pc[p] \in Unsynced \/ answer[p] \in Failed =>
       \A e \in promised : e.data # entry[p].data

\* no two calls have one record
Apart ==
  \A p, q \in Writers : p # q /\ Mine(p) /\ Mine(q) => entry[p].data # entry[q].data

\* nothing shows or is promised that was not given to append
Known == Shown(file) \cup Shown(disk) \cup {e.data : e \in promised} \subseteq used

AInv == (\A p \in Writers : Own(p)) /\ Apart /\ Known

\* a step of one call touches no record but its own
LEMMA OwnStep ==
  ASSUME IInv, AInv, NEW p \in Writers, pc[p] # "idle",
         \A q \in Writers : q # p =>
           /\ pc'[q] = pc[q] /\ entry'[q] = entry[q] /\ answer'[q] = answer[q]
           /\ rest'[q] = rest[q] /\ end'[q] = end[q],
         used' = used, promised \subseteq promised', promised' \subseteq promised \cup {entry[p]},
         Shown(file') \cup Shown(disk') \subseteq Shown(file) \cup Shown(disk) \cup {entry[p].data},
         \A q \in Writers : q # p /\ pc[q] \in {"write", "sync", "undo"} => file' = file,
         entry'[p].data = entry[p].data,
         Own(p)'
  PROVE  AInv'
<1>1. entry[p].data \in used /\ Mine(p)
  BY DEF AInv, Own, Mine
<1>2. ASSUME NEW q \in Writers, q # p PROVE Own(q)'
  <2>1. Own(q)
    BY DEF AInv
  <2>2. Mine(q)' <=> Mine(q)
    BY <1>2 DEF Mine
  <2>3. Mine(q) => entry[q].data # entry[p].data
    BY <1>1, <1>2 DEF AInv, Apart
  <2>4. pc[q] \in {"opened", "locked", "found"} \/ answer[q] = "not_recorded" =>
          entry'[q].data \notin Shown(file') \cup Shown(disk')
    BY <1>2, <2>1, <2>3 DEF Own, Mine
  <2>5. pc[q] \in {"write", "sync", "undo"} =>
          entry'[q].data \notin Shown(SubSeq(file', 1, end'[q]))
    BY <1>2, <2>1 DEF Own
  <2>6. pc[q] \in Unsynced \/ answer[q] \in Failed =>
          \A e \in promised' : e.data # entry'[q].data
    <3>1. pc[q] \in Unsynced \/ answer[q] \in Failed => Mine(q)
      BY DEF Mine, Unsynced, Failed
    <3> QED BY <1>2, <2>1, <2>3, <3>1 DEF Own
  <2> QED BY <1>2, <2>1, <2>2, <2>4, <2>5, <2>6 DEF Own
<1>3. Apart'
  <2> SUFFICES ASSUME NEW q \in Writers, NEW r \in Writers, q # r, Mine(q)', Mine(r)'
               PROVE  entry'[q].data # entry'[r].data
    BY DEF Apart
  <2>1. Mine(q) /\ Mine(r)
    BY <1>1 DEF Mine
  <2>2. entry'[q].data = entry[q].data /\ entry'[r].data = entry[r].data
    OBVIOUS
  <2> QED BY <2>1, <2>2 DEF AInv, Apart
<1>4. Known'
  BY <1>1 DEF AInv, Known
<1> QED BY <1>2, <1>3, <1>4 DEF AInv

\* a call that comes back with an answer that is true of its entry
LEMMA ReturnOwn ==
  ASSUME IInv, AInv, NEW p \in Writers, pc[p] # "idle", NEW a, Return(p, a),
         entry' = entry, used' = used,
         promised \subseteq promised', promised' \subseteq promised \cup {entry[p]},
         Shown(file') \cup Shown(disk') \subseteq Shown(file) \cup Shown(disk) \cup {entry[p].data},
         \A q \in Writers : q # p /\ pc[q] \in {"write", "sync", "undo"} => file' = file,
         a \in {"recorded", "tip_not_written"} => entry[p] \in promised',
         a = "not_recorded" => entry[p].data \notin Shown(file') \cup Shown(disk'),
         a \in Failed => \A e \in promised' : e.data # entry[p].data
  PROVE  AInv'
<1>1. /\ pc'[p] = "idle" /\ answer'[p] = a
      /\ \A q \in Writers : q # p =>
           /\ pc'[q] = pc[q] /\ answer'[q] = answer[q]
           /\ rest'[q] = rest[q] /\ end'[q] = end[q]
  BY DEF IInv, TypeOK, Return, Goto
<1>2. entry[p].data \in used
  BY DEF AInv, Own, Mine
<1>3. Own(p)'
  BY <1>1, <1>2 DEF Own, Unsynced
<1> QED BY <1>1, <1>3, OwnStep

\* one that goes on
LEMMA StayOwn ==
  ASSUME IInv, AInv, NEW p \in Writers, pc[p] # "idle", NEW l, Goto(p, l),
         answer' = answer, entry' = entry, used' = used, promised' = promised,
         rest' = rest, end' = end, file' = file, Shown(disk') \subseteq Shown(disk) \cup Shown(file),
         \/ l \in {"locked"} /\ pc[p] = "opened" /\ disk' = disk
         \/ l = "undo" /\ pc[p] \in {"write", "sync"}
  PROVE  AInv'
<1>1. pc'[p] = l /\ \A q \in Writers : q # p => pc'[q] = pc[q]
  BY DEF IInv, TypeOK, Goto
<1>2. Own(p)
  BY DEF AInv
<1>3. Own(p)'
  <2>1. CASE l = "locked" /\ pc[p] = "opened" /\ disk' = disk
    BY <1>1, <1>2, <2>1 DEF Own, Mine, Unsynced
  <2>2. CASE l = "undo" /\ pc[p] \in {"write", "sync"}
    BY <1>1, <1>2, <2>2 DEF Own, Mine, Unsynced
  <2> QED BY <2>1, <2>2
<1> QED BY <1>1, <1>3, OwnStep

\* a new call: its record is shown nowhere
LEMMA CallOwn ==
  ASSUME IInv, AInv, NEW p \in Writers, NEW d \in Data, Call(p, d)
  PROVE  AInv'
<1>1. /\ pc[p] = "idle" /\ d \notin used /\ used' = used \cup {d}
      /\ UNCHANGED <<file, disk, rest, end, promised>>
      /\ pc'[p] = "opened" /\ entry'[p].data = d /\ answer'[p] = "none"
      /\ \A q \in Writers : q # p =>
           pc'[q] = pc[q] /\ entry'[q] = entry[q] /\ answer'[q] = answer[q]
  BY DEF IInv, TypeOK, Call, Goto, Unplaced, fileVars
<1>2. d \notin Shown(file) \cup Shown(disk) /\ \A e \in promised : e.data # d
  BY <1>1 DEF AInv, Known
<1>3. Own(p)'
  BY <1>1, <1>2 DEF Own
<1>4. ASSUME NEW q \in Writers, q # p PROVE Own(q)' /\ (Mine(q)' <=> Mine(q))
  BY <1>1, <1>4 DEF AInv, Own, Mine
<1>5. \A q \in Writers : q # p /\ Mine(q) => entry[q].data # d
  BY <1>1 DEF AInv, Own
<1>6. Apart'
  <2> SUFFICES ASSUME NEW q \in Writers, NEW r \in Writers, q # r, Mine(q)', Mine(r)'
               PROVE  entry'[q].data # entry'[r].data
    BY DEF Apart
  <2>1. CASE q = p
    BY <1>1, <1>4, <1>5, <2>1
  <2>2. CASE r = p
    BY <1>1, <1>4, <1>5, <2>2
  <2>3. CASE q # p /\ r # p
    BY <1>1, <1>4, <2>3 DEF AInv, Apart
  <2> QED BY <2>1, <2>2, <2>3
<1>7. Known'
  BY <1>1 DEF AInv, Known
<1> QED BY <1>3, <1>4, <1>6, <1>7 DEF AInv

\* the line is made, or the record refused
LEMMA ReadTailOwn ==
  ASSUME IInv, AInv, NEW p \in Writers, ReadTail(p)
  PROVE  AInv'
<1>1. pc[p] = "locked" /\ UNCHANGED <<flock, file, disk, tip, tipDisk, promised, used>>
  BY DEF ReadTail
<1>2. Own(p)
  BY DEF AInv
<1>3. CASE UNCHANGED entry /\ (Return(p, "not_continuable") \/ Return(p, "refused"))
  <2>1. \A e \in promised : e.data # entry[p].data
    BY <1>1, <1>2 DEF Own, Unsynced
  <2> QED BY <1>1, <1>3, <2>1, ReturnOwn
<1>4. CASE Place(p, Placed(entry[p].data))
  <2> DEFINE e == Placed(entry[p].data)
  <2>1. e \in Entry /\ e.data = entry[p].data /\ file \in Seq(Cell)
    <3>1. entry[p].data \in Data /\ file \in Seq(Cell) /\ Chained(file)
      BY DEF IInv, TypeOK, FileOK, Entry
    <3> QED BY <3>1, TailType DEF Placed, Entry
  <2>2. /\ pc'[p] = "found" /\ entry'[p] = e /\ answer' = answer /\ end' = end
        /\ rest'[p] = (IF Unterminated(file) THEN <<NL>> ELSE <<>>) \o Line(e)
        /\ \A q \in Writers : q # p =>
             pc'[q] = pc[q] /\ entry'[q] = entry[q] /\ rest'[q] = rest[q]
    BY <1>4 DEF IInv, TypeOK, Place, Goto
  <2> HIDE DEF e
  <2>3. Shown(rest'[p]) \subseteq {entry'[p].data}
    BY <2>1, <2>2, ShownLine
  <2>4. Own(p)'
    BY <1>1, <1>2, <2>1, <2>2, <2>3 DEF Own, Mine, Unsynced
  <2> QED BY <1>1, <2>1, <2>2, <2>4, OwnStep
<1> QED BY <1>3, <1>4 DEF ReadTail

\* the record is not in the file before the place where the write starts
LEMMA SeekEndOwn ==
  ASSUME IInv, AInv, NEW p \in Writers, SeekEnd(p)
  PROVE  AInv'
<1>1. /\ pc[p] = "found" /\ UNCHANGED <<file, disk, entry, rest, answer, promised, used>>
      /\ pc'[p] = "write" /\ end'[p] = Len(file)
      /\ \A q \in Writers : q # p => pc'[q] = pc[q] /\ end'[q] = end[q]
  BY DEF IInv, TypeOK, SeekEnd, Goto, fileVars
<1>2. Own(p)
  BY DEF AInv
<1>3. SubSeq(file, 1, Len(file)) = file
  BY DEF IInv, TypeOK
<1>4. Own(p)'
  BY <1>1, <1>2, <1>3 DEF Own, Mine, Unsynced
<1> QED BY <1>1, <1>4, OwnStep

\* what is written shows the record written, after what was there
LEMMA WriteOwn ==
  ASSUME Serialised, IInv, AInv, NEW p \in Writers, Write(p)
  PROVE  AInv'
<1>1. PICK k \in 1..Len(rest[p]) :
        /\ file' = file \o SubSeq(rest[p], 1, k)
        /\ rest' = [rest EXCEPT ![p] = SubSeq(@, k + 1, Len(@))]
        /\ Goto(p, IF k = Len(rest[p]) THEN "sync" ELSE "write")
  BY DEF Write
<1>2. /\ pc[p] = "write" /\ UNCHANGED <<disk, entry, end, answer, promised, used>>
      /\ pc'[p] \in {"write", "sync"} /\ rest'[p] = SubSeq(rest[p], k + 1, Len(rest[p]))
      /\ \A q \in Writers : q # p => pc'[q] = pc[q] /\ rest'[q] = rest[q]
  BY <1>1 DEF IInv, TypeOK, Write, Goto
<1>3. /\ file \in Seq(Cell) /\ rest[p] \in Seq(Cell) /\ Own(p) /\ Going(p) /\ end[p] \in Nat
  BY DEF IInv, TypeOK, GoingOK, AInv
<1>4. /\ Shown(rest'[p]) \subseteq {entry[p].data}
      /\ Shown(SubSeq(rest[p], 1, k)) \subseteq {entry[p].data}
  <2>1. Shown(rest[p]) \subseteq {entry[p].data}
    BY <1>2, <1>3 DEF Own
  <2> QED BY <1>2, <1>3, <2>1, ShownRest
<1>5. Shown(file') \subseteq Shown(file) \cup {entry[p].data}
  <2>1. SubSeq(rest[p], 1, k) \in Seq(Cell)
    BY <1>3
  <2>2. Shown(file') \subseteq Shown(file) \cup Shown(SubSeq(rest[p], 1, k))
    BY <1>1, <1>3, <2>1, ShownBoth
  <2> QED BY <1>4, <2>2
<1>6. SubSeq(file', 1, end[p]) = SubSeq(file, 1, end[p])
  <2>1. end[p] <= Len(file) /\ Len(file) \in Nat
    BY <1>2, <1>3 DEF Going
  <2>2. /\ file' \in Seq(Cell) /\ Len(file') = Len(file) + k
        /\ \A i \in 1..Len(file) : file'[i] = file[i]
    BY <1>1, <1>3, PartWritten
  <2>3. end[p] <= Len(file')
    BY <1>3, <2>1, <2>2
  <2>4. \A i \in 1..end[p] : i \in 1..Len(file)
    BY <1>3, <2>1
  <2> QED BY <1>3, <2>1, <2>2, <2>3, <2>4
<1>7. Own(p)'
  BY <1>2, <1>3, <1>4, <1>6 DEF Own, Mine, Unsynced
<1>8. \A q \in Writers : q # p => pc[q] \notin {"write", "sync", "undo"}
  BY <1>2, Alone DEF IInv, Inside
<1> QED BY <1>2, <1>5, <1>7, <1>8, OwnStep

\* the entry is promised, and so it is what the answer says
LEMMA SyncOwn ==
  ASSUME IInv, AInv, NEW p \in Writers, Sync(p)
  PROVE  AInv'
<1>1. /\ pc[p] = "sync" /\ disk' = file /\ promised' = promised \cup {entry[p]}
      /\ UNCHANGED <<file, entry, used>>
  BY DEF Sync
<1>2. CASE Return(p, "recorded")
  <2>1. "recorded" \notin Failed
    BY DEF Failed
  <2> QED BY <1>1, <1>2, <2>1, ReturnOwn
<1>3. CASE Goto(p, "tip") /\ UNCHANGED <<lock, answer, first, rest, end>>
  <2>1. pc'[p] = "tip" /\ \A q \in Writers : q # p => pc'[q] = pc[q]
    BY <1>3 DEF IInv, TypeOK, Goto
  <2>2. Own(p)
    BY DEF AInv
  <2>3. Own(p)'
    BY <1>1, <1>3, <2>1, <2>2 DEF Own, Mine, Unsynced, Failed
  <2> QED BY <1>1, <1>3, <2>1, <2>3, OwnStep
<1> QED BY <1>2, <1>3 DEF Sync, AfterSync

\* a rollback that says so left nothing of the record on either side
LEMMA UndoOwn ==
  ASSUME Serialised, IInv, AInv, NEW p \in Writers, Undo(p)
  PROVE  AInv'
<1> DEFINE back == Truncated(file, end[p])
<1>1. /\ pc[p] = "undo" /\ UNCHANGED <<entry, promised, used>>
      /\ \/ file' = back /\ disk' = back /\ Return(p, "not_recorded")
         \/ /\ file' \in {file, back} /\ disk' \in {disk, file, back}
            /\ Return(p, "maybe_part")
  BY DEF Undo
<1>2. Own(p) /\ Going(p)
  BY DEF IInv, GoingOK, AInv
<1>3. end[p] \in 0..Len(file) /\ file \in Seq(Cell)
  <2>1. end[p] \in Nat /\ Len(file) \in Nat /\ file \in Seq(Cell) /\ end[p] <= Len(file)
    BY <1>1, <1>2 DEF IInv, TypeOK, Going
  <2> QED BY <2>1
<1>4. back = SubSeq(file, 1, end[p])
  BY <1>3 DEF Truncated
<1>5. Shown(back) \subseteq Shown(file) /\ entry[p].data \notin Shown(back)
  BY <1>1, <1>2, <1>3, <1>4, ShownPrefix DEF Own
<1>6. \A e \in promised : e.data # entry[p].data
  BY <1>1, <1>2 DEF Own, Unsynced
<1>7. \A q \in Writers : q # p => pc[q] \notin {"write", "sync", "undo"}
  BY <1>1, Alone DEF IInv, Inside
<1> HIDE DEF back
<1>8. CASE file' = back /\ disk' = back /\ Return(p, "not_recorded")
  BY <1>1, <1>5, <1>6, <1>7, <1>8, ReturnOwn
<1>9. CASE /\ file' \in {file, back} /\ disk' \in {disk, file, back}
           /\ Return(p, "maybe_part")
  BY <1>1, <1>5, <1>6, <1>7, <1>9, ReturnOwn
<1> QED BY <1>1, <1>8, <1>9

\* a power cut shows nothing new
LEMMA PowerLossOwn ==
  ASSUME IInv, AInv, PowerLoss
  PROVE  AInv'
<1>1. /\ file' \in Survivors(disk, file) /\ disk' = file'
      /\ UNCHANGED <<entry, answer, promised, used>>
      /\ \A p \in Writers : pc'[p] = "idle"
  BY DEF PowerLoss
<1>2. PICK h \in {disk, file} : \E k \in 0..Len(h) : file' = SubSeq(h, 1, k)
  <2>1. \E h \in {disk, file} : \E k \in 0..Len(h) :
          /\ file' = SubSeq(h, 1, k)
          /\ \A j \in 1..Len(disk) : Agree(disk, file, j) => j <= k
    BY <1>1, SurvivorsPrefix
  <2> QED BY <2>1
<1>3. Shown(file') \cup Shown(disk') \subseteq Shown(file) \cup Shown(disk)
  <2>1. h \in Seq(Cell)
    BY DEF IInv, TypeOK
  <2> QED BY <1>1, <1>2, <2>1, ShownPrefix
<1>4. ASSUME NEW p \in Writers PROVE Own(p)' /\ (Mine(p)' => Mine(p))
  BY <1>1, <1>3 DEF AInv, Own, Mine, Unsynced
<1>5. Apart' /\ Known'
  BY <1>1, <1>3, <1>4 DEF AInv, Apart, Known
<1> QED BY <1>4, <1>5 DEF AInv

LEMMA InitOwn == Init => AInv
<1> SUFFICES ASSUME Init PROVE AInv
  OBVIOUS
<1>1. /\ file = <<>> /\ disk = <<>> /\ promised = {}
      /\ \A p \in Writers : pc[p] = "idle" /\ answer[p] = "none"
  BY DEF Init
<1>2. Shown(<<>>) = {}
  BY DEF Shown
<1> QED BY <1>1, <1>2 DEF AInv, Own, Mine, Apart, Known, Unsynced, Failed

LEMMA NextOwn ==
  ASSUME Serialised, IInv, AInv, [Next]_vars
  PROVE  AInv'
<1>1. ASSUME NEW p \in Writers, LockFile(p) PROVE AInv'
  BY <1>1, StayOwn DEF LockFile
<1>2. ASSUME NEW p \in Writers, NoFlock(p) PROVE AInv'
  <2>1. pc[p] = "opened" /\ UNCHANGED <<flock, file, disk, tip, tipDisk, entry, promised, used>>
    BY <1>2 DEF NoFlock
  <2>2. CASE p \in AllowUnlocked
    BY <1>2, <2>1, <2>2, StayOwn DEF NoFlock
  <2>3. CASE p \notin AllowUnlocked
    <3>1. \A e \in promised : e.data # entry[p].data
      BY <2>1 DEF AInv, Own, Unsynced
    <3>2. Return(p, "no_lock")
      BY <1>2, <2>3 DEF NoFlock
    <3> QED BY <2>1, <3>1, <3>2, ReturnOwn
  <2> QED BY <2>2, <2>3
<1>3. ASSUME NEW p \in Writers, WriteFails(p) PROVE AInv'
  BY <1>3, StayOwn DEF WriteFails, fileVars
<1>4. ASSUME NEW p \in Writers, SyncFails(p) PROVE AInv'
  BY <1>4, StayOwn DEF SyncFails
<1>5. ASSUME NEW p \in Writers, WriteTip(p) \/ TipFails(p) PROVE AInv'
  <2>1. /\ pc[p] = "tip" /\ UNCHANGED <<file, disk, entry, promised, used>>
        /\ Return(p, "recorded") \/ Return(p, "tip_not_written")
    BY <1>5 DEF WriteTip, TipFails
  <2>2. entry[p] \in promised
    BY <2>1 DEF IInv, GoingOK, Going
  <2>3. "recorded" \notin Failed /\ "tip_not_written" \notin Failed
    BY DEF Failed
  <2> QED BY <2>1, <2>2, <2>3, ReturnOwn
<1>6. ASSUME NEW p \in Writers, Crash(p) PROVE AInv'
  BY <1>6, ReturnOwn DEF Crash, Failed
<1>7. ASSUME UNCHANGED vars PROVE AInv'
  BY <1>7 DEF vars, fileVars, AInv, Own, Mine, Apart, Known
<1> QED BY <1>1, <1>2, <1>3, <1>4, <1>5, <1>6, <1>7, CallOwn, ReadTailOwn, SeekEndOwn,
           WriteOwn, SyncOwn, UndoOwn, PowerLossOwn DEF Next, Advance

(* A call that reports a rollback has left no trace of its record, neither *)
(* in the file nor on the medium, whatever the other processes append and  *)
(* wherever the power is cut afterwards.                                   *)
THEOREM RollbackLeavesNothing ==
  ASSUME Serialised
  PROVE  Spec => []UndoneIsAbsent
<1>1. Serialised
  OBVIOUS
<1>2. IInv /\ AInv /\ [Next]_vars => AInv'
  BY <1>1, NextOwn
<1>3. AInv => UndoneIsAbsent
  BY ShownHolds DEF AInv, Own, UndoneIsAbsent
<1> QED BY <1>2, <1>3, InitOwn, Invariant, PTL DEF Spec

-----------------------------------------------------------------------------
(* What a step of append changes, for the modules that call it.            *)

\* a step of append keeps the record and is a call or its answer
LEMMA AdvanceMine ==
  ASSUME TypeOK, NEW p \in Writers, Advance(p)
  PROVE  /\ Mine(p)' /\ entry'[p].data = entry[p].data
         /\ \A q \in Writers : q # p =>
              pc'[q] = pc[q] /\ answer'[q] = answer[q] /\ entry'[q] = entry[q]
<1> USE DEF TypeOK
<1>1. ASSUME NEW l \in Steps, Goto(p, l), l # "idle", answer' = answer
      PROVE  Mine(p)' /\ \A q \in Writers : q # p => pc'[q] = pc[q] /\ answer'[q] = answer[q]
  BY <1>1 DEF Goto, Mine
<1>2. ASSUME NEW a \in Answers, Return(p, a), a # "none"
      PROVE  Mine(p)' /\ \A q \in Writers : q # p => pc'[q] = pc[q] /\ answer'[q] = answer[q]
  BY <1>2 DEF Return, Goto, Mine
<1>3. Mine(p)' /\ \A q \in Writers : q # p => pc'[q] = pc[q] /\ answer'[q] = answer[q]
  <2>1. CASE LockFile(p) \/ NoFlock(p)
    BY <1>1, <1>2, <2>1 DEF LockFile, NoFlock, Steps, Answers
  <2>2. CASE ReadTail(p) \/ SeekEnd(p)
    BY <1>1, <1>2, <2>2 DEF ReadTail, SeekEnd, Place, Steps, Answers
  <2>3. CASE Write(p) \/ WriteFails(p) \/ SyncFails(p)
    BY <1>1, <2>3 DEF Write, WriteFails, SyncFails, Steps
  <2>4. CASE Sync(p) \/ Undo(p)
    BY <1>1, <1>2, <2>4 DEF Sync, AfterSync, Undo, Steps, Answers
  <2>5. CASE WriteTip(p) \/ TipFails(p)
    BY <1>2, <2>5 DEF WriteTip, TipFails, Answers
  <2> QED BY <2>1, <2>2, <2>3, <2>4, <2>5 DEF Advance
<1>4. entry'[p].data = entry[p].data /\ \A q \in Writers : q # p => entry'[q] = entry[q]
  <2>1. CASE ReadTail(p)
    <3>1. entry' = entry \/ entry' = [entry EXCEPT ![p] = Placed(entry[p].data)]
      BY <2>1 DEF ReadTail, Place
    <3>2. Placed(entry[p].data).data = entry[p].data
      BY DEF Placed
    <3> QED BY <3>1, <3>2
  <2>2. CASE ~ReadTail(p)
    BY <2>2 DEF Advance, LockFile, NoFlock, SeekEnd, Write, WriteFails, Sync, SyncFails,
                Undo, WriteTip, TipFails, fileVars
  <2> QED BY <2>1, <2>2
<1> QED BY <1>3, <1>4

\* the entries of a file that grew are those it had and what was added
LEMMA StartsGrow ==
  ASSUME NEW f \in Seq(Cell), NEW g \in Seq(Cell), NEW i \in Starts(f \o g)
  PROVE  \/ i \in Starts(f) /\ (f \o g)[i] = f[i]
         \/ (f \o g)[i].e.data \in Shown(g)
<1> DEFINE h == f \o g
<1>1. /\ Len(f) \in Nat /\ Len(g) \in Nat /\ h \in Seq(Cell) /\ Len(h) = Len(f) + Len(g)
      /\ \A k \in 1..Len(f) : h[k] = f[k]
      /\ \A k \in 1..Len(g) : h[Len(f) + k] = g[k]
  BY Joined
<1>2. i \in Starts(h)
  OBVIOUS
<1> HIDE DEF h
<1>3. /\ i \in 1..Len(h) /\ (i = 1 \/ h[i-1] = NL) /\ i < Len(h) /\ h[i].part = "open"
      /\ h[i+1] = Close(h[i].e) /\ (i + 1 = Len(h) \/ h[i+2] = NL)
  BY <1>2 DEF Starts, LineStarts, WholeAt
<1>4. CASE i + 1 <= Len(f)
  <2>0. i \in 1..Len(f) /\ i + 1 \in 1..Len(f) /\ (i # 1 => i - 1 \in 1..Len(f))
    BY <1>1, <1>3, <1>4
  <2>1. h[i] = f[i] /\ h[i+1] = f[i+1] /\ (i # 1 => h[i-1] = f[i-1])
    BY <1>1, <2>0
  <2>2. i + 1 = Len(f) \/ f[i+2] = NL
    <3>1. CASE i + 2 <= Len(f)
      BY <1>1, <1>3, <3>1
    <3>2. CASE i + 2 > Len(f)
      BY <1>1, <1>3, <1>4, <3>2
    <3> QED BY <1>1, <1>3, <3>1, <3>2
  <2>3. i \in LineStarts(f)
    BY <1>3, <2>0, <2>1 DEF LineStarts
  <2>4. WholeAt(f, i)
    BY <1>1, <1>3, <1>4, <2>1, <2>2 DEF WholeAt
  <2> QED BY <2>1, <2>3, <2>4 DEF Starts, h
<1>5. CASE i + 1 > Len(f)
  <2> DEFINE k == i + 1 - Len(f)
  <2>1. k \in 1..Len(g) /\ Len(f) + k = i + 1
    BY <1>1, <1>3, <1>5
  <2> HIDE DEF k
  <2>2. g[k] = Close(h[i].e)
    BY <1>1, <1>3, <2>1
  <2>3. g[k].part \in {"open", "close"} /\ g[k].e = h[i].e
    BY <2>2, CellParts
  <2>4. h[i].e.data \in Shown(g)
    BY <2>1, <2>3 DEF Shown
  <2> QED BY <2>4 DEF h
<1> QED BY <1>1, <1>3, <1>4, <1>5

\* an entry that a step of append makes readable is the call's own
LEMMA NewlyShown ==
  ASSUME IInv, AInv, NEW p \in Writers, Advance(p), NEW i \in Starts(file')
  PROVE  \/ i \in Starts(file) /\ file'[i] = file[i]
         \/ file'[i].e.data = entry[p].data
<1>1. file \in Seq(Cell) /\ Chained(file) /\ rest[p] \in Seq(Cell) /\ Own(p) /\ Going(p)
  BY DEF IInv, TypeOK, FileOK, GoingOK, AInv
<1>2. CASE Write(p)
  <2>1. PICK k \in 1..Len(rest[p]) : file' = file \o SubSeq(rest[p], 1, k)
    BY <1>2 DEF Write
  <2>2. pc[p] = "write" /\ Shown(rest[p]) \subseteq {entry[p].data}
    BY <1>1, <1>2 DEF Write, Own
  <2>3. /\ SubSeq(rest[p], 1, k) \in Seq(Cell)
        /\ Shown(SubSeq(rest[p], 1, k)) \subseteq {entry[p].data}
    BY <1>1, <2>2, ShownRest
  <2> QED BY <1>1, <2>1, <2>3, StartsGrow
<1>3. CASE Undo(p)
  <2>1. end[p] \in 0..Len(file) /\ file' \in {file, Truncated(file, end[p])}
    <3>1. end[p] \in Nat /\ end[p] <= Len(file)
      BY <1>1, <1>3 DEF IInv, TypeOK, Going, Undo
    <3>2. file' \in {file, Truncated(file, end[p])}
      BY <1>3 DEF Undo
    <3> QED BY <1>1, <3>1, <3>2
  <2>2. Truncated(file, end[p]) = SubSeq(file, 1, end[p])
    BY <1>1, <2>1 DEF Truncated
  <2>3. ASSUME file' = SubSeq(file, 1, end[p])
        PROVE  i \in Starts(file) /\ file'[i] = file[i]
    <3>1. /\ file' \in Seq(Cell) /\ Chained(file') /\ Len(file') = end[p]
          /\ \A j \in 1..end[p] : file'[j] = file[j]
      BY <1>1, <2>1, <2>3, ChainedPrefix
    <3>2. PICK j \in Nat : i = 3*j + 1 /\ 3*j + 2 <= Len(file')
      BY <3>1, ChainedStarts
    <3>3. i \in 1..end[p] /\ i \in 1..Len(file) /\ 3*j + 2 <= Len(file)
      BY <1>1, <2>1, <3>1, <3>2
    <3> QED BY <1>1, <3>1, <3>2, <3>3, ChainedStarts
  <2> QED BY <2>1, <2>2, <2>3
<1>4. CASE ~Write(p) /\ ~Undo(p)
  <2>1. file' = file
    BY <1>4 DEF Advance, LockFile, NoFlock, ReadTail, SeekEnd, WriteFails, Sync, SyncFails,
                WriteTip, TipFails, fileVars
  <2> QED BY <2>1
<1> QED BY <1>2, <1>3, <1>4
=============================================================================

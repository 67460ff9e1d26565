------------------------------ MODULE SbomProofs ------------------------------
(***************************************************************************)
(* The index of components, for any names, requirements and documents:     *)
(* what the walk over the installed distributions reaches, what an SPDX    *)
(* graph says wherever it says it, and the references and dependency rows  *)
(* of the export.                                                          *)
(***************************************************************************)
EXTENDS Sbom, FiniteSetTheorems, SequenceTheorems, TLAPS

-----------------------------------------------------------------------------
(* The inductive invariant.                                                *)

Component == [key : STRING, installed : BOOLEAN, ref : Seq(STRING)]
MaxComps == Cardinality(Names) + Len(Packages)

\* a name is asked for as what a parent requires, the product or a distribution
Parents == {Root} \cup Keys
Ask == Parents \X Names

SbomTypeOK ==
  /\ job \in {"none", "installed", "document", "graph", "indexed"}
  /\ transitive \in BOOLEAN
  /\ todo \in Seq(Ask) /\ seen \subseteq Keys /\ walked \subseteq seen
  /\ edges \subseteq Parents \X seen
  /\ comps \in Seq(Component) /\ Len(comps) <= MaxComps
  /\ refs \in Seq(Seq(STRING)) /\ Len(refs) <= Len(Exported)

\* what is asked for, by key
PendingOf(t) == {<<t[i][1], NormKey[t[i][2]]>> : i \in 1..Len(t)}
Pending == PendingOf(todo)

(* The walk has a component for each key it looked up; and an edge, or a   *)
(* name still to be looked up, for each thing required, and for no other.  *)
Walking ==
  /\ DOMAIN needs = {Root} \cup walked
  /\ \A p \in DOMAIN needs : needs[p] \subseteq Keys
  /\ \A p \in Parents, c \in Keys :
       <<p, c>> \in edges \cup Pending => p \in DOMAIN needs /\ c \in needs[p]
  /\ \A p \in Parents : <<p, p>> \notin edges
  /\ \A p \in DOMAIN needs : \A c \in needs[p] :
       <<p, c>> \in Pending \/ (c \in seen /\ (c = p \/ <<p, c>> \in edges))
  /\ ~transitive => walked = {}

\* one component for each key
OneOfEach ==
  /\ \A i \in 1..Len(comps) : comps[i].key \in seen
  /\ \A k \in seen : \E i \in 1..Len(comps) : comps[i].key = k
  /\ \A i, j \in 1..Len(comps) : comps[i].key = comps[j].key => i = j
  /\ Len(comps) = Cardinality(seen)

\* keys that hold the top level, and with each of them what it requires
RequiredBy(k) == IF k \in DOMAIN needs THEN needs[k] ELSE {}
Holds(S) == needs[Root] \subseteq S /\ \A p \in S : RequiredBy(p) \subseteq S
Reaching ==
  \A S \in SUBSET Keys :
    Holds(S) => seen \subseteq S /\ \A p \in Parents, c \in Keys : <<p, c>> \in Pending => c \in S

Apart == \A i, j \in 1..Len(refs) : refs[i] = refs[j] => i = j

\* what the elements so far say, in any order
Licences(kind, id) ==
  {document[i].expr : i \in {j \in 1..Len(document) : document[j].kind = kind /\ document[j].from = id}}
    \ {NoLicense}
Marked ==
  /\ document \in Seq(Elements)
  /\ \A id : id \in roots <=> \E i \in 1..Len(document) : document[i].kind = "root" /\ id \in document[i].roots
  /\ \A id \in DOMAIN licOf :
       licOf[id] \in (IF Licences("concluded", id) # {} THEN Licences("concluded", id)
                      ELSE Licences("declared", id))
  /\ \A i \in 1..Len(document) :
       document[i].kind \in {"concluded", "declared"} /\ document[i].expr # NoLicense
         => document[i].from \in DOMAIN licOf

BInv ==
  /\ SbomTypeOK
  /\ job = "installed" => Walking /\ OneOfEach /\ Reaching
  /\ job # "installed" => todo = <<>> /\ edges = {}
  /\ job = "none" => comps = <<>> /\ seen = {} /\ walked = {}
  /\ todo # <<>> \/ job \notin {"installed", "document"} => refs = <<>>
  /\ Apart
  /\ Done => bom = Output /\ todo = <<>> /\ Len(refs) = Len(Exported) /\ job \in {"installed", "document"}
  /\ Marked
  /\ job = "indexed" => index = Indexed

-----------------------------------------------------------------------------
(* Sequences.                                                              *)

LEMMA UpTo ==
  ASSUME NEW n \in Nat
  PROVE  IsFiniteSet(1..n) /\ Cardinality(1..n) = n
BY FS_Interval

\* At takes the elements at some positions, each once
LEMMA AtIs ==
  ASSUME NEW T, NEW s \in Seq(T), NEW S \in SUBSET (1..Len(s))
  PROVE  /\ At(s, S) \in Seq(T) /\ Len(At(s, S)) \in Nat /\ Len(At(s, S)) <= Len(s)
         /\ \E q \in [1..Len(At(s, S)) -> S] :
              /\ \A k \in 1..Len(At(s, S)) : At(s, S)[k] = s[q[k]]
              /\ \A k, l \in 1..Len(At(s, S)) : q[k] = q[l] => k = l
              /\ \A i \in S : \E k \in 1..Len(At(s, S)) : q[k] = i
<1> DEFINE n == Cardinality(S)
           r(i) == Cardinality({j \in S : j <= i})
           rank == [i \in S |-> r(i)]
           q == [k \in 1..n |-> CHOOSE i \in S : r(i) = k]
<1>1. Len(s) \in Nat /\ S \subseteq 1..Len(s)
  OBVIOUS
<1>2. IsFiniteSet(S) /\ n \in Nat /\ n <= Len(s)
  <2>1. IsFiniteSet(1..Len(s)) /\ Cardinality(1..Len(s)) = Len(s)
    BY <1>1, UpTo
  <2> QED BY <2>1, FS_Subset, FS_CardinalityType
<1>3. ASSUME NEW i \in S
      PROVE  r(i) \in 1..n /\ IsFiniteSet({j \in S : j <= i})
  <2> DEFINE U == {j \in S : j <= i}
  <2>1. IsFiniteSet(U) /\ Cardinality(U) <= n
    BY <1>2, FS_Subset
  <2>2. i \in U
    BY <1>1
  <2>3. Cardinality(U) \in Nat /\ Cardinality(U) # 0
    BY <2>1, <2>2, FS_CardinalityType, FS_EmptySet
  <2> QED BY <1>2, <2>1, <2>3
<1>4. ASSUME NEW i \in S, NEW j \in S, i < j PROVE r(i) # r(j)
  <2> DEFINE U == {k \in S : k <= i}
             V == {k \in S : k <= j}
  <2>0. i \in Nat /\ j \in Nat /\ \A k \in S : k \in Nat
    BY <1>1
  <2>1. U \subseteq V /\ j \in V /\ j \notin U
    <3>1. \A k \in S : k <= i => k <= j
      BY <1>4, <2>0
    <3>2. j <= j /\ ~(j <= i) /\ j \in S
      BY <1>4, <2>0
    <3> QED BY <3>1, <3>2
  <2>2. IsFiniteSet(V)
    BY <1>3
  <2>3. Cardinality(U) # Cardinality(V)
    BY <2>1, <2>2, FS_Subset
  <2> QED BY <2>3
<1>5. \A i, j \in S : r(i) = r(j) => i = j
  BY <1>1, <1>4
<1>6. rank \in Injection(S, 1..n)
  <2>1. rank \in [S -> 1..n]
    BY <1>3
  <2>2. \A i, j \in S : rank[i] = rank[j] => i = j
    BY <1>5
  <2> HIDE DEF rank
  <2> QED BY <2>1, <2>2 DEF Injection, IsInjective
<1>7. rank \in Surjection(S, 1..n)
  <2>1. IsFiniteSet(1..n) /\ Cardinality(1..n) = n
    BY <1>2, UpTo
  <2> QED BY <1>6, <2>1, FS_Injection
<1>8. \A k \in 1..n : \E i \in S : r(i) = k
  <2> SUFFICES ASSUME NEW k \in 1..n PROVE \E i \in S : r(i) = k
    OBVIOUS
  <2>1. PICK i \in S : rank[i] = k
    BY <1>7 DEF Surjection
  <2> QED BY <2>1
<1>9. At(s, S) = [k \in 1..n |-> s[q[k]]]
  BY DEF At
<1> HIDE DEF r
<1>10. \A k \in 1..n : q[k] \in S /\ r(q[k]) = k
  BY <1>8
<1>11. q \in [1..n -> S]
  BY <1>10
<1>12. \A i \in S : r(i) \in 1..n /\ q[r(i)] = i
  BY <1>3, <1>5, <1>10
<1> HIDE DEF q
<1>13. At(s, S) \in Seq(T) /\ Len(At(s, S)) = n
  <2>0. \A i \in 1..Len(s) : s[i] \in T
    OBVIOUS
  <2>1. \A k \in 1..n : s[q[k]] \in T
    BY <1>1, <1>10, <2>0
  <2> QED BY <1>2, <1>9, <2>1
<1>14. \A k \in 1..n : At(s, S)[k] = s[q[k]]
  BY <1>9
<1> HIDE DEF n
<1>15. /\ \A k, l \in 1..n : q[k] = q[l] => k = l
       /\ \A i \in S : \E k \in 1..n : q[k] = i
  BY <1>10, <1>12
<1> QED BY <1>2, <1>11, <1>13, <1>14, <1>15

LEMMA HeadAndTail ==
  ASSUME NEW T, NEW s \in Seq(T), s # <<>>
  PROVE  /\ Len(s) \in Nat /\ 1 \in 1..Len(s) /\ Head(s) = s[1] /\ s[1] \in T
         /\ Tail(s) \in Seq(T) /\ Len(Tail(s)) = Len(s) - 1
         /\ \A i \in 1..Len(s) - 1 : Tail(s)[i] = s[i + 1]
OBVIOUS

LEMMA Joined ==
  ASSUME NEW T, NEW s \in Seq(T), NEW t \in Seq(T)
  PROVE  /\ s \o t \in Seq(T) /\ Len(s \o t) = Len(s) + Len(t)
         /\ \A i \in 1..Len(s) : (s \o t)[i] = s[i]
         /\ \A i \in 1..Len(t) : (s \o t)[Len(s) + i] = t[i]
OBVIOUS

LEMMA Appended ==
  ASSUME NEW T, NEW s \in Seq(T), NEW e \in T
  PROVE  /\ Append(s, e) \in Seq(T)
         /\ Len(Append(s, e)) = Len(s) + 1
         /\ \A i \in 1..Len(s) : Append(s, e)[i] = s[i]
         /\ Append(s, e)[Len(s) + 1] = e
OBVIOUS

LEMMA KeysAre ==
  /\ IsFiniteSet(Keys) /\ Cardinality(Keys) <= Cardinality(Names)
  /\ Keys \subseteq STRING /\ Root \notin Keys
  /\ \A n \in Names : NormKey[n] \in Keys
<1> DEFINE f == [n \in Names |-> NormKey[n]]
<1>1. f \in Surjection(Names, Keys)
  BY DEF Surjection, Keys
<1>2. IsFiniteSet(Keys) /\ Cardinality(Keys) <= Cardinality(Names)
  BY <1>1, FS_Surjection, SbomAssumption
<1> QED BY <1>2, SbomAssumption DEF Keys

-----------------------------------------------------------------------------
(* References.                                                             *)

LEMMA UsedIs ==
  ASSUME refs \in Seq(Seq(STRING))
  PROVE  /\ Len(refs) \in Nat /\ IsFiniteSet(Used) /\ Cardinality(Used) \in Nat
         /\ Cardinality(Used) <= Len(refs)
         /\ \A r : r \in Used <=> \E i \in 1..Len(refs) : refs[i] = r
<1>1. Len(refs) \in Nat /\ DOMAIN refs = 1..Len(refs)
  OBVIOUS
<1>2. \A r : r \in Used <=> \E i \in 1..Len(refs) : refs[i] = r
  BY <1>1 DEF Used
<1> DEFINE f == [i \in 1..Len(refs) |-> refs[i]]
<1>3. f \in Surjection(1..Len(refs), Used)
  BY <1>1, <1>2 DEF Surjection
<1>4. IsFiniteSet(1..Len(refs)) /\ Cardinality(1..Len(refs)) = Len(refs)
  BY <1>1, UpTo
<1> QED BY <1>1, <1>2, <1>3, <1>4, FS_Surjection, FS_CardinalityType

\* of more candidates than there are taken one is free
LEMMA MoreThan ==
  ASSUME NEW S, NEW U, IsFiniteSet(S), IsFiniteSet(U), Cardinality(U) < Cardinality(S),
         NEW f, \A m, n \in S : f[m] = f[n] => m = n
  PROVE  \E n \in S : f[n] \notin U
<1> DEFINE g == [n \in S |-> f[n]]
<1>1. \A m, n \in S : m # n => g[m] # g[n]
  OBVIOUS
<1> SUFFICES ASSUME \A n \in S : f[n] \in U PROVE FALSE
  OBVIOUS
<1>2. g \in [S -> U]
  OBVIOUS
<1> HIDE DEF g
<1> QED BY <1>1, <1>2, FS_PigeonHole

LEMMA OneIsFree ==
  ASSUME refs \in Seq(Seq(STRING)), NEW a \in Nat, NEW f,
         \A m, n \in a..a + Len(refs) : f[m] = f[n] => m = n
  PROVE  \E n \in a..a + Len(refs) : f[n] \notin Used
<1> DEFINE S == a..a + Len(refs)
<1>1. Len(refs) \in Nat
  BY UsedIs
<1>2. IsFiniteSet(S) /\ Cardinality(S) = Len(refs) + 1
  <2>1. a \in Int /\ a + Len(refs) \in Int /\ ~(a > a + Len(refs))
    BY <1>1
  <2> QED BY <1>1, <2>1, FS_Interval
<1>3. IsFiniteSet(Used) /\ Cardinality(Used) < Cardinality(S)
  BY <1>2, UsedIs
<1> HIDE DEF S
<1>4. \A m, n \in S : f[m] = f[n] => m = n
  BY DEF S
<1>5. \E n \in S : f[n] \notin Used
  BY <1>2, <1>3, <1>4, MoreThan
<1> QED BY <1>5 DEF S

\* a set of natural numbers that is not empty has a least one
LEMMA LeastOf ==
  ASSUME NEW T \in SUBSET Nat, T # {}
  PROVE  \E m \in T : \A k \in T : m <= k
<1> DEFINE R == OpToRel(<, Nat)
<1>1. IsWellFoundedOn(R, Nat)
  BY NatLessThanWellFounded
<1>2. \A x, y \in Nat : x < y => <<x, y>> \in R
  BY DEF OpToRel
<1> HIDE DEF R
<1>3. PICK m \in T : \A y \in T : ~(<<y, m>> \in R)
  BY <1>1, WFMin
<1>4. \A k \in T : m <= k
  <2> SUFFICES ASSUME NEW k \in T, k < m PROVE FALSE
    OBVIOUS
  <2>1. <<k, m>> \in R
    BY <1>2
  <2> QED BY <1>3, <2>1
<1> QED BY <1>4

LEMMA FreshIs ==
  ASSUME refs \in Seq(Seq(STRING)), Len(refs) <= MaxComps, NEW ref \in Seq(STRING)
  PROVE  Fresh(ref) \in Seq(STRING) /\ Fresh(ref) \notin Used
<1> DEFINE R == 2..Len(refs) + 2
           f == [n \in R |-> Append(ref, Decimal(n))]
           free == {n \in R : Append(ref, Decimal(n)) \notin Used}
           c == CHOOSE n \in free : \A k \in free : n <= k
<1>1. Len(refs) \in Nat /\ Cardinality(Names) \in Nat /\ Len(Packages) \in Nat
  BY UsedIs, SbomAssumption, FS_CardinalityType
<1>2. \A n \in R : n \in 2..Cardinality(Names) + Len(Packages) + 2
  BY <1>1 DEF MaxComps
<1>3. \A n \in R : Decimal(n) \in STRING /\ f[n] = Append(ref, Decimal(n)) /\ f[n] \in Seq(STRING)
  BY <1>2, SbomAssumption
<1>4. ASSUME NEW m \in R, NEW n \in R, f[m] = f[n] PROVE m = n
  <2>1. /\ Append(ref, Decimal(m)) = Append(ref, Decimal(n))
        /\ Decimal(m) \in STRING /\ Decimal(n) \in STRING
    BY <1>3, <1>4
  <2>2. Decimal(m) = Decimal(n)
    BY <2>1, Appended
  <2> QED BY <1>2, <2>2, SbomAssumption
<1>5. \E n \in R : f[n] \notin Used
  <2>1. R = 2..2 + Len(refs)
    BY <1>1
  <2> HIDE DEF f, R
  <2> QED BY <1>4, <2>1, OneIsFree
<1>6. free # {} /\ free \subseteq Nat
  <2>1. PICK n \in R : f[n] \notin Used
    BY <1>5
  <2>2. n \in free
    BY <2>1
  <2>3. R \subseteq Nat
    BY <1>1
  <2> QED BY <2>2, <2>3
<1>7. \E n \in free : \A k \in free : n <= k
  <2> HIDE DEF free
  <2> QED BY <1>6, LeastOf
<1>8. c \in free
  <2> HIDE DEF free
  <2> QED BY <1>7
<1>9. Append(ref, Decimal(c)) \notin Used /\ Append(ref, Decimal(c)) \in Seq(STRING)
  BY <1>3, <1>8
<1>10. Fresh(ref) = IF ref \notin Used THEN ref ELSE Append(ref, Decimal(c))
  BY DEF Fresh
<1> HIDE DEF c
<1> QED BY <1>9, <1>10

LEMMA PrimaryIs ==
  ASSUME refs \in Seq(Seq(STRING))
  PROVE  PrimaryRef \notin Used
<1> DEFINE Part == STRING \cup {"product"}
           R == 0..Len(refs)
           tail(k) == [i \in 1..k |-> "product"]
           mark(k) == Product \o tail(k)
           f == [k \in R |-> mark(k)]
           free == {k \in R : mark(k) \notin Used}
           c == CHOOSE k \in free : \A j \in free : k <= j
<1>1. Len(refs) \in Nat
  BY UsedIs
<1>2. Product \in Seq(Part)
  BY SbomAssumption
<1>3. ASSUME NEW k \in R PROVE Len(mark(k)) = Len(Product) + k /\ k \in Nat
  <2>1. k \in Nat
    BY <1>1
  <2>2. tail(k) \in Seq(Part) /\ Len(tail(k)) = k
    <3>1. tail(k) \in [1..k -> Part]
      OBVIOUS
    <3> HIDE DEF tail
    <3> QED BY <2>1, <3>1
  <2> HIDE DEF tail, Part
  <2> QED BY <1>2, <2>1, <2>2, Joined
<1>4. ASSUME NEW m \in R, NEW n \in R, f[m] = f[n] PROVE m = n
  <2>1. mark(m) = mark(n)
    BY <1>4
  <2>2. Len(Product) \in Nat
    BY <1>2
  <2> HIDE DEF mark
  <2> QED BY <1>3, <2>1, <2>2
<1> HIDE DEF mark
<1>5. \E k \in R : f[k] \notin Used
  <2>1. R = 0..0 + Len(refs)
    BY <1>1
  <2> HIDE DEF f, R
  <2> QED BY <1>4, <2>1, OneIsFree
<1>6. free # {} /\ free \subseteq Nat
  BY <1>1, <1>5
<1>7. \E k \in free : \A j \in free : k <= j
  <2> HIDE DEF free
  <2> QED BY <1>6, LeastOf
<1>8. c \in free
  <2> HIDE DEF free
  <2> QED BY <1>7
<1>9. mark(c) \notin Used
  BY <1>8
<1>10. PrimaryRef = mark(c)
  BY DEF PrimaryRef, mark
<1> QED BY <1>9, <1>10

-----------------------------------------------------------------------------
(* The walk over the installed distributions.                              *)

\* the name that is next
LEMMA NextAsked ==
  ASSUME SbomTypeOK, todo # <<>>
  PROVE  /\ Head(todo)[1] \in Parents /\ Key \in Keys /\ Tail(todo) \in Seq(Ask)
         /\ \A x : x \in Pending <=> x = <<Head(todo)[1], Key>> \/ x \in PendingOf(Tail(todo))
<1>1. /\ Len(todo) \in Nat /\ 1 \in 1..Len(todo) /\ Head(todo) = todo[1] /\ todo[1] \in Ask
      /\ Tail(todo) \in Seq(Ask) /\ Len(Tail(todo)) = Len(todo) - 1
      /\ \A i \in 1..Len(todo) - 1 : Tail(todo)[i] = todo[i + 1]
  BY HeadAndTail DEF SbomTypeOK
<1>2. Head(todo)[1] \in Parents /\ Key \in Keys
  BY <1>1, KeysAre DEF Ask, Key
<1> DEFINE pair(i) == <<todo[i][1], NormKey[todo[i][2]]>>
<1>3. pair(1) = <<Head(todo)[1], Key>>
  BY <1>1 DEF Key
<1>4. \A x : x \in Pending <=> \E i \in 1..Len(todo) : x = pair(i)
  BY DEF Pending, PendingOf
<1>5. \A x : x \in PendingOf(Tail(todo)) <=> \E i \in 1..Len(todo) - 1 : x = pair(i + 1)
  BY <1>1 DEF PendingOf
<1> HIDE DEF pair
<1>6. ASSUME NEW x
      PROVE  (\E i \in 1..Len(todo) : x = pair(i))
               <=> x = pair(1) \/ \E i \in 1..Len(todo) - 1 : x = pair(i + 1)
  <2>1. ASSUME NEW i \in 1..Len(todo), x = pair(i), i # 1
        PROVE  \E j \in 1..Len(todo) - 1 : x = pair(j + 1)
    <3>1. i - 1 \in 1..Len(todo) - 1 /\ (i - 1) + 1 = i
      BY <1>1, <2>1
    <3> QED BY <2>1, <3>1
  <2>2. ASSUME NEW j \in 1..Len(todo) - 1, x = pair(j + 1)
        PROVE  \E i \in 1..Len(todo) : x = pair(i)
    <3>1. j + 1 \in 1..Len(todo)
      BY <1>1
    <3> QED BY <2>2, <3>1
  <2> QED BY <1>1, <2>1, <2>2
<1> QED BY <1>1, <1>2, <1>3, <1>4, <1>5, <1>6

LEMMA PendingJoin ==
  ASSUME NEW s \in Seq(Ask), NEW t \in Seq(Ask)
  PROVE  /\ s \o t \in Seq(Ask)
         /\ \A x : x \in PendingOf(s \o t) <=> x \in PendingOf(s) \/ x \in PendingOf(t)
<1> DEFINE u == s \o t
<1>1. /\ u \in Seq(Ask) /\ Len(u) = Len(s) + Len(t)
      /\ \A i \in 1..Len(s) : u[i] = s[i]
      /\ \A i \in 1..Len(t) : u[Len(s) + i] = t[i]
      /\ Len(s) \in Nat /\ Len(t) \in Nat
  BY Joined
<1> HIDE DEF u
<1>2. ASSUME NEW x \in PendingOf(u) PROVE x \in PendingOf(s) \/ x \in PendingOf(t)
  <2>1. PICK i \in 1..Len(u) : x = <<u[i][1], NormKey[u[i][2]]>>
    BY DEF PendingOf
  <2>2. CASE i <= Len(s)
    <3>1. i \in 1..Len(s)
      BY <1>1, <2>2
    <3> QED BY <1>1, <2>1, <3>1 DEF PendingOf
  <2>3. CASE Len(s) < i
    <3>1. i - Len(s) \in 1..Len(t) /\ Len(s) + (i - Len(s)) = i
      BY <1>1, <2>3
    <3>2. u[i] = t[i - Len(s)]
      BY <1>1, <3>1
    <3> QED BY <2>1, <3>1, <3>2 DEF PendingOf
  <2> QED BY <1>1, <2>2, <2>3
<1>3. ASSUME NEW x \in PendingOf(s) PROVE x \in PendingOf(u)
  <2>1. PICK i \in 1..Len(s) : x = <<s[i][1], NormKey[s[i][2]]>>
    BY DEF PendingOf
  <2>2. i \in 1..Len(u)
    BY <1>1
  <2> QED BY <1>1, <2>1, <2>2 DEF PendingOf
<1>4. ASSUME NEW x \in PendingOf(t) PROVE x \in PendingOf(u)
  <2>1. PICK i \in 1..Len(t) : x = <<t[i][1], NormKey[t[i][2]]>>
    BY DEF PendingOf
  <2>2. Len(s) + i \in 1..Len(u)
    BY <1>1
  <2> QED BY <1>1, <2>1, <2>2 DEF PendingOf
<1> QED BY <1>1, <1>2, <1>3, <1>4 DEF u

\* what is asked for because of some requirements
AsksOf(k, reqs) == [i \in 1..Len(Kept(reqs)) |-> <<k, Kept(reqs)[i].name>>]

LEMMA AsksAre ==
  ASSUME NEW reqs \in Requires, NEW k \in Keys
  PROVE  /\ AsksOf(k, reqs) \in Seq(Ask) /\ RequiredHere(reqs) \subseteq Keys
         /\ PendingOf(AsksOf(k, reqs)) = {k} \X RequiredHere(reqs)
<1> DEFINE S == {i \in 1..Len(reqs) : reqs[i].marker \in {"applies", "unknown"}}
           n == Len(Kept(reqs))
           a == AsksOf(k, reqs)
<1>1. /\ reqs \in Seq(Requirement) /\ Len(reqs) \in Nat
      /\ \A i \in 1..Len(reqs) : reqs[i] \in Requirement
  BY SbomAssumption
<1>2. Kept(reqs) = At(reqs, S)
  BY DEF Kept
<1>3. /\ Kept(reqs) \in Seq(Requirement) /\ n \in Nat
      /\ \E q \in [1..n -> S] :
           /\ \A j \in 1..n : Kept(reqs)[j] = reqs[q[j]]
           /\ \A i \in S : \E j \in 1..n : q[j] = i
  <2>1. S \in SUBSET (1..Len(reqs))
    OBVIOUS
  <2> HIDE DEF S
  <2> QED BY <1>1, <1>2, <2>1, AtIs
<1>4. RequiredHere(reqs) = {NormKey[reqs[i].name] : i \in S}
  <2>1. \A i \in 1..Len(reqs) : i \in S <=> reqs[i].marker \notin {"extra", "elsewhere"}
    BY <1>1 DEF Requirement
  <2>2. S = {j \in 1..Len(reqs) : reqs[j].marker \notin {"extra", "elsewhere"}}
    BY <2>1
  <2> HIDE DEF S
  <2> QED BY <2>2 DEF RequiredHere
<1>5. \A i \in S : reqs[i].name \in Names
  BY <1>1 DEF Requirement
<1>6. \A j \in 1..n : Kept(reqs)[j].name \in Names
  <2>1. \A j \in 1..n : Kept(reqs)[j] \in Requirement
    BY <1>3
  <2> QED BY <2>1 DEF Requirement
<1>7. a \in Seq(Ask) /\ Len(a) = n /\ \A j \in 1..n : a[j] = <<k, Kept(reqs)[j].name>>
  <2>1. a = [j \in 1..n |-> <<k, Kept(reqs)[j].name>>]
    BY DEF AsksOf
  <2>2. \A j \in 1..n : <<k, Kept(reqs)[j].name>> \in Ask
    BY <1>6 DEF Ask, Parents
  <2> HIDE DEF n, a
  <2> QED BY <1>3, <2>1, <2>2
<1> HIDE DEF S, n, a
<1>8. \A x : x \in PendingOf(a) <=> \E j \in 1..n : x = <<k, NormKey[Kept(reqs)[j].name]>>
  <2>1. \A j \in 1..n : a[j][1] = k /\ a[j][2] = Kept(reqs)[j].name
    BY <1>7
  <2>2. Len(a) = n
    BY <1>7
  <2>3. \A x : x \in PendingOf(a) <=> \E j \in 1..n : x = <<a[j][1], NormKey[a[j][2]]>>
    BY <2>2 DEF PendingOf
  <2> QED BY <2>1, <2>3
<1>9. \A x : x \in PendingOf(a) <=> \E i \in S : x = <<k, NormKey[reqs[i].name]>>
  <2>1. PICK q \in [1..n -> S] :
          /\ \A j \in 1..n : Kept(reqs)[j] = reqs[q[j]]
          /\ \A i \in S : \E j \in 1..n : q[j] = i
    BY <1>3
  <2>2. ASSUME NEW x, NEW j \in 1..n, x = <<k, NormKey[Kept(reqs)[j].name]>>
        PROVE  \E i \in S : x = <<k, NormKey[reqs[i].name]>>
    BY <2>1, <2>2
  <2>3. ASSUME NEW x, NEW i \in S, x = <<k, NormKey[reqs[i].name]>>
        PROVE  \E j \in 1..n : x = <<k, NormKey[Kept(reqs)[j].name]>>
    BY <2>1, <2>3
  <2> QED BY <1>8, <2>2, <2>3
<1>10. PendingOf(a) = {k} \X RequiredHere(reqs)
  BY <1>4, <1>9
<1> QED BY <1>4, <1>5, <1>7, <1>10, KeysAre DEF a

\* the relation between what is required before a step and after it
LEMMA VisitWalks ==
  ASSUME SbomTypeOK, Walking, Reaching, todo # <<>>, Key \notin seen,
         edges' = WithEdge, seen' = seen \cup {Key}, transitive' = transitive,
         NEW t \in Seq(Ask), todo' = Tail(todo) \o t,
         NEW R \in SUBSET Keys, PendingOf(t) = {Key} \X R,
         \/ transitive /\ walked' = walked \cup {Key} /\ needs' = Put(needs, Key, R)
         \/ R = {} /\ walked' = walked /\ needs' = needs
  PROVE  Walking' /\ Reaching'
<1> DEFINE h == Head(todo)[1]
           tail == PendingOf(Tail(todo))
<1>1. /\ h \in Parents /\ Key \in Keys
      /\ \A x : x \in Pending <=> x = <<h, Key>> \/ x \in tail
  BY NextAsked
<1>2. \A x : x \in Pending' <=> x \in tail \/ x \in {Key} \X R
  <2>1. \A x : x \in PendingOf(Tail(todo) \o t) <=> x \in tail \/ x \in PendingOf(t)
    BY NextAsked, PendingJoin
  <2>2. Pending' = PendingOf(Tail(todo) \o t)
    BY DEF Pending, PendingOf
  <2> QED BY <2>1, <2>2
<1>3. Key # Root /\ Key \notin DOMAIN needs /\ Root \in DOMAIN needs /\ h \in DOMAIN needs /\ Key \in needs[h]
  <2> HIDE DEF h, tail
  <2>1. Key # Root
    BY <1>1, KeysAre
  <2>2. Key \notin DOMAIN needs /\ Root \in DOMAIN needs
    BY <2>1 DEF Walking, SbomTypeOK
  <2>3. <<h, Key>> \in Pending
    BY <1>1
  <2>4. h \in DOMAIN needs /\ Key \in needs[h]
    BY <1>1, <2>3 DEF Walking
  <2> QED BY <2>1, <2>2, <2>4
<1>4. edges' = IF h = Key THEN edges ELSE edges \cup {<<h, Key>>}
  BY DEF WithEdge
<1>5. /\ DOMAIN needs' = {Root} \cup walked'
      /\ \A p \in DOMAIN needs : p \in DOMAIN needs' /\ needs'[p] = needs[p]
      /\ \A p \in DOMAIN needs' : p \in DOMAIN needs \/ (p = Key /\ needs'[p] = R)
      /\ Key \in DOMAIN needs' \/ R = {}
      /\ ~transitive => walked' = {}
  BY <1>3 DEF Put, Walking
<1>6. \A x \in {Key} \X R : x[1] = Key /\ x[2] \in R /\ x = <<Key, x[2]>>
  OBVIOUS
<1>7. \A c : <<Key, c>> \in {Key} \X R <=> c \in R
  OBVIOUS
<1>8. \A p, c : <<p, c>> \in {Key} \X R <=> p = Key /\ c \in R
  OBVIOUS
<1> HIDE DEF h, tail
<1>9. Walking'
  <2>1. \A p \in DOMAIN needs' : needs'[p] \subseteq Keys
    BY <1>5 DEF Walking
  <2>2. ASSUME NEW p \in Parents, NEW c \in Keys, <<p, c>> \in edges' \cup Pending'
        PROVE  p \in DOMAIN needs' /\ c \in needs'[p]
    <3>1. CASE <<p, c>> \in edges \cup Pending
      <4>1. p \in DOMAIN needs /\ c \in needs[p]
        BY <3>1 DEF Walking
      <4> QED BY <1>5, <4>1
    <3>2. CASE <<p, c>> \in {Key} \X R
      <4>1. p = Key /\ c \in R /\ Key \in DOMAIN needs'
        BY <1>5, <1>8, <3>2
      <4> QED BY <1>3, <1>5, <4>1
    <3> QED BY <1>1, <1>2, <1>4, <2>2, <3>1, <3>2
  <2>3. \A p \in Parents : <<p, p>> \notin edges'
    BY <1>4 DEF Walking
  <2>4. ASSUME NEW p \in DOMAIN needs', NEW c \in needs'[p]
        PROVE  <<p, c>> \in Pending' \/ (c \in seen' /\ (c = p \/ <<p, c>> \in edges'))
    <3>1. CASE p \in DOMAIN needs
      <4>1. <<p, c>> \in Pending \/ (c \in seen /\ (c = p \/ <<p, c>> \in edges))
        BY <1>5, <3>1 DEF Walking
      <4>2. CASE <<p, c>> \in Pending
        BY <1>1, <1>2, <1>4, <4>2
      <4> QED BY <1>4, <4>1, <4>2
    <3>2. CASE p = Key /\ needs'[p] = R
      BY <1>2, <1>8, <2>4, <3>2
    <3> QED BY <1>5, <3>1, <3>2
  <2> QED BY <1>5, <2>1, <2>2, <2>3, <2>4 DEF Walking, Parents, Keys
<1>10. Reaching'
  <2> SUFFICES ASSUME NEW S \in SUBSET Keys, Holds(S)'
               PROVE  /\ seen' \subseteq S
                      /\ \A p \in Parents, c \in Keys : <<p, c>> \in Pending' => c \in S
    BY DEF Reaching, Parents, Keys
  <2>1. needs[Root] \subseteq S /\ \A p \in S : RequiredBy(p)' \subseteq S
    BY <1>3, <1>5 DEF Holds
  <2>2. \A p \in S : RequiredBy(p) \subseteq S
    <3> SUFFICES ASSUME NEW p \in S, p \in DOMAIN needs PROVE needs[p] \subseteq S
      BY DEF RequiredBy
    <3>1. RequiredBy(p)' = needs[p]
      BY <1>5 DEF RequiredBy
    <3> QED BY <2>1, <3>1
  <2>3. Holds(S)
    BY <2>1, <2>2 DEF Holds
  <2>4. seen \subseteq S /\ \A p \in Parents, c \in Keys : <<p, c>> \in Pending => c \in S
    BY <2>3 DEF Reaching
  <2>5. Key \in S
    BY <1>1, <2>4
  <2>6. R \subseteq S
    <3>1. ASSUME NEW k, k = Key, k \in DOMAIN needs' PROVE R \subseteq S
      <4>1. RequiredBy(k)' = R
        BY <1>3, <1>5, <3>1 DEF RequiredBy
      <4> QED BY <2>1, <2>5, <3>1, <4>1
    <3> QED BY <1>5, <3>1
  <2> QED BY <1>1, <1>2, <1>8, <2>4, <2>5, <2>6
<1> QED BY <1>9, <1>10

\* a name whose key was looked up already
LEMMA RevisitWalks ==
  ASSUME SbomTypeOK, Walking, Reaching, Revisit
  PROVE  Walking' /\ Reaching'
<1> DEFINE h == Head(todo)[1]
<1>1. /\ h \in Parents /\ Key \in Keys /\ Key \in seen
      /\ \A x : x \in Pending <=> x = <<h, Key>> \/ x \in Pending'
  <2>1. todo # <<>> /\ Key \in seen /\ todo' = Tail(todo)
    BY DEF Revisit
  <2>2. Pending' = PendingOf(Tail(todo))
    BY <2>1 DEF Pending, PendingOf
  <2> QED BY <2>1, <2>2, NextAsked
<1>2. edges' = IF h = Key THEN edges ELSE edges \cup {<<h, Key>>}
  BY DEF Revisit, WithEdge
<1>3. UNCHANGED <<transitive, seen, walked, needs>>
  BY DEF Revisit
<1> HIDE DEF h
<1>4. Walking'
  <2>1. \A p \in Parents, c \in Keys :
          <<p, c>> \in edges' \cup Pending' => p \in DOMAIN needs /\ c \in needs[p]
    BY <1>1, <1>2 DEF Walking
  <2>2. \A p \in Parents : <<p, p>> \notin edges'
    BY <1>2 DEF Walking
  <2>3. \A p \in DOMAIN needs : \A c \in needs[p] :
          <<p, c>> \in Pending' \/ (c \in seen /\ (c = p \/ <<p, c>> \in edges'))
    BY <1>1, <1>2 DEF Walking
  <2> QED BY <1>3, <2>1, <2>2, <2>3 DEF Walking, Parents, Keys
<1>5. Reaching'
  <2> SUFFICES ASSUME NEW S \in SUBSET Keys, Holds(S)
               PROVE  /\ seen \subseteq S
                      /\ \A p \in Parents, c \in Keys : <<p, c>> \in Pending' => c \in S
    BY <1>3 DEF Reaching, Parents, Keys, Holds, RequiredBy
  <2> QED BY <1>1 DEF Reaching
<1> QED BY <1>4, <1>5

-----------------------------------------------------------------------------
(* Components and what is exported of them.                                *)

ExportedPart ==
  /\ Exported \in Seq(Component) /\ Len(Exported) \in Nat /\ Len(Exported) <= Len(comps)
  /\ \E q \in [1..Len(Exported) -> 1..Len(comps)] :
       /\ \A k \in 1..Len(Exported) : Exported[k] = comps[q[k]] /\ comps[q[k]].installed
       /\ \A k, l \in 1..Len(Exported) : q[k] = q[l] => k = l
       /\ \A i \in 1..Len(comps) : comps[i].installed => \E k \in 1..Len(Exported) : q[k] = i

CompsOK == comps \in Seq(Component)

LEMMA ExportedIs == CompsOK => ExportedPart
<1> SUFFICES ASSUME comps \in Seq(Component) PROVE ExportedPart
  BY DEF CompsOK
<1> DEFINE S == {i \in 1..Len(comps) : comps[i].installed}
<1>1. S \in SUBSET (1..Len(comps)) /\ Exported = At(comps, S)
  BY DEF Exported
<1>2. \A i : i \in S <=> i \in 1..Len(comps) /\ comps[i].installed
  OBVIOUS
<1> HIDE DEF S
<1>3. /\ Exported \in Seq(Component) /\ Len(Exported) \in Nat /\ Len(Exported) <= Len(comps)
      /\ \E q \in [1..Len(Exported) -> S] :
           /\ \A k \in 1..Len(Exported) : Exported[k] = comps[q[k]]
           /\ \A k, l \in 1..Len(Exported) : q[k] = q[l] => k = l
           /\ \A i \in S : \E k \in 1..Len(Exported) : q[k] = i
  <2> DEFINE x == At(comps, S)
  <2>1. /\ x \in Seq(Component) /\ Len(x) \in Nat /\ Len(x) <= Len(comps)
        /\ \E q \in [1..Len(x) -> S] :
             /\ \A k \in 1..Len(x) : x[k] = comps[q[k]]
             /\ \A k, l \in 1..Len(x) : q[k] = q[l] => k = l
             /\ \A i \in S : \E k \in 1..Len(x) : q[k] = i
    BY <1>1, AtIs, SMTT(20)
  <2>2. Exported = x
    BY <1>1
  <2> HIDE DEF x
  <2> QED BY <2>1, <2>2
<1>4. PICK q \in [1..Len(Exported) -> S] :
           /\ \A k \in 1..Len(Exported) : Exported[k] = comps[q[k]]
           /\ \A k, l \in 1..Len(Exported) : q[k] = q[l] => k = l
           /\ \A i \in S : \E k \in 1..Len(Exported) : q[k] = i
  BY <1>3
<1>5. \A k \in 1..Len(Exported) : q[k] \in 1..Len(comps) /\ comps[q[k]].installed
  BY <1>2, <1>4
<1>6. q \in [1..Len(Exported) -> 1..Len(comps)]
  BY <1>4, <1>5
<1>7. \A i \in 1..Len(comps) : comps[i].installed => \E k \in 1..Len(Exported) : q[k] = i
  BY <1>2, <1>4
<1>8. \A k, l \in 1..Len(Exported) : q[k] = q[l] => k = l
  BY <1>4
<1>9. \A k \in 1..Len(Exported) : Exported[k] = comps[q[k]] /\ comps[q[k]].installed
  BY <1>4, <1>5
<1>10. \E f \in [1..Len(Exported) -> 1..Len(comps)] :
          /\ \A k \in 1..Len(Exported) : Exported[k] = comps[f[k]] /\ comps[f[k]].installed
          /\ \A k, l \in 1..Len(Exported) : f[k] = f[l] => k = l
          /\ \A i \in 1..Len(comps) : comps[i].installed => \E k \in 1..Len(Exported) : f[k] = i
  BY <1>6, <1>7, <1>8, <1>9, Zenon
<1> QED BY <1>3, <1>10, Zenon DEF ExportedPart

LEMMA OneMore ==
  ASSUME SbomTypeOK, OneOfEach, NEW k \in Keys, k \notin seen, NEW b \in BOOLEAN, seen' = seen \cup {k},
         comps' = Append(comps, [key |-> k, installed |-> b, ref |-> <<k>>])
  PROVE  OneOfEach' /\ comps' \in Seq(Component) /\ Len(comps') <= MaxComps
<1> DEFINE c == [key |-> k, installed |-> b, ref |-> <<k>>]
<1>1. c \in Component /\ c.key = k
  BY KeysAre DEF Component
<1> HIDE DEF c
<1>2. /\ comps' \in Seq(Component) /\ Len(comps') = Len(comps) + 1 /\ Len(comps) \in Nat
      /\ \A i \in 1..Len(comps) : comps'[i] = comps[i]
      /\ comps'[Len(comps) + 1].key = k
  BY <1>1, Appended DEF SbomTypeOK, c
<1>3. IsFiniteSet(seen) /\ IsFiniteSet(seen') /\ seen' \subseteq Keys
  <2>1. seen \in SUBSET Keys /\ seen' \in SUBSET Keys
    BY DEF SbomTypeOK
  <2> QED BY <2>1, KeysAre, FS_Subset
<1>4. Cardinality(seen') = Cardinality(seen) + 1
  BY <1>3, FS_AddElement
<1>5. Cardinality(seen') <= MaxComps
  <2>1. Cardinality(seen') <= Cardinality(Keys)
    BY <1>3, KeysAre, FS_Subset
  <2>2. Cardinality(Keys) <= Cardinality(Names) /\ Len(Packages) \in Nat
    BY KeysAre, SbomAssumption
  <2>3. Cardinality(seen') \in Nat /\ Cardinality(Keys) \in Nat /\ Cardinality(Names) \in Nat
    BY <1>3, KeysAre, SbomAssumption, FS_CardinalityType
  <2> QED BY <2>1, <2>2, <2>3 DEF MaxComps
<1>6. \A i \in 1..Len(comps') : i \in 1..Len(comps) \/ i = Len(comps) + 1
  BY <1>2
<1>7. \A i \in 1..Len(comps) : i \in 1..Len(comps')
  BY <1>2
<1>8. Len(comps) + 1 \in 1..Len(comps')
  BY <1>2
<1>9. OneOfEach'
  <2>1. \A i \in 1..Len(comps') : comps'[i].key \in seen'
    BY <1>2, <1>6 DEF OneOfEach
  <2>2. \A l \in seen' : \E i \in 1..Len(comps') : comps'[i].key = l
    BY <1>2, <1>7, <1>8 DEF OneOfEach
  <2>3. \A i, j \in 1..Len(comps') : comps'[i].key = comps'[j].key => i = j
    BY <1>2, <1>6 DEF OneOfEach
  <2>4. Len(comps') = Cardinality(seen')
    BY <1>2, <1>4 DEF OneOfEach
  <2> QED BY <2>1, <2>2, <2>3, <2>4 DEF OneOfEach
<1> QED BY <1>2, <1>4, <1>5, <1>9 DEF OneOfEach

-----------------------------------------------------------------------------
(* Every step keeps the invariant.                                         *)

LEMMA MarkedKept == ASSUME Marked, UNCHANGED spdxVars PROVE Marked'
<1>1. UNCHANGED <<document, roots, licOf>>
  BY DEF spdxVars
<1>2. \A kind, id : Licences(kind, id)' = Licences(kind, id)
  BY <1>1 DEF Licences
<1> QED BY <1>1, <1>2 DEF Marked

LEMMA SbomInit == Init => BInv
<1> SUFFICES ASSUME Init PROVE BInv
  OBVIOUS
<1> USE DEF Init
<1>1. SbomTypeOK
  <2>1. comps \in Seq(Component) /\ Len(comps) = 0
    OBVIOUS
  <2>2. ExportedPart
    BY <2>1, ExportedIs DEF CompsOK
  <2>3. 0 <= MaxComps
    BY SbomAssumption, FS_CardinalityType DEF MaxComps
  <2>4. refs \in Seq(Seq(STRING)) /\ Len(refs) = 0
    OBVIOUS
  <2>5. todo \in Seq(Ask)
    OBVIOUS
  <2>6. Len(comps) <= MaxComps /\ Len(refs) <= Len(Exported)
    BY <2>1, <2>2, <2>3, <2>4 DEF ExportedPart
  <2>7. /\ job \in {"none", "installed", "document", "graph", "indexed"} /\ transitive \in BOOLEAN
        /\ seen \subseteq Keys /\ walked \subseteq seen /\ edges \subseteq Parents \X seen
    OBVIOUS
  <2> QED BY <2>1, <2>4, <2>5, <2>6, <2>7 DEF SbomTypeOK
<1>2. Marked
  <2>1. document \in Seq(Elements) /\ Len(document) = 0 /\ DOMAIN licOf = {}
    OBVIOUS
  <2> QED BY <2>1 DEF Marked
<1>3. Apart /\ ~Done
  BY DEF Apart, Done
<1> QED BY <1>1, <1>2, <1>3 DEF BInv

\* a distribution that is looked up, installed or not
LEMMA VisitStep ==
  ASSUME BInv, job = "installed", todo # <<>>, Key \notin seen, NEW b \in BOOLEAN,
         comps' = Append(comps, [key |-> Key, installed |-> b, ref |-> <<Key>>]),
         edges' = WithEdge, seen' = seen \cup {Key},
         NEW t \in Seq(Ask), todo' = Tail(todo) \o t,
         NEW R \in SUBSET Keys, PendingOf(t) = {Key} \X R,
         \/ transitive /\ walked' = walked \cup {Key} /\ needs' = Put(needs, Key, R)
         \/ R = {} /\ walked' = walked /\ needs' = needs,
         UNCHANGED <<job, transitive, index, spdxVars, refs, bom>>
  PROVE  BInv'
<1>1. /\ SbomTypeOK /\ Walking /\ OneOfEach /\ Reaching /\ refs = <<>> /\ ~Done /\ Marked
  BY DEF BInv
<1>2. Head(todo)[1] \in Parents /\ Key \in Keys /\ Tail(todo) \in Seq(Ask)
  BY <1>1, NextAsked
<1>3. Walking' /\ Reaching'
  BY <1>1, VisitWalks
<1>4. OneOfEach' /\ comps' \in Seq(Component) /\ Len(comps') <= MaxComps
  BY <1>1, <1>2, OneMore
<1>5. SbomTypeOK'
  <2>1. todo' \in Seq(Ask)
    BY <1>2, PendingJoin
  <2>2. seen' \subseteq Keys /\ walked' \subseteq seen' /\ edges' \subseteq Parents \X seen'
    BY <1>1, <1>2 DEF SbomTypeOK, WithEdge
  <2>3. CompsOK' => ExportedPart'
    BY ExportedIs, PTL
  <2>4. refs' \in Seq(Seq(STRING)) /\ Len(refs') = 0
    BY <1>1
  <2>5. Len(refs') <= Len(Exported)'
    BY <1>4, <2>3, <2>4 DEF ExportedPart, CompsOK
  <2> QED BY <1>1, <1>4, <2>1, <2>2, <2>4, <2>5 DEF SbomTypeOK, Parents, Ask, Keys, MaxComps, Component
<1>6. Marked'
  BY <1>1, MarkedKept
<1>7. Apart' /\ ~Done'
  BY <1>1 DEF Apart, Done
<1> QED BY <1>1, <1>3, <1>4, <1>5, <1>6, <1>7 DEF BInv

LEMMA NoneAsked == ASSUME NEW k PROVE <<>> \in Seq(Ask) /\ PendingOf(<<>>) = {k} \X {}
  BY DEF PendingOf

LEMMA NothingJoined ==
  ASSUME NEW T, NEW s \in Seq(T)
  PROVE  s = s \o <<>>
  OBVIOUS

LEMMA LookUpStep ==
  ASSUME BInv, NEW reqs \in Requires, LookUp(reqs)
  PROVE  BInv'
<1> DEFINE t == IF transitive THEN AsksOf(Key, reqs) ELSE <<>>
           R == IF transitive THEN RequiredHere(reqs) ELSE {}
<1>1. /\ job = "installed" /\ todo # <<>> /\ Key \notin seen
      /\ edges' = WithEdge /\ seen' = seen \cup {Key}
      /\ comps' = Append(comps, [key |-> Key, installed |-> TRUE, ref |-> <<Key>>])
      /\ UNCHANGED <<job, transitive, index, spdxVars, refs, bom>>
  BY DEF LookUp
<1>2. Key \in Keys /\ Tail(todo) \in Seq(Ask)
  BY <1>1, NextAsked DEF BInv
<1>3. t \in Seq(Ask) /\ R \in SUBSET Keys /\ PendingOf(t) = {Key} \X R
  BY <1>2, AsksAre, NoneAsked
<1>4. todo' = Tail(todo) \o t
  <2>1. CASE transitive
    BY <2>1 DEF LookUp, AsksOf
  <2>2. CASE ~transitive
    BY <1>2, <2>2, NothingJoined DEF LookUp
  <2> QED BY <2>1, <2>2
<1>5. \/ transitive /\ walked' = walked \cup {Key} /\ needs' = Put(needs, Key, R)
      \/ R = {} /\ walked' = walked /\ needs' = needs
  BY DEF LookUp
<1> HIDE DEF t, R
<1> QED BY <1>1, <1>3, <1>4, <1>5, VisitStep

LEMMA NotInstalledStep ==
  ASSUME BInv, NotInstalled
  PROVE  BInv'
<1>1. /\ job = "installed" /\ todo # <<>> /\ Key \notin seen
      /\ edges' = WithEdge /\ seen' = seen \cup {Key} /\ todo' = Tail(todo)
      /\ comps' = Append(comps, [key |-> Key, installed |-> FALSE, ref |-> <<Key>>])
      /\ UNCHANGED <<job, transitive, walked, needs, index, spdxVars, refs, bom>>
  BY DEF NotInstalled
<1>2. Tail(todo) \in Seq(Ask)
  BY <1>1, NextAsked DEF BInv
<1>3. todo' = Tail(todo) \o <<>>
  BY <1>1, <1>2, NothingJoined
<1>4. <<>> \in Seq(Ask) /\ {} \in SUBSET Keys /\ PendingOf(<<>>) = {Key} \X {} /\ FALSE \in BOOLEAN
  BY NoneAsked
<1> QED BY <1>1, <1>3, <1>4, VisitStep

LEMMA RevisitStep ==
  ASSUME BInv, Revisit
  PROVE  BInv'
<1>1. /\ job = "installed" /\ todo # <<>> /\ Key \in seen /\ edges' = WithEdge /\ todo' = Tail(todo)
      /\ UNCHANGED <<job, transitive, seen, walked, comps, needs, index, spdxVars, refs, bom>>
  BY DEF Revisit
<1>2. /\ SbomTypeOK /\ Walking /\ OneOfEach /\ Reaching /\ refs = <<>> /\ ~Done /\ Marked /\ Apart
  BY <1>1 DEF BInv
<1>3. Walking' /\ Reaching'
  BY <1>2, RevisitWalks
<1>4. SbomTypeOK'
  <2>1. Head(todo)[1] \in Parents /\ Tail(todo) \in Seq(Ask)
    BY <1>1, <1>2, NextAsked
  <2>2. edges' \subseteq Parents \X seen
    BY <1>1, <1>2, <2>1 DEF SbomTypeOK, WithEdge
  <2>3. Exported' = Exported
    BY <1>1 DEF Exported
  <2> QED BY <1>1, <1>2, <2>1, <2>2, <2>3
          DEF SbomTypeOK, Parents, Ask, Keys, MaxComps, Component
<1>5. OneOfEach'
  BY <1>1, <1>2 DEF OneOfEach
<1>6. Marked'
  BY <1>1, <1>2, MarkedKept
<1>7. Apart' /\ ~Done'
  BY <1>1, <1>2 DEF Apart, Done
<1> QED BY <1>1, <1>2, <1>3, <1>4, <1>5, <1>6, <1>7 DEF BInv

LEMMA StartStep ==
  ASSUME BInv, NEW top \in TopLevels, NEW b \in BOOLEAN, StartWalk(top, b)
  PROVE  BInv'
<1> DEFINE T == KeysOf(top)
<1>1. /\ job = "none" /\ job' = "installed" /\ transitive' = b
      /\ todo' = [i \in 1..Len(top) |-> <<Root, top[i]>>]
      /\ needs' = [k \in {Root} |-> T]
      /\ UNCHANGED <<seen, edges, walked, comps, index, spdxVars, refs, bom>>
  BY DEF StartWalk
<1>2. /\ SbomTypeOK /\ edges = {} /\ comps = <<>> /\ seen = {} /\ walked = {} /\ refs = <<>>
      /\ ~Done /\ Marked /\ Apart
  BY <1>1 DEF BInv
<1>3. /\ top \in Seq(Names) /\ Len(top) \in Nat /\ \A i \in 1..Len(top) : top[i] \in Names
  BY SbomAssumption
<1>4. T \subseteq Keys
  BY <1>3, KeysAre DEF KeysOf
<1>5. /\ todo' \in Seq(Ask) /\ Len(todo') = Len(top)
      /\ \A i \in 1..Len(top) : todo'[i] = <<Root, top[i]>>
  <2>1. \A i \in 1..Len(top) : <<Root, top[i]>> \in Ask
    BY <1>3 DEF Ask, Parents
  <2> QED BY <1>1, <1>3, <2>1
<1>6. \A p, c : <<p, c>> \in Pending' <=> p = Root /\ c \in T
  <2>1. Pending' = {<<Root, NormKey[top[i]]>> : i \in 1..Len(top)}
    BY <1>5 DEF Pending, PendingOf
  <2> QED BY <2>1 DEF KeysOf
<1> HIDE DEF T
<1>7. DOMAIN needs' = {Root} /\ needs'[Root] = T
  BY <1>1
<1>8. Walking'
  <2>1. \A p \in DOMAIN needs' : needs'[p] \subseteq Keys
    BY <1>4, <1>7
  <2>2. \A p, c : <<p, c>> \in edges' \cup Pending' => p \in DOMAIN needs' /\ c \in needs'[p]
    BY <1>1, <1>2, <1>6, <1>7
  <2>3. \A p \in DOMAIN needs' : \A c \in needs'[p] : <<p, c>> \in Pending'
    BY <1>6, <1>7
  <2> QED BY <1>1, <1>2, <1>7, <2>1, <2>2, <2>3 DEF Walking, Parents, Keys
<1>9. OneOfEach'
  BY <1>1, <1>2, FS_EmptySet DEF OneOfEach
<1>10. Reaching'
  <2> SUFFICES ASSUME NEW S \in SUBSET Keys, Holds(S)'
               PROVE  seen' \subseteq S /\ \A p, c : <<p, c>> \in Pending' => c \in S
    BY DEF Reaching, Parents, Keys
  <2>1. T \subseteq S
    BY <1>7 DEF Holds
  <2> QED BY <1>1, <1>2, <1>6, <2>1
<1>11. SbomTypeOK'
  <2>1. Exported' = Exported
    BY <1>1 DEF Exported
  <2> QED BY <1>1, <1>2, <1>5, <2>1 DEF SbomTypeOK, Parents, Ask, Keys, MaxComps, Component
<1>12. Marked'
  BY <1>1, <1>2, MarkedKept
<1>13. Apart' /\ ~Done'
  BY <1>1, <1>2 DEF Apart, Done
<1> QED BY <1>1, <1>2, <1>8, <1>9, <1>10, <1>11, <1>12, <1>13 DEF BInv

LEMMA WalkKept ==
  ASSUME Walking, OneOfEach, Reaching, UNCHANGED <<transitive, todo, seen, edges, walked, comps, needs>>
  PROVE  (Walking /\ OneOfEach /\ Reaching)'
<1>1. Pending' = Pending
  BY DEF Pending
<1>2. Walking'
  BY <1>1 DEF Walking, Parents, Keys
<1>3. OneOfEach'
  BY DEF OneOfEach
<1>4. \A k : RequiredBy(k)' = RequiredBy(k)
  BY DEF RequiredBy
<1>5. \A S : Holds(S)' => Holds(S)
  BY <1>4 DEF Holds
<1>6. Reaching'
  BY <1>1, <1>5 DEF Reaching, Parents, Keys
<1> QED BY <1>2, <1>3, <1>6

LEMMA BaseRefIs ==
  ASSUME NEW p \in Package
  PROVE  BaseRef(p) \in Seq(STRING)
<1>1. p.purl \in Seq(STRING) /\ p.name \in STRING /\ p.version \in STRING
  BY DEF Package
<1>2. <<p.name, p.version>> \in Seq(STRING)
  BY <1>1
<1> DEFINE pair == <<p.name, p.version>>
<1>3. BaseRef(p) = IF p.purl # <<>> THEN p.purl ELSE pair
  BY DEF BaseRef
<1> HIDE DEF pair
<1>4. pair \in Seq(STRING)
  BY <1>2 DEF pair
<1>5. CASE p.purl # <<>>
  BY <1>1, <1>3, <1>5
<1>6. CASE p.purl = <<>>
  BY <1>3, <1>4, <1>6
<1> QED BY <1>5, <1>6

LEMMA IngestStep ==
  ASSUME BInv, NEW listed \in SUBSET {Packages[i] : i \in 1..Len(Packages)}, Ingest(listed)
  PROVE  BInv'
<1> DEFINE S == {i \in 1..Len(Packages) : Packages[i] \in listed}
           kept == At(Packages, S)
<1>1. /\ job = "none" /\ job' = "document"
      /\ comps' = [i \in 1..Len(kept) |-> [key |-> kept[i].name, installed |-> TRUE, ref |-> BaseRef(kept[i])]]
      /\ UNCHANGED <<transitive, todo, seen, edges, walked, needs, index, spdxVars, refs, bom>>
  BY DEF Ingest
<1>2. /\ SbomTypeOK /\ todo = <<>> /\ edges = {} /\ seen = {} /\ walked = {} /\ refs = <<>>
      /\ ~Done /\ Marked /\ Apart
  BY <1>1 DEF BInv
<1>3. kept \in Seq(Package) /\ Len(kept) \in Nat /\ Len(kept) <= Len(Packages)
  <2>1. S \in SUBSET (1..Len(Packages)) /\ Packages \in Seq(Package)
    BY SbomAssumption
  <2> HIDE DEF S
  <2> QED BY <2>1, AtIs
<1> HIDE DEF kept
<1>4. comps' \in Seq(Component) /\ Len(comps') = Len(kept)
  <2>1. ASSUME NEW i \in 1..Len(kept)
        PROVE  [key |-> kept[i].name, installed |-> TRUE, ref |-> BaseRef(kept[i])] \in Component
    <3>1. kept[i] \in Package
      BY <1>3
    <3>2. kept[i].name \in STRING /\ BaseRef(kept[i]) \in Seq(STRING)
      BY <3>1, BaseRefIs DEF Package
    <3> QED BY <3>2 DEF Component
  <2> QED BY <1>1, <1>3, <2>1
<1>5. SbomTypeOK'
  <2>1. Len(comps') <= MaxComps
    <3>1. Len(Packages) \in Nat /\ Cardinality(Names) \in Nat
      BY SbomAssumption, FS_CardinalityType
    <3> QED BY <1>3, <1>4, <3>1 DEF MaxComps
  <2>2. CompsOK' => ExportedPart'
    BY ExportedIs, PTL
  <2>3. refs' \in Seq(Seq(STRING)) /\ Len(refs') <= Len(Exported)'
    BY <1>1, <1>2, <1>4, <2>2 DEF ExportedPart, CompsOK
  <2> QED BY <1>1, <1>2, <1>4, <2>1, <2>3 DEF SbomTypeOK, Parents, Ask, Keys, MaxComps, Component
<1>6. Marked'
  BY <1>1, <1>2, MarkedKept
<1>7. Apart' /\ ~Done'
  BY <1>1, <1>2 DEF Apart, Done
<1> QED BY <1>1, <1>2, <1>5, <1>6, <1>7 DEF BInv

LEMMA MarkStep ==
  ASSUME BInv, NEW e \in Elements, Mark(e)
  PROVE  BInv'
<1>1. /\ job \in {"none", "graph"} /\ job' = "graph"
      /\ document' = Append(document, e)
      /\ roots' = IF e.kind = "root" THEN roots \cup e.roots ELSE roots
      /\ License(e)
      /\ UNCHANGED <<transitive, todo, seen, edges, walked, comps, needs, index, refs, bom>>
  BY DEF Mark
<1>2. /\ SbomTypeOK /\ todo = <<>> /\ edges = {} /\ refs = <<>> /\ ~Done /\ Marked /\ Apart
  BY <1>1 DEF BInv
<1> DEFINE n == Len(document)
<1>3. /\ document' \in Seq(Elements) /\ Len(document') = n + 1 /\ n \in Nat
      /\ \A i \in 1..n : document'[i] = document[i]
      /\ document'[n + 1] = e
  BY <1>1, <1>2, Appended DEF Marked
<1>4. /\ \A i \in 1..Len(document') : i \in 1..n \/ i = n + 1
      /\ \A i \in 1..n : i \in 1..Len(document')
      /\ n + 1 \in 1..Len(document')
  BY <1>3
<1> HIDE DEF n
<1>5. Marked'
  <2>1. \A id : id \in roots' <=> \E i \in 1..Len(document') : document'[i].kind = "root" /\ id \in document'[i].roots
    <3> SUFFICES ASSUME NEW id
                 PROVE  id \in roots' <=> \E i \in 1..Len(document') : document'[i].kind = "root" /\ id \in document'[i].roots
      OBVIOUS
    <3>1. id \in roots <=> \E i \in 1..n : document[i].kind = "root" /\ id \in document[i].roots
      BY <1>2 DEF Marked, n
    <3>2. id \in roots' <=> id \in roots \/ (e.kind = "root" /\ id \in e.roots)
      BY <1>1
    <3> QED BY <1>3, <1>4, <3>1, <3>2
  <2>2. ASSUME NEW kind, NEW id
        PROVE  Licences(kind, id)' =
                 Licences(kind, id) \cup (IF e.kind = kind /\ e.from = id THEN {e.expr} \ {NoLicense} ELSE {})
    <3>1. \A x : x \in Licences(kind, id) <=>
            x # NoLicense /\ \E i \in 1..n : document[i].kind = kind /\ document[i].from = id /\ document[i].expr = x
      BY DEF Licences, n
    <3>2. \A x : x \in Licences(kind, id)' <=>
            x # NoLicense /\ \E i \in 1..Len(document') : document'[i].kind = kind /\ document'[i].from = id /\ document'[i].expr = x
      BY DEF Licences
    <3>3. \A x : x \in Licences(kind, id)' <=>
            x \in Licences(kind, id) \/ (x # NoLicense /\ e.kind = kind /\ e.from = id /\ x = e.expr)
      BY <1>3, <1>4, <3>1, <3>2
    <3> QED BY <3>3
  <2>3. CASE \/ e.kind = "concluded" /\ e.expr # NoLicense
             \/ e.kind = "declared" /\ e.expr # NoLicense /\ e.from \notin DOMAIN licOf
    <3>1. /\ DOMAIN licOf' = DOMAIN licOf \cup {e.from} /\ licOf'[e.from] = e.expr
          /\ \A id \in DOMAIN licOf : id # e.from => licOf'[id] = licOf[id]
      BY <1>1, <2>3 DEF License, Put
    <3>2. ASSUME NEW id \in DOMAIN licOf'
          PROVE  licOf'[id] \in (IF Licences("concluded", id)' # {} THEN Licences("concluded", id)'
                                 ELSE Licences("declared", id)')
      <4>1. CASE id # e.from
        <5>1. /\ Licences("concluded", id)' = Licences("concluded", id)
              /\ Licences("declared", id)' = Licences("declared", id)
          BY <2>2, <4>1
        <5> QED BY <1>2, <3>1, <4>1, <5>1 DEF Marked
      <4>2. CASE id = e.from /\ e.kind = "concluded"
        <5>1. e.expr \in Licences("concluded", id)'
          BY <2>2, <2>3, <4>2
        <5> QED BY <3>1, <4>2, <5>1
      <4>3. CASE id = e.from /\ e.kind # "concluded"
        <5>1. e.kind = "declared" /\ e.expr # NoLicense /\ id \notin DOMAIN licOf
          BY <2>3, <4>3
        <5>2. e.expr \in Licences("declared", id)'
          BY <2>2, <4>3, <5>1
        <5>3. Licences("concluded", id)' = Licences("concluded", id)
          BY <2>2, <4>3
        <5>4. Licences("concluded", id) = {}
          <6> SUFFICES ASSUME NEW x \in Licences("concluded", id) PROVE FALSE
            OBVIOUS
          <6>1. PICK i \in 1..Len(document) :
                  document[i].kind = "concluded" /\ document[i].from = id /\ document[i].expr # NoLicense
            BY DEF Licences
          <6> QED BY <1>2, <5>1, <6>1 DEF Marked
        <5> QED BY <3>1, <4>3, <5>2, <5>3, <5>4
      <4> QED BY <4>1, <4>2, <4>3
    <3>3. \A i \in 1..Len(document') :
            document'[i].kind \in {"concluded", "declared"} /\ document'[i].expr # NoLicense
              => document'[i].from \in DOMAIN licOf'
      BY <1>2, <1>3, <1>4, <3>1 DEF Marked, n
    <3> QED BY <1>3, <2>1, <3>2, <3>3 DEF Marked
  <2>4. CASE ~ \/ e.kind = "concluded" /\ e.expr # NoLicense
               \/ e.kind = "declared" /\ e.expr # NoLicense /\ e.from \notin DOMAIN licOf
    <3>1. licOf' = licOf
      BY <1>1, <2>4 DEF License
    <3>2. ASSUME NEW id \in DOMAIN licOf
          PROVE  licOf[id] \in (IF Licences("concluded", id)' # {} THEN Licences("concluded", id)'
                                ELSE Licences("declared", id)')
      <4>1. Licences("concluded", id)' = Licences("concluded", id)
        BY <2>2, <2>4
      <4>2. Licences("declared", id) \subseteq Licences("declared", id)'
        BY <2>2
      <4> QED BY <1>2, <4>1, <4>2 DEF Marked
    <3>3. \A i \in 1..Len(document') :
            document'[i].kind \in {"concluded", "declared"} /\ document'[i].expr # NoLicense
              => document'[i].from \in DOMAIN licOf
      BY <1>2, <1>3, <1>4, <2>4 DEF Marked, n
    <3> QED BY <1>3, <2>1, <3>1, <3>2, <3>3 DEF Marked
  <2> QED BY <2>3, <2>4
<1>6. SbomTypeOK'
  <2>1. Exported' = Exported
    BY <1>1 DEF Exported
  <2> QED BY <1>1, <1>2, <2>1 DEF SbomTypeOK, Parents, Ask, Keys, MaxComps, Component
<1>7. Apart' /\ ~Done'
  BY <1>1, <1>2 DEF Apart, Done
<1> QED BY <1>1, <1>2, <1>5, <1>6, <1>7 DEF BInv

LEMMA CollectStep ==
  ASSUME BInv, Collect
  PROVE  BInv'
<1>1. /\ job = "graph" /\ job' = "indexed" /\ index' = Indexed
      /\ UNCHANGED <<transitive, todo, seen, edges, walked, comps, needs, spdxVars, refs, bom>>
  BY DEF Collect
<1>2. /\ SbomTypeOK /\ todo = <<>> /\ edges = {} /\ refs = <<>> /\ ~Done /\ Marked /\ Apart
  BY <1>1 DEF BInv
<1>3. SbomTypeOK'
  <2>1. Exported' = Exported
    BY <1>1 DEF Exported
  <2> QED BY <1>1, <1>2, <2>1 DEF SbomTypeOK, Parents, Ask, Keys, MaxComps, Component
<1>4. Marked'
  BY <1>1, <1>2, MarkedKept
<1>5. Indexed' = Indexed
  BY <1>1 DEF Indexed, spdxVars
<1>6. Apart' /\ ~Done'
  BY <1>1, <1>2 DEF Apart, Done
<1> QED BY <1>1, <1>2, <1>3, <1>4, <1>5, <1>6 DEF BInv

\* neither the components nor the references change, and nothing is left to look up: the export is the same
LEMMA OutputSame ==
  ASSUME UNCHANGED <<edges, walked, comps, refs>>
  PROVE  Output' = Output /\ Exported' = Exported /\ Used' = Used
<1>1. Exported' = Exported
  BY DEF Exported
<1>2. Used' = Used
  BY DEF Used
<1>3. PrimaryRef' = PrimaryRef
  BY <1>2 DEF PrimaryRef
<1>4. RefOf' = RefOf
  BY <1>1, <1>3 DEF RefOf
<1>5. Output' = Output
  BY <1>2, <1>3, <1>4 DEF Output
<1> QED BY <1>1, <1>2, <1>5

LEMMA AssignStep ==
  ASSUME BInv, AssignRef
  PROVE  BInv'
<1> DEFINE n == Len(refs)
           r == Fresh(Exported[n + 1].ref)
<1>1. /\ job \in {"installed", "document"} /\ todo = <<>> /\ n < Len(Exported) /\ refs' = Append(refs, r)
      /\ UNCHANGED <<job, transitive, todo, seen, edges, walked, comps, needs, index, spdxVars, bom>>
  BY DEF AssignRef
<1>2. SbomTypeOK /\ Apart /\ Marked /\ ~Done /\ ExportedPart
  BY <1>1, ExportedIs DEF BInv, SbomTypeOK, CompsOK
<1>3. n \in Nat /\ n <= MaxComps /\ n + 1 \in 1..Len(Exported) /\ MaxComps \in Nat
  <2>1. Len(refs) \in Nat /\ Len(comps) \in Nat /\ Len(comps) <= MaxComps
    BY <1>2 DEF SbomTypeOK
  <2>2. Len(Exported) \in Nat /\ Len(Exported) <= Len(comps)
    BY <1>2 DEF ExportedPart
  <2>3. MaxComps \in Nat
    BY SbomAssumption, FS_CardinalityType DEF MaxComps
  <2> QED BY <1>1, <2>1, <2>2, <2>3
<1>4. Exported[n + 1].ref \in Seq(STRING)
  <2>1. Exported[n + 1] \in Component
    BY <1>2, <1>3 DEF ExportedPart
  <2> QED BY <2>1 DEF Component
<1>5. r \in Seq(STRING) /\ r \notin Used
  BY <1>2, <1>3, <1>4, FreshIs DEF SbomTypeOK
<1> HIDE DEF r
<1>6. /\ refs' \in Seq(Seq(STRING)) /\ Len(refs') = n + 1
      /\ \A i \in 1..n : refs'[i] = refs[i]
      /\ refs'[n + 1] = r
  BY <1>1, <1>2, <1>5, Appended DEF SbomTypeOK
<1>7. \A i \in 1..Len(refs') : i \in 1..n \/ i = n + 1
  BY <1>3, <1>6
<1>8. \A i \in 1..n : refs[i] # r
  BY <1>2, <1>5, UsedIs DEF SbomTypeOK
<1>9. Apart'
  <2> SUFFICES ASSUME NEW i \in 1..Len(refs'), NEW j \in 1..Len(refs'), refs'[i] = refs'[j]
               PROVE  i = j
    BY DEF Apart
  <2> QED BY <1>2, <1>6, <1>7, <1>8 DEF Apart
<1>10. Exported' = Exported
  BY <1>1 DEF Exported
<1>11. SbomTypeOK'
  <2>1. Len(refs') <= Len(Exported)
    BY <1>3, <1>6
  <2> QED BY <1>1, <1>2, <1>6, <1>10, <2>1 DEF SbomTypeOK, Parents, Ask, Keys, MaxComps, Component
<1>12. Marked'
  BY <1>1, <1>2, MarkedKept
<1>13. job = "installed" => (Walking /\ OneOfEach /\ Reaching)'
  BY <1>1, WalkKept DEF BInv
<1>14. ~Done'
  BY <1>1, <1>2 DEF Done
<1> QED BY <1>1, <1>2, <1>9, <1>11, <1>12, <1>13, <1>14 DEF BInv

\* a step that leaves all but the export alone
LEMMA NothingElse ==
  ASSUME BInv,
         UNCHANGED <<job, transitive, todo, seen, edges, walked, comps, needs, index, spdxVars, refs>>,
         bom' = bom \/ (/\ bom' = Output /\ todo = <<>> /\ Len(refs) = Len(Exported)
                        /\ job \in {"installed", "document"})
  PROVE  BInv'
<1>1. SbomTypeOK /\ Apart /\ Marked
  BY DEF BInv
<1>2. Output' = Output /\ Exported' = Exported
  BY OutputSame
<1>3. SbomTypeOK'
  BY <1>1, <1>2 DEF SbomTypeOK, Parents, Ask, Keys, MaxComps, Component
<1>4. Apart'
  BY <1>1 DEF Apart
<1>5. Marked'
  BY <1>1, MarkedKept
<1>6. job = "installed" => (Walking /\ OneOfEach /\ Reaching)'
  BY WalkKept DEF BInv
<1>7. Done' => bom' = Output' /\ todo' = <<>> /\ Len(refs') = Len(Exported') /\ job' \in {"installed", "document"}
  BY <1>2 DEF BInv, Done
<1>8. job = "indexed" => (index = Indexed)'
  <2>1. Indexed' = Indexed
    BY DEF Indexed, spdxVars
  <2> QED BY <1>7, <2>1 DEF BInv, Done
<1> QED BY <1>1, <1>3, <1>4, <1>5, <1>6, <1>7, <1>8 DEF BInv

LEMMA SbomInvariant == BInv /\ [Next]_vars => BInv'
<1> SUFFICES ASSUME BInv, [Next]_vars PROVE BInv'
  OBVIOUS
<1>1. CASE \E top \in TopLevels, t \in BOOLEAN : StartWalk(top, t)
  BY <1>1, StartStep
<1>2. CASE \E listed \in SUBSET {Packages[i] : i \in 1..Len(Packages)} : Ingest(listed)
  BY <1>2, IngestStep
<1>3. CASE \E e \in Elements : Mark(e)
  BY <1>3, MarkStep
<1>4. CASE Collect
  BY <1>4, CollectStep
<1>5. CASE Revisit
  BY <1>5, RevisitStep
<1>6. CASE NotInstalled
  BY <1>6, NotInstalledStep
<1>7. CASE \E reqs \in Requires : LookUp(reqs)
  BY <1>7, LookUpStep
<1>8. CASE AssignRef
  BY <1>8, AssignStep
<1>9. CASE Export
  BY <1>9, NothingElse DEF Export
<1>10. CASE UNCHANGED vars
  BY <1>10, NothingElse DEF vars
<1> QED BY <1>1, <1>2, <1>3, <1>4, <1>5, <1>6, <1>7, <1>8, <1>9, <1>10 DEF Next, WalkStep

LEMMA SbomAlways == Spec => []BInv
BY SbomInit, SbomInvariant, PTL DEF Spec

-----------------------------------------------------------------------------
(* What the export says.                                                   *)

LEMMA RefOfIs ==
  ASSUME SbomTypeOK, OneOfEach, Len(refs) = Len(Exported)
  PROVE  /\ DOMAIN RefOf = InstalledKeys \cup {Root} /\ RefOf[Root] = PrimaryRef
         /\ InstalledKeys \subseteq seen /\ Root \notin InstalledKeys
         /\ \A k \in InstalledKeys :
              /\ RefOf[k] = refs[CHOOSE i \in 1..Len(refs) : Exported[i].key = k]
              /\ RefOf[k] \in Used
              /\ \E i \in 1..Len(refs) : Exported[i].key = k /\ RefOf[k] = refs[i]
<1>1. ExportedPart
  BY ExportedIs DEF SbomTypeOK, CompsOK
<1>2. InstalledKeys \subseteq seen /\ Root \notin InstalledKeys
  <2>1. ASSUME NEW k \in InstalledKeys PROVE k \in seen
    <3>1. PICK i \in 1..Len(Exported) : Exported[i].key = k
      BY DEF InstalledKeys
    <3>2. PICK j \in 1..Len(comps) : Exported[i] = comps[j]
      BY <1>1 DEF ExportedPart
    <3> QED BY <3>1, <3>2 DEF OneOfEach
  <2> QED BY <2>1, KeysAre DEF SbomTypeOK
<1>3. DOMAIN RefOf = InstalledKeys \cup {Root} /\ RefOf[Root] = PrimaryRef
  BY DEF RefOf, InstalledKeys
<1>4. ASSUME NEW k \in InstalledKeys
      PROVE  /\ RefOf[k] = refs[CHOOSE i \in 1..Len(refs) : Exported[i].key = k]
             /\ RefOf[k] \in Used
             /\ \E i \in 1..Len(refs) : Exported[i].key = k /\ RefOf[k] = refs[i]
  <2> DEFINE c == CHOOSE i \in 1..Len(refs) : Exported[i].key = k
  <2>1. \E i \in 1..Len(refs) : Exported[i].key = k
    BY DEF InstalledKeys
  <2>2. c \in 1..Len(refs) /\ Exported[c].key = k
    BY <2>1
  <2>3. RefOf[k] = refs[c]
    BY <1>2 DEF RefOf, InstalledKeys
  <2>4. refs[c] \in Used
    BY <2>2 DEF Used
  <2> QED BY <2>2, <2>3, <2>4
<1> QED BY <1>2, <1>3, <1>4

\* the things at the end of an edge
LEMMA WalkOver ==
  ASSUME BInv, Done, job = "installed"
  PROVE  /\ SbomTypeOK /\ Walking /\ OneOfEach /\ Reaching /\ Apart /\ bom = Output
         /\ Len(refs) = Len(Exported) /\ Pending = {}
         /\ DOMAIN needs = {Root} \cup walked /\ \A p \in DOMAIN needs : p \in Parents /\ needs[p] \subseteq seen
         /\ \A p, c : <<p, c>> \in edges <=> p \in DOMAIN needs /\ c \in needs[p] \ {p}
<1>1. /\ SbomTypeOK /\ Walking /\ OneOfEach /\ Reaching /\ Apart /\ bom = Output
      /\ Len(refs) = Len(Exported) /\ todo = <<>>
  BY DEF BInv
<1>2. Pending = {}
  BY <1>1 DEF Pending, PendingOf
<1>3. DOMAIN needs = {Root} \cup walked /\ \A p \in DOMAIN needs : p \in Parents /\ needs[p] \subseteq seen
  BY <1>1, <1>2 DEF Walking, Parents, SbomTypeOK
<1>4. ASSUME NEW p, NEW c
      PROVE  <<p, c>> \in edges <=> p \in DOMAIN needs /\ c \in needs[p] \ {p}
  <2>1. <<p, c>> \in edges => p \in Parents /\ c \in Keys
    BY <1>1 DEF SbomTypeOK
  <2> QED BY <1>1, <1>2, <1>3, <2>1 DEF Walking
<1> QED BY <1>1, <1>2, <1>3, <1>4

LEMMA RowsAre ==
  ASSUME NEW refOf, NEW es, NEW read, NEW row \in Rows(refOf, es, read)
  PROVE  \E p \in {Root} \cup (read \cap DOMAIN refOf) :
           /\ \A c : <<p, c>> \in es => c \in DOMAIN refOf
           /\ row.ref = refOf[p]
           /\ row.on = {refOf[c] : c \in {e[2] : e \in {f \in es : f[1] = p}}}
BY DEF Rows

LEMMA RowIs ==
  ASSUME BInv, Done, NEW row \in bom.rows
  PROVE  /\ job = "installed" /\ edges # {}
         /\ \E p \in {Root} \cup (walked \cap InstalledKeys) :
              /\ needs[p] \ {p} \subseteq InstalledKeys
              /\ row.ref = RefOf[p]
              /\ row.on = {RefOf[c] : c \in needs[p] \ {p}}
<1>1. bom = Output /\ (job # "installed" => edges = {})
  BY DEF BInv
<1>2. edges # {} /\ row \in Rows(RefOf, edges, walked)
  BY <1>1 DEF Output
<1>3. job = "installed"
  BY <1>1, <1>2
<1>4. /\ SbomTypeOK /\ OneOfEach /\ Len(refs) = Len(Exported)
      /\ DOMAIN needs = {Root} \cup walked /\ \A p \in DOMAIN needs : needs[p] \subseteq seen
      /\ \A p, c : <<p, c>> \in edges <=> p \in DOMAIN needs /\ c \in needs[p] \ {p}
  BY <1>3, WalkOver
<1>5. DOMAIN RefOf = InstalledKeys \cup {Root} /\ Root \notin InstalledKeys /\ Root \notin seen
  BY <1>4, RefOfIs, KeysAre DEF SbomTypeOK
<1>6. PICK p \in {Root} \cup (walked \cap DOMAIN RefOf) :
        /\ \A c : <<p, c>> \in edges => c \in DOMAIN RefOf
        /\ row.ref = RefOf[p]
        /\ row.on = {RefOf[c] : c \in {e[2] : e \in {f \in edges : f[1] = p}}}
  BY <1>2, RowsAre
<1>7. p \in {Root} \cup (walked \cap InstalledKeys) /\ p \in DOMAIN needs
  BY <1>4, <1>5, <1>6 DEF SbomTypeOK
<1>8. {e[2] : e \in {f \in edges : f[1] = p}} = needs[p] \ {p}
  <2>1. \A e \in edges : e = <<e[1], e[2]>>
    BY <1>4 DEF SbomTypeOK
  <2>2. ASSUME NEW c \in needs[p] \ {p} PROVE c \in {e[2] : e \in {f \in edges : f[1] = p}}
    <3>1. <<p, c>> \in edges
      BY <1>4, <1>7
    <3>2. <<p, c>>[1] = p /\ <<p, c>>[2] = c
      OBVIOUS
    <3> QED BY <3>1, <3>2
  <2>3. ASSUME NEW c \in {e[2] : e \in {f \in edges : f[1] = p}} PROVE c \in needs[p] \ {p}
    <3>1. PICK e \in edges : e[1] = p /\ e[2] = c
      OBVIOUS
    <3>2. <<p, c>> \in edges
      BY <2>1, <3>1
    <3> QED BY <1>4, <3>2
  <2> QED BY <2>2, <2>3
<1>9. needs[p] \ {p} \subseteq InstalledKeys
  BY <1>4, <1>5, <1>6, <1>7
<1> QED BY <1>2, <1>3, <1>6, <1>7, <1>8, <1>9

\* Every type of the component index, and no more components, nor references, than there can be names and packages.
THEOREM SbomTyped == Spec => []SbomTypeOK
<1>1. BInv => SbomTypeOK
  BY DEF BInv
<1> QED BY <1>1, SbomAlways, PTL

\* to_cyclonedx_min (sbom.py:99-108 and 132-156): every reference of the export names one thing, and in a graph every
\* component, the product included, has its row or is declared unknown, and no row points at anything else.
THEOREM RefsNameOneThing == Spec => []EveryRefOnce
<1>1. BInv => EveryRefOnce
  <2> SUFFICES ASSUME BInv, Done PROVE
        LET all == Used \cup {bom.primary} IN
          /\ Cardinality(all) = Len(Exported) + 1
          /\ edges # {} =>
               /\ {r.ref : r \in bom.rows} \cup bom.unknown = all
               /\ {r.ref : r \in bom.rows} \cap bom.unknown = {}
               /\ \A r \in bom.rows : r.on \subseteq Used
    BY DEF EveryRefOnce
  <2> DEFINE all == Used \cup {bom.primary}
             listed == {r.ref : r \in bom.rows}
  <2>1. SbomTypeOK /\ Apart /\ bom = Output /\ Len(refs) = Len(Exported) /\ refs \in Seq(Seq(STRING))
    BY DEF BInv, SbomTypeOK
  <2>2. bom.primary = PrimaryRef /\ PrimaryRef \notin Used
    BY <2>1, PrimaryIs DEF Output
  <2>3. IsFiniteSet(Used) /\ Cardinality(Used) = Len(refs) /\ Len(refs) \in Nat
    <3> DEFINE f == [i \in 1..Len(refs) |-> refs[i]]
    <3>1. /\ Len(refs) \in Nat /\ IsFiniteSet(Used)
          /\ \A r : r \in Used <=> \E i \in 1..Len(refs) : refs[i] = r
      BY <2>1, UsedIs
    <3>2. f \in Bijection(1..Len(refs), Used)
      <4>1. f \in [1..Len(refs) -> Used] /\ \A i \in 1..Len(refs) : f[i] = refs[i]
        BY <3>1
      <4> HIDE DEF f
      <4>2. \A i, j \in 1..Len(refs) : f[i] = f[j] => i = j
        BY <2>1, <4>1 DEF Apart
      <4>3. \A r \in Used : \E i \in 1..Len(refs) : f[i] = r
        BY <3>1, <4>1
      <4> QED BY <4>1, <4>2, <4>3 DEF Bijection, Injection, Surjection, IsInjective
    <3>3. IsFiniteSet(1..Len(refs)) /\ Cardinality(1..Len(refs)) = Len(refs)
      BY <3>1, UpTo
    <3>4. ExistsBijection(1..Len(refs), Used)
      BY <3>2 DEF ExistsBijection
    <3> QED BY <3>1, <3>3, <3>4, FS_Bijection
  <2>4. Cardinality(all) = Len(Exported) + 1
    BY <2>1, <2>2, <2>3, FS_AddElement
  <2>5. ASSUME NEW row \in bom.rows PROVE row.ref \in all /\ row.on \subseteq Used
    <3>1. PICK p \in {Root} \cup (walked \cap InstalledKeys) :
            /\ needs[p] \ {p} \subseteq InstalledKeys
            /\ row.ref = RefOf[p]
            /\ row.on = {RefOf[c] : c \in needs[p] \ {p}}
      BY RowIs
    <3>2. OneOfEach
      BY RowIs DEF BInv
    <3>3. RefOf[Root] = PrimaryRef /\ \A k \in InstalledKeys : RefOf[k] \in Used
      BY <2>1, <3>2, RefOfIs
    <3> QED BY <2>2, <3>1, <3>3
  <2>6. edges # {} => bom.unknown = all \ listed
    BY <2>1, <2>2 DEF Output
  <2>7. listed \subseteq all
    BY <2>5
  <2> QED BY <2>4, <2>5, <2>6, <2>7
<1> QED BY <1>1, SbomAlways, PTL

\* to_cyclonedx_min (sbom.py:132-136): a row of the exported graph is the whole truth about its component; what it does
\* not list is not required here, and an empty one is a leaf whose requirements were read.
THEOREM RowsAreTheWholeTruth == Spec => []ClaimedIsComplete
<1>1. BInv => ClaimedIsComplete
  <2> SUFFICES ASSUME BInv, Done, NEW row \in bom.rows
               PROVE  LET k == KeyOfRef(row.ref) IN
                        /\ k \in DOMAIN needs
                        /\ needs[k] \ {k} \subseteq InstalledKeys
                        /\ row.on = {RefOfKey(c) : c \in needs[k] \ {k}}
    BY DEF ClaimedIsComplete
  <2>1. job = "installed"
    BY RowIs
  <2>2. PICK p \in {Root} \cup (walked \cap InstalledKeys) :
          /\ needs[p] \ {p} \subseteq InstalledKeys
          /\ row.ref = RefOf[p]
          /\ row.on = {RefOf[c] : c \in needs[p] \ {p}}
    BY RowIs
  <2>3. /\ SbomTypeOK /\ OneOfEach /\ Apart /\ bom = Output /\ Len(refs) = Len(Exported)
        /\ DOMAIN needs = {Root} \cup walked
    BY <2>1, WalkOver
  <2>4. bom.primary = PrimaryRef /\ PrimaryRef \notin Used
    BY <2>3, PrimaryIs DEF Output, SbomTypeOK
  <2>5. /\ RefOf[Root] = PrimaryRef /\ Root \notin InstalledKeys
        /\ \A k \in InstalledKeys :
              /\ RefOf[k] = refs[CHOOSE i \in 1..Len(refs) : Exported[i].key = k]
              /\ RefOf[k] \in Used
              /\ \E i \in 1..Len(refs) : Exported[i].key = k /\ RefOf[k] = refs[i]
    BY <2>3, RefOfIs
  <2>6. KeyOfRef(row.ref) = p
    <3>1. CASE p = Root
      BY <2>2, <2>4, <2>5, <3>1 DEF KeyOfRef
    <3>2. CASE p \in InstalledKeys
      <4> DEFINE c == CHOOSE i \in 1..Len(refs) : refs[i] = RefOf[p]
      <4>1. PICK i \in 1..Len(refs) : Exported[i].key = p /\ RefOf[p] = refs[i]
        BY <2>5, <3>2
      <4>2. c \in 1..Len(refs) /\ refs[c] = RefOf[p]
        BY <4>1
      <4>3. c = i
        BY <2>3, <4>1, <4>2 DEF Apart
      <4>4. RefOf[p] # bom.primary
        <5>1. RefOf[p] \in Used
          BY <2>5, <3>2
        <5> QED BY <2>4, <5>1
      <4>5. KeyOfRef(RefOf[p]) = Exported[c].key
        BY <4>4 DEF KeyOfRef
      <4> QED BY <2>2, <4>1, <4>3, <4>5
    <3> QED BY <2>2, <3>1, <3>2
  <2>7. p \in DOMAIN needs
    BY <2>2, <2>3
  <2>8. \A c \in needs[p] \ {p} : RefOfKey(c) = RefOf[c]
    BY <2>2, <2>5 DEF RefOfKey
  <2>9. row.on = {RefOfKey(c) : c \in needs[p] \ {p}}
    BY <2>2, <2>8
  <2> QED BY <2>2, <2>6, <2>7, <2>9
<1> QED BY <1>1, SbomAlways, PTL

\* sbom_from_installed (sbom.py:354-378): the walk reaches what the product needs and nothing else, whatever cycles,
\* spellings and repetitions the requirements have, and without --transitive it stops at the top level.
THEOREM WalkIsExact == Spec => []WalkCovers
<1>1. BInv => WalkCovers
  <2> SUFFICES ASSUME BInv, Done, job = "installed" PROVE
        LET next(k) == IF k \in DOMAIN needs THEN needs[k] ELSE {}
            reached == {k \in Keys : \A S \in SUBSET Keys :
                          needs[Root] \subseteq S /\ (\A p \in S : next(p) \subseteq S) => k \in S} IN
          /\ seen = (IF transitive THEN reached ELSE needs[Root])
          /\ Len(comps) = Cardinality(seen)
          /\ edges = UNION {{<<p, c>> : c \in next(p) \ {p}} : p \in seen \cup {Root}}
    BY DEF WalkCovers
  <2> DEFINE reached == {k \in Keys : \A S \in SUBSET Keys : Holds(S) => k \in S}
  <2>1. /\ SbomTypeOK /\ Walking /\ OneOfEach /\ Reaching
        /\ DOMAIN needs = {Root} \cup walked /\ \A p \in DOMAIN needs : p \in Parents /\ needs[p] \subseteq seen
        /\ \A p, c : <<p, c>> \in edges <=> p \in DOMAIN needs /\ c \in needs[p] \ {p}
    BY WalkOver
  <2>2. seen \in SUBSET Keys /\ walked \subseteq seen /\ edges \subseteq Parents \X seen
    BY <2>1 DEF SbomTypeOK
  <2>3. Holds(seen)
    BY <2>1, <2>2 DEF Holds, RequiredBy
  <2>4. seen = reached
    BY <2>1, <2>2, <2>3 DEF Reaching
  <2>5. ~transitive => seen = needs[Root]
    <3> SUFFICES ASSUME ~transitive PROVE seen = needs[Root]
      OBVIOUS
    <3>1. DOMAIN needs = {Root} /\ needs[Root] \in SUBSET Keys
      BY <2>1, <2>2 DEF Walking
    <3>2. Holds(needs[Root])
      BY <3>1, KeysAre DEF Holds, RequiredBy
    <3> QED BY <2>1, <3>1, <3>2 DEF Reaching
  <2>6. Len(comps) = Cardinality(seen)
    BY <2>1 DEF OneOfEach
  <2>7. edges = UNION {{<<p, c>> : c \in RequiredBy(p) \ {p}} : p \in seen \cup {Root}}
    <3> DEFINE all == UNION {{<<p, c>> : c \in RequiredBy(p) \ {p}} : p \in seen \cup {Root}}
    <3>1. ASSUME NEW e \in edges PROVE e \in all
      <4>1. PICK p \in Parents, c \in seen : e = <<p, c>>
        BY <2>2
      <4>2. p \in DOMAIN needs /\ c \in needs[p] \ {p} /\ p \in seen \cup {Root}
        BY <2>1, <2>2, <4>1
      <4>3. c \in RequiredBy(p) \ {p}
        BY <4>2 DEF RequiredBy
      <4> QED BY <4>1, <4>2, <4>3
    <3>2. ASSUME NEW e \in all PROVE e \in edges
      <4>1. PICK p \in seen \cup {Root} : e \in {<<p, c>> : c \in RequiredBy(p) \ {p}}
        OBVIOUS
      <4>2. PICK c \in RequiredBy(p) \ {p} : e = <<p, c>>
        BY <4>1
      <4>3. p \in DOMAIN needs /\ c \in needs[p] \ {p}
        BY <4>2 DEF RequiredBy
      <4> QED BY <2>1, <4>2, <4>3
    <3> QED BY <3>1, <3>2
  <2> HIDE DEF reached
  <2> QED BY <2>4, <2>5, <2>6, <2>7 DEF RequiredBy, Holds, reached
<1> QED BY <1>1, SbomAlways, PTL

\* _spdx3 (sbom.py:634-651): wherever in @graph the product and the licences are declared, a described product is never
\* a component, every other named package is one, and a concluded licence goes before a declared one.
THEOREM IndexFollowsDeclarations == Spec => []IndexedAsDeclared
<1>1. BInv => IndexedAsDeclared
  <2> SUFFICES ASSUME BInv, job = "indexed" PROVE IndexedAsDeclared
    BY DEF IndexedAsDeclared
  <2>1. Marked /\ index = Indexed
    BY DEF BInv
  <2> DEFINE at(kind) == {i \in 1..Len(document) : document[i].kind = kind}
             licences(kind, id) == {document[i].expr : i \in {j \in at(kind) : document[j].from = id}} \ {NoLicense}
  <2>2. \A kind, id : licences(kind, id) = Licences(kind, id)
    BY DEF Licences
  <2>3. ASSUME NEW i \in at("package")
        PROVE  LET id == document[i].id IN
                 IF \E j \in at("root") : id \in document[j].roots
                 THEN id \notin DOMAIN index
                 ELSE /\ document[i].named => id \in DOMAIN index
                      /\ id \in DOMAIN index =>
                           index[id] \in (IF Licences("concluded", id) # {} THEN Licences("concluded", id)
                                          ELSE Licences("declared", id) \cup {NoLicense})
                      /\ id \in DOMAIN index /\ index[id] = NoLicense => Licences("declared", id) = {}
    <3> DEFINE id == document[i].id
    <3>1. id \in roots <=> \E j \in at("root") : id \in document[j].roots
      BY <2>1 DEF Marked
    <3>2. id \in DOMAIN index => id \notin roots /\ index[id] = IF id \in DOMAIN licOf THEN licOf[id] ELSE NoLicense
      BY <2>1 DEF Indexed
    <3>3. document[i].named /\ id \notin roots => id \in DOMAIN index
      BY <2>1 DEF Indexed
    <3> HIDE DEF id
    <3>4. \A kind : \A x \in Licences(kind, id) : x # NoLicense
      BY DEF Licences
    <3>5. id \notin DOMAIN licOf => Licences("concluded", id) = {} /\ Licences("declared", id) = {}
      <4> SUFFICES ASSUME NEW kind \in {"concluded", "declared"}, NEW x \in Licences(kind, id)
                   PROVE  id \in DOMAIN licOf
        OBVIOUS
      <4>1. PICK j \in 1..Len(document) :
              document[j].kind = kind /\ document[j].from = id /\ document[j].expr # NoLicense
        BY DEF Licences
      <4> QED BY <2>1, <4>1 DEF Marked
    <3>6. id \in DOMAIN licOf =>
            licOf[id] \in (IF Licences("concluded", id) # {} THEN Licences("concluded", id)
                           ELSE Licences("declared", id))
      BY <2>1 DEF Marked
    <3>7. CASE \E j \in at("root") : id \in document[j].roots
      BY <3>1, <3>2, <3>7 DEF id
    <3>8. CASE ~ \E j \in at("root") : id \in document[j].roots
      <4>1. document[i].named => id \in DOMAIN index
        BY <3>1, <3>3, <3>8
      <4>2. id \in DOMAIN index =>
              index[id] \in (IF Licences("concluded", id) # {} THEN Licences("concluded", id)
                             ELSE Licences("declared", id) \cup {NoLicense})
        BY <3>2, <3>5, <3>6
      <4>3. id \in DOMAIN index /\ index[id] = NoLicense => Licences("declared", id) = {}
        BY <3>2, <3>4, <3>5, <3>6
      <4> QED BY <3>8, <4>1, <4>2, <4>3 DEF id
    <3> QED BY <3>7, <3>8
  <2> HIDE DEF licences
  <2> QED BY <2>2, <2>3 DEF IndexedAsDeclared, licences
<1> QED BY <1>1, SbomAlways, PTL
=============================================================================

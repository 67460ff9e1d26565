---------------------------------- MODULE Sbom ----------------------------------
(***************************************************************************)
(* The index of components (cra_evidence/sbom.py): the walk over the       *)
(* installed distributions, what is taken from SPDX documents, and the     *)
(* export as CycloneDX with its references and its dependency graph.  A    *)
(* distribution is named by the key its name is normalised to; what is     *)
(* installed and what it requires is revealed when the walk looks it up.   *)
(***************************************************************************)
EXTENDS Naturals, Sequences, FiniteSets

CONSTANTS
  Names,      \* names as requirements spell them
  NormKey,    \* their normalised keys
  TopLevels,  \* the lists of names --installed may be given
  Requires,   \* the sequences of requirements a distribution may have: [name, marker]
  Packages,   \* components of generator documents, sorted by name, version and purl; purl may be empty
  Elements,   \* elements of an SPDX 3 @graph: package, root marker, licence
  MaxElements,
  Product,    \* product@version as a reference
  Decimal(_)  \* a number as text

Root == ""    \* the product, as the parent of an edge
NoLicense == ""
Requirement == [name : Names, marker : {"applies", "unknown", "elsewhere", "extra"}]
Package == [name : STRING, version : STRING, purl : Seq(STRING)]

ASSUME SbomAssumption ==
  /\ IsFiniteSet(Names)
  /\ \A n \in Names : NormKey[n] \in STRING \ {Root}
  /\ \A top \in TopLevels : top \in Seq(Names)
  /\ \A reqs \in Requires : reqs \in Seq(Requirement)
  /\ Packages \in Seq(Package)
  /\ Product \in Seq(STRING)
  /\ \A m, n \in 2..Cardinality(Names) + Len(Packages) + 2 :
       Decimal(m) \in STRING /\ (Decimal(m) = Decimal(n) => m = n)

VARIABLES
  job,        \* what is being indexed
  transitive, \* --transitive
  todo,       \* (parent, name) still to be looked up
  seen,
  edges,      \* (parent, key)
  walked,     \* keys whose Requires-Dist was read
  comps,      \* the components, in order: [key, installed, ref]
  needs,      \* ghost: what each key looked up requires here, the product its top level
  index,      \* what an SPDX document gave: the licence of each package indexed
  document,   \* the elements of its @graph, in any order
  roots,      \* the ids it declares to be the product
  licOf,      \* the licences it declares
  refs,       \* the references of the components exported
  bom         \* the export: rows of the graph, what is unknown, the product's reference

spdxVars == <<document, roots, licOf>>
vars == <<job, transitive, todo, seen, edges, walked, comps, needs, index, spdxVars, refs, bom>>

\* the elements of a sequence at these positions, in their order
At(s, S) ==
  [k \in 1..Cardinality(S) |-> s[CHOOSE i \in S : Cardinality({j \in S : j <= i}) = k]]

\* d[k] = v
Put(f, k, v) == [x \in DOMAIN f \cup {k} |-> IF x = k THEN v ELSE f[x]]

Keys == {NormKey[n] : n \in Names}
NoBom == [rows |-> {}, unknown |-> {}, primary |-> <<>>]

Init ==
  /\ job = "none" /\ transitive = FALSE
  /\ todo = <<>> /\ seen = {} /\ edges = {} /\ walked = {} /\ comps = <<>> /\ needs = <<>>
  /\ index = <<>> /\ document = <<>> /\ roots = {} /\ licOf = <<>> /\ refs = <<>> /\ bom = NoBom

-----------------------------------------------------------------------------
(* sbom_from_installed.                                                    *)

KeysOf(names) == {NormKey[names[i]] : i \in 1..Len(names)}

StartWalk(top, t) ==
  /\ job = "none" /\ job' = "installed" /\ transitive' = t
  /\ todo' = [i \in 1..Len(top) |-> <<Root, top[i]>>]
  /\ needs' = [k \in {Root} |-> KeysOf(top)]
  /\ UNCHANGED <<seen, edges, walked, comps, index, spdxVars, refs, bom>>

\* faulty: a requirement whose marker cannot be evaluated is left out
KeptIfSure(reqs) == At(reqs, {i \in 1..Len(reqs) : reqs[i].marker = "applies"})

\* requirements of this environment: not an extra's, and not one whose marker is false; one that cannot be evaluated stays
Kept(reqs) == At(reqs, {i \in 1..Len(reqs) : reqs[i].marker \in {"applies", "unknown"}})

\* ghost: the same, said of the requirements one by one
RequiredHere(reqs) == {NormKey[reqs[i].name] : i \in {j \in 1..Len(reqs) : reqs[j].marker \notin {"extra", "elsewhere"}}}

Key == NormKey[Head(todo)[2]]
WithEdge == IF Head(todo)[1] = Key THEN edges ELSE edges \cup {<<Head(todo)[1], Key>>}

\* a name whose key was looked up before: only its edge is new
Revisit ==
  /\ job = "installed" /\ todo # <<>> /\ Key \in seen
  /\ edges' = WithEdge /\ todo' = Tail(todo)
  /\ UNCHANGED <<job, transitive, seen, walked, comps, needs, index, spdxVars, refs, bom>>

\* faulty: a key is not marked as seen
LookUpForgets(reqs) ==
  /\ job = "installed" /\ todo # <<>> /\ Key \notin seen
  /\ edges' = WithEdge /\ seen' = seen
  /\ comps' = comps \o (IF \E i \in 1..Len(comps) : comps[i].key = Key THEN <<>>
                        ELSE <<[key |-> Key, installed |-> TRUE, ref |-> <<Key>>]>>)
  /\ walked' = walked \cup {Key} /\ needs' = Put(needs, Key, RequiredHere(reqs))
  /\ todo' = Tail(todo) \o [i \in 1..Len(Kept(reqs)) |-> <<Key, Kept(reqs)[i].name>>]
  /\ UNCHANGED <<job, transitive, index, spdxVars, refs, bom>>

\* an installed distribution; its requirements are read only when the walk is transitive
LookUp(reqs) ==
  /\ job = "installed" /\ todo # <<>> /\ Key \notin seen
  /\ edges' = WithEdge /\ seen' = seen \cup {Key}
  /\ comps' = Append(comps, [key |-> Key, installed |-> TRUE, ref |-> <<Key>>])
  /\ IF transitive
     THEN /\ walked' = walked \cup {Key}
          /\ needs' = Put(needs, Key, RequiredHere(reqs))
          /\ todo' = Tail(todo) \o [i \in 1..Len(Kept(reqs)) |-> <<Key, Kept(reqs)[i].name>>]
     ELSE todo' = Tail(todo) /\ UNCHANGED <<walked, needs>>
  /\ UNCHANGED <<job, transitive, index, spdxVars, refs, bom>>

\* PackageNotFoundError: declared, NOT-INSTALLED
NotInstalled ==
  /\ job = "installed" /\ todo # <<>> /\ Key \notin seen
  /\ edges' = WithEdge /\ seen' = seen \cup {Key} /\ todo' = Tail(todo)
  /\ comps' = Append(comps, [key |-> Key, installed |-> FALSE, ref |-> <<Key>>])
  /\ UNCHANGED <<job, transitive, walked, needs, index, spdxVars, refs, bom>>

-----------------------------------------------------------------------------
(* Generator documents.                                                    *)

BaseRef(p) == IF p.purl # <<>> THEN p.purl ELSE <<p.name, p.version>>

\* a document that lists these, in any order and any number of times: each is kept once, sorted
Ingest(listed) ==
  /\ job = "none" /\ job' = "document"
  /\ LET kept == At(Packages, {i \in 1..Len(Packages) : Packages[i] \in listed}) IN
       comps' = [i \in 1..Len(kept) |-> [key |-> kept[i].name, installed |-> TRUE, ref |-> BaseRef(kept[i])]]
  /\ UNCHANGED <<transitive, todo, seen, edges, walked, needs, index, spdxVars, refs, bom>>

\* a concluded licence replaces what was there, a declared one only fills a gap
License(e) ==
  licOf' = IF \/ e.kind = "concluded" /\ e.expr # NoLicense
              \/ e.kind = "declared" /\ e.expr # NoLicense /\ e.from \notin DOMAIN licOf
           THEN Put(licOf, e.from, e.expr) ELSE licOf

\* first pass over @graph: root markers, and licences (expr empty: NOASSERTION); packages are left for the second
Mark(e) ==
  /\ job \in {"none", "graph"} /\ job' = "graph"
  /\ Len(document) < MaxElements
  /\ document' = Append(document, e)
  /\ roots' = IF e.kind = "root" THEN roots \cup e.roots ELSE roots
  /\ License(e)
  /\ UNCHANGED <<transitive, todo, seen, edges, walked, comps, needs, index, refs, bom>>

\* faulty: in one pass, with the roots met so far
IndexInOnePass ==
  LET rootsUpTo(i) == UNION {document[j].roots : j \in {k \in 1..i : document[k].kind = "root"}}
      kept == {i \in 1..Len(document) : /\ document[i].kind = "package" /\ document[i].named
                                        /\ document[i].id \notin rootsUpTo(i)} IN
    [id \in {document[i].id : i \in kept} |-> IF id \in DOMAIN licOf THEN licOf[id] ELSE NoLicense]

\* second pass: the named packages that are no root
Indexed ==
  LET named == {document[i].id : i \in {j \in 1..Len(document) : document[j].kind = "package" /\ document[j].named}} IN
    [id \in named \ roots |-> IF id \in DOMAIN licOf THEN licOf[id] ELSE NoLicense]

Collect ==
  /\ job = "graph" /\ job' = "indexed"
  /\ index' = Indexed
  /\ UNCHANGED <<transitive, todo, seen, edges, walked, comps, needs, spdxVars, refs, bom>>

-----------------------------------------------------------------------------
(* to_cyclonedx_min.                                                       *)

Exported == At(comps, {i \in 1..Len(comps) : comps[i].installed})
Used == {refs[i] : i \in 1..Len(refs)}

\* faulty: a reference in use gets a number, whether that one is in use or not
NumberedOnce(ref) == IF ref \notin Used THEN ref ELSE Append(ref, "2")

\* ref, or ref#n with the least n from 2 that is not in use
Fresh(ref) ==
  IF ref \notin Used THEN ref
  ELSE LET free == {n \in 2..(Len(refs) + 2) : Append(ref, Decimal(n)) \notin Used} IN
         Append(ref, Decimal(CHOOSE n \in free : \A k \in free : n <= k))

\* the next component gets its bom-ref
AssignRef ==
  /\ job \in {"installed", "document"} /\ todo = <<>> /\ Len(refs) < Len(Exported)
  /\ refs' = Append(refs, Fresh(Exported[Len(refs) + 1].ref))
  /\ UNCHANGED <<job, transitive, todo, seen, edges, walked, comps, needs, index, spdxVars, bom>>

\* the product's reference, with #product as often as it takes
PrimaryRef ==
  LET mark(k) == Product \o [i \in 1..k |-> "product"]
      free == {k \in 0..Len(refs) : mark(k) \notin Used} IN
    mark(CHOOSE k \in free : \A j \in free : k <= j)

\* faulty: a parent with a child that is not exported keeps its row
RowsWithHoles(refOf, es, read) ==
  {[ref |-> refOf[p], on |-> {refOf[e[2]] : e \in {f \in es : f[1] = p /\ f[2] \in DOMAIN refOf}}] :
     p \in {Root} \cup (read \cap DOMAIN refOf)}

\* dependsOn: for the product and every exported component whose requirements were read, when all its children are exported
Rows(refOf, es, read) ==
  LET children(p) == {e[2] : e \in {f \in es : f[1] = p}}
      parents == {Root} \cup (read \cap DOMAIN refOf) IN
    {[ref |-> refOf[p], on |-> {refOf[c] : c \in children(p)}] :
       p \in {q \in parents : children(q) \subseteq DOMAIN refOf}}

\* the reference of each exported component, and the product's
RefOf ==
  [k \in {Exported[i].key : i \in 1..Len(refs)} \cup {Root} |->
     IF k = Root THEN PrimaryRef ELSE refs[CHOOSE i \in 1..Len(refs) : Exported[i].key = k]]

Output ==
  LET rows == IF edges = {} THEN {} ELSE Rows(RefOf, edges, walked) IN
    [rows |-> rows, primary |-> PrimaryRef,
     unknown |-> IF edges = {} THEN {} ELSE (Used \cup {PrimaryRef}) \ {r.ref : r \in rows}]

Export ==
  /\ job \in {"installed", "document"} /\ todo = <<>> /\ Len(refs) = Len(Exported) /\ bom = NoBom
  /\ bom' = Output
  /\ UNCHANGED <<job, transitive, todo, seen, edges, walked, comps, needs, index, spdxVars, refs>>

WalkStep == Revisit \/ NotInstalled \/ \E reqs \in Requires : LookUp(reqs)

Next ==
  \/ \E top \in TopLevels, t \in BOOLEAN : StartWalk(top, t)
  \/ \E listed \in SUBSET {Packages[i] : i \in 1..Len(Packages)} : Ingest(listed)
  \/ \E e \in Elements : Mark(e)
  \/ Collect
  \/ WalkStep \/ AssignRef \/ Export

Spec == Init /\ [][Next]_vars /\ WF_vars(WalkStep \/ AssignRef \/ Export)

-----------------------------------------------------------------------------
(* Properties.                                                             *)

Done == bom # NoBom
KeyOfRef(r) == IF r = bom.primary THEN Root
               ELSE Exported[CHOOSE i \in 1..Len(refs) : refs[i] = r].key
RefOfKey(k) == IF k = Root THEN bom.primary
               ELSE refs[CHOOSE i \in 1..Len(refs) : Exported[i].key = k]
InstalledKeys == {Exported[i].key : i \in 1..Len(Exported)}

\* a row of the exported graph is the whole truth about its component (sbom.py:132-136): its requirements were read,
\* each of them is a component, and all of them but itself are listed; an empty list is a leaf, never ignorance
ClaimedIsComplete ==
  Done => \A row \in bom.rows :
    LET k == KeyOfRef(row.ref) IN
      /\ k \in DOMAIN needs
      /\ needs[k] \ {k} \subseteq InstalledKeys
      /\ row.on = {RefOfKey(c) : c \in needs[k] \ {k}}

\* the transitive walk reaches what the product needs and nothing else, through cycles, other spellings and names met
\* twice; the other one stops at the top level (sbom.py:354-378)
WalkCovers ==
  Done /\ job = "installed" =>
    LET next(k) == IF k \in DOMAIN needs THEN needs[k] ELSE {}
        reached == {k \in Keys : \A S \in SUBSET Keys :
                      needs[Root] \subseteq S /\ (\A p \in S : next(p) \subseteq S) => k \in S} IN
      /\ seen = (IF transitive THEN reached ELSE needs[Root])
      /\ Len(comps) = Cardinality(seen)
      /\ edges = UNION {{<<p, c>> : c \in next(p) \ {p}} : p \in seen \cup {Root}}

\* every reference of the export names one thing (sbom.py:99-108), and in a graph every component, the product
\* included, either has its row or is declared unknown, and nothing else is pointed at
EveryRefOnce ==
  Done =>
    LET all == Used \cup {bom.primary} IN
      /\ Cardinality(all) = Len(Exported) + 1
      /\ edges # {} =>
           /\ {r.ref : r \in bom.rows} \cup bom.unknown = all
           /\ {r.ref : r \in bom.rows} \cap bom.unknown = {}
           /\ \A r \in bom.rows : r.on \subseteq Used

\* wherever in the document the product and the licences are declared: a described product is never a component, every
\* other named package is one, and a concluded licence goes before a declared one (sbom.py:634-651)
IndexedAsDeclared ==
  job = "indexed" =>
    LET at(kind) == {i \in 1..Len(document) : document[i].kind = kind}
        licences(kind, id) == {document[i].expr : i \in {j \in at(kind) : document[j].from = id}} \ {NoLicense} IN
      \A i \in at("package") :
        LET id == document[i].id IN
          IF \E j \in at("root") : id \in document[j].roots
          THEN id \notin DOMAIN index
          ELSE /\ document[i].named => id \in DOMAIN index
               /\ id \in DOMAIN index =>
                    index[id] \in (IF licences("concluded", id) # {} THEN licences("concluded", id)
                                   ELSE licences("declared", id) \cup {NoLicense})
               /\ id \in DOMAIN index /\ index[id] = NoLicense => licences("declared", id) = {}

\* requirements that lead round in a circle do not keep the walk going
WalkEnds == (job = "installed") ~> Done
=============================================================================

--------------------------------- MODULE Feeds ---------------------------------
(***************************************************************************)
(* The public sources of vulnerability and exploitation signals            *)
(* (cra_evidence/feeds.py): the batched and paged query of OSV, step by    *)
(* step, and the two catalogues of exploited vulnerabilities.  What a      *)
(* server holds is revealed as it answers.  The cache of aliases changes   *)
(* no answer and is left out.                                              *)
(***************************************************************************)
EXTENDS Naturals, Sequences, FiniteSets

CONSTANTS
  VulnIds,     \* ids OSV answers with
  Cves,        \* ids that are CVE numbers
  AliasesOf,   \* the aliases of each id of VulnIds
  Catalogues,  \* cisa_kev and enisa_euvd
  Listed,      \* what each catalogue lists
  Control,     \* KEV_POSITIVE_CONTROL
  BatchMax,    \* OSV_BATCH_MAX, queries in one request
  PageLimit    \* pages followed after the first (50)

ASSUME FeedsAssumption ==
  /\ AliasesOf \in [VulnIds -> SUBSET Cves]
  /\ Listed \in [Catalogues -> SUBSET Cves]
  /\ BatchMax \in Nat \ {0} /\ PageLimit \in Nat

VARIABLES
  fstep,    \* where osv_query_batch is
  asked,    \* the input list: may this component be queried?
  start,    \* queries of the chunks before this one
  batch,    \* results of this chunk still to be read
  ids,      \* ids gathered for the component in progress
  pages,    \* pages followed for it
  res,      \* the id sets of the queries answered
  answer,   \* what the call returned
  served,   \* ghost: the ids and aliases the server has for each component, as far as it has shown
  unread,   \* ghost: components of which the server has pages that were not read
  emptied,  \* ghost: some answer had an empty body (read as {}, feeds.py:31)
  loaded    \* what cisa_kev_ids and euvd_kev_ids returned

osvVars == <<fstep, asked, start, batch, ids, pages, res, answer, served, unread, emptied>>
feedVars == <<osvVars, loaded>>

NotQueried == {"not queried"}   \* None in results
NoAnswer == [results |-> <<>>, error |-> TRUE]
NotLoaded == [ids |-> {}, error |-> TRUE]

FeedsInit ==
  /\ fstep = "off" /\ asked = <<>> /\ start = 0 /\ batch = 0 /\ ids = {} /\ pages = 0 /\ res = <<>>
  /\ answer = NoAnswer /\ served = <<>> /\ unread = {} /\ emptied = FALSE
  /\ loaded = [f \in Catalogues |-> NotLoaded]

-----------------------------------------------------------------------------
(* osv_query_batch.                                                        *)

\* idx: the positions of the input list that are queried
Positions(a) ==
  LET queried == {i \in DOMAIN a : a[i]}
  IN  [k \in 1..Cardinality(queried) |-> CHOOSE i \in queried : Cardinality({j \in queried : j <= i}) = k]
Queries == Positions(asked)
ChunkSize == IF Len(Queries) - start < BatchMax THEN Len(Queries) - start ELSE BatchMax

\* results in the order of the input list
Aligned(r) ==
  [i \in 1..Len(asked) |->
    IF \E k \in 1..Len(r) : Queries[k] = i
    THEN r[CHOOSE k \in 1..Len(r) : Queries[k] = i] ELSE NotQueried]

Ask(components) ==
  /\ fstep = "off"
  /\ asked' = components
  /\ served' = [i \in 1..Len(components) |-> {}]
  /\ unread' = {i \in 1..Len(components) : components[i]}
  /\ IF unread' = {}
     THEN fstep' = "answered" /\ answer' = [results |-> [i \in 1..Len(components) |-> NotQueried], error |-> FALSE]
     ELSE fstep' = "batch" /\ answer' = NoAnswer
  /\ start' = 0 /\ batch' = 0 /\ ids' = {} /\ pages' = 0 /\ res' = <<>> /\ emptied' = FALSE
  /\ UNCHANGED loaded

\* the one handler of every failure: no results at all
Raise ==
  /\ fstep' = "answered" /\ answer' = NoAnswer
  /\ UNCHANGED <<asked, start, batch, ids, pages, res, served, unread, emptied, loaded>>

\* one request for a chunk; the server answers with n results
PostBatch(n) ==
  /\ fstep = "batch"
  /\ IF n # ChunkSize
     THEN Raise
     ELSE /\ fstep' = "first" /\ batch' = n
          /\ UNCHANGED <<asked, start, ids, pages, res, answer, served, unread, emptied, loaded>>

\* the query whose result is being read: the results of a chunk come in the order of its queries
Reading == Queries[start + ChunkSize - batch + 1]

\* _ids_with_aliases: each id and its aliases, unless a look-up of aliases had an empty body
WithAliases(vs, bare) == vs \cup UNION {AliasesOf[v] : v \in vs \ bare}

ReadPage(vs, more, bare) ==
  /\ ids' = ids \cup WithAliases(vs, bare)
  /\ served' = [served EXCEPT ![Reading] = @ \cup WithAliases(vs, {})]
  /\ unread' = IF more THEN unread ELSE unread \ {Reading}
  /\ emptied' = (emptied \/ bare # {})
  /\ fstep' = IF more THEN "next" ELSE "store"

\* r["vulns"] of a result of the batch
FirstPage(vs, more, bare) ==
  /\ fstep = "first"
  /\ ReadPage(vs, more, bare)
  /\ UNCHANGED <<asked, start, batch, pages, res, answer, loaded>>

\* faulty: the limit ends the pages instead of the query
StopAtLimit(vs, more, bare) ==
  /\ fstep = "next"
  /\ IF pages = PageLimit
     THEN /\ fstep' = "store"
          /\ UNCHANGED <<asked, start, batch, ids, pages, res, answer, served, unread, emptied, loaded>>
     ELSE /\ pages' = pages + 1
          /\ ReadPage(vs, more, bare)
          /\ UNCHANGED <<asked, start, batch, res, answer, loaded>>

\* faulty: pages are followed for as long as there is a token; the counter wraps round
NoLimit(vs, more, bare) ==
  /\ fstep = "next"
  /\ pages' = (pages + 1) % (PageLimit + 1)
  /\ ReadPage(vs, more, bare)
  /\ UNCHANGED <<asked, start, batch, res, answer, loaded>>

\* the page of the token; too many of them end the call
NextPage(vs, more, bare) ==
  /\ fstep = "next"
  /\ IF pages = PageLimit
     THEN Raise
     ELSE /\ pages' = pages + 1
          /\ ReadPage(vs, more, bare)
          /\ UNCHANGED <<asked, start, batch, res, answer, loaded>>

\* the answer for the next page is empty: no ids, no token
EmptyPage ==
  /\ fstep = "next" /\ pages < PageLimit
  /\ pages' = pages + 1 /\ emptied' = TRUE /\ fstep' = "store"
  /\ UNCHANGED <<asked, start, batch, ids, res, answer, served, unread, loaded>>

\* res.append; the next result, the next chunk, or the answer
Store ==
  /\ fstep = "store"
  /\ res' = Append(res, ids) /\ ids' = {} /\ pages' = 0
  /\ batch' = batch - 1
  /\ IF batch > 1
     THEN fstep' = "first" /\ UNCHANGED <<start, answer>>
     ELSE /\ start' = start + ChunkSize
          /\ IF start' < Len(Queries)
             THEN fstep' = "batch" /\ UNCHANGED answer
             ELSE fstep' = "answered" /\ answer' = [results |-> Aligned(res'), error |-> FALSE]
  /\ UNCHANGED <<asked, served, unread, emptied, loaded>>

\* a request for a batch, a page or an id's aliases fails
RequestFails == fstep \in {"batch", "first", "next"} /\ Raise

\* the first page of a result comes with the batch: only its aliases are asked for
QueryStep ==
  \/ \E n \in 0..(BatchMax + 1) : PostBatch(n)
  \/ \E vs \in SUBSET VulnIds, more \in BOOLEAN : \E bare \in SUBSET vs :
       FirstPage(vs, more, bare) \/ NextPage(vs, more, bare)
  \/ EmptyPage \/ Store \/ RequestFails

\* osv_positive_control, asked of one component
ControlAsked == <<TRUE>>
ControlOk == ~answer.error /\ answer.results[1] \cap Cves # {}

-----------------------------------------------------------------------------
(* cisa_kev_ids and euvd_kev_ids.                                          *)

\* faulty: a list is believed without the control
LoadUnchecked(f, ok, part) ==
  /\ part \subseteq Listed[f]
  /\ loaded' = [loaded EXCEPT ![f] = IF ok THEN [ids |-> part, error |-> FALSE] ELSE NotLoaded]
  /\ UNCHANGED osvVars

\* the server sends a list, perhaps not all of it; without the positive control it is an error
Load(f, ok, part) ==
  /\ part \subseteq Listed[f]
  /\ loaded' = [loaded EXCEPT ![f] = IF ok /\ Control \in part THEN [ids |-> part, error |-> FALSE] ELSE NotLoaded]
  /\ UNCHANGED osvVars

\* exploitation_signal for one id: the catalogues that list it
Signal(id) == {f \in Catalogues : id \in loaded[f].ids}

\* the call is over and its locals are gone
Forget ==
  /\ fstep' = "off" /\ asked' = <<>> /\ start' = 0 /\ batch' = 0 /\ ids' = {} /\ pages' = 0 /\ res' = <<>>
  /\ answer' = NoAnswer /\ served' = <<>> /\ unread' = {} /\ emptied' = FALSE
  /\ loaded' = [f \in Catalogues |-> NotLoaded]

-----------------------------------------------------------------------------
(* Properties.                                                             *)

\* an answer without an error is complete and in its place: for each component of the input list exactly what the
\* server has for it, every page read, every alias resolved, and None where nothing was asked; with an error there
\* are no results (feeds.py:41-42, :70).  An empty body is the exception: it is read as "nothing more"
CompleteOrError ==
  fstep = "answered" =>
    IF answer.error THEN answer.results = <<>>
    ELSE /\ Len(answer.results) = Len(asked)
         /\ ~emptied => \A i \in 1..Len(asked) :
              IF asked[i] THEN i \notin unread /\ answer.results[i] = served[i]
              ELSE answer.results[i] = NotQueried
=============================================================================

------------------------------- MODULE Verdict -------------------------------
(***************************************************************************)
(* verify_pack (cra_evidence/verify_pack.py): what one verification adds   *)
(* up to.  Each check is a step that may come out in any way the host and  *)
(* the files allow; it reports a layer (the answer since 0.5.1) and, next  *)
(* to it, state elements, refusal classes and unmet policies (0.6.0).  The *)
(* two are computed separately, and spec/RECEIPT.md says how they agree.   *)
(***************************************************************************)
EXTENDS Naturals, FiniteSets

VARIABLES
  args,      \* what the caller passed, and what the host can do
  step,      \* the check to run next
  layers,    \* the outcomes reported so far, each status with its `assessed`
  el,        \* the state elements of each subject
  refusal,   \* the first refusal class, or "none"
  unmet,     \* the policies not met
  anchored,  \* the pack is anchored in a chain that verifies
  digestOK,  \* pack_sha3 is the digest of the content
  receipt    \* the answer

vars == <<args, step, layers, el, refusal, unmet, anchored, digestOK, receipt>>

\* --trust-store, --log-pubkey, --ledger, --require-sources; `cryptography` here
Args == [trust : BOOLEAN, tipKey : BOOLEAN, ledger : BOOLEAN,
         sources : BOOLEAN, crypto : BOOLEAN]

Subjects == {"sealed_content", "ledger_anchor", "signed_tip",
             "source_documents", "producer_signature"}

Contradicted == {"digest_mismatch", "self_verification_failed", "ledger_malformed",
                 "entry_unknown_member", "chain_broken", "record_unbound",
                 "not_anchored", "state_mismatch", "tip_invalid", "tail_mismatch",
                 "source_mismatch", "record_malformed", "sidecar_malformed",
                 "signature_invalid"}
FailClosed == {"instrument_failure", "unreadable"}
NotEvaluated == FailClosed \cup {"not_present", "key_not_given", "hash_only",
                 "ledger_not_verified", "self_asserted", "key_unresolved"}

(* An element is its reason: "verified", a contradicted or a not_evaluated *)
(* one; no reason is of two kinds.                                         *)
Element == {"verified"} \cup Contradicted \cup NotEvaluated

Pass == [status |-> "PASS", assessed |-> TRUE]
Skip == [status |-> "SKIP", assessed |-> TRUE]
Fail == [status |-> "FAIL", assessed |-> TRUE]

\* a check this host has no instrument for: fails closed, and is no finding
Uncheckable == [status |-> "FAIL", assessed |-> FALSE]

Layer == {Pass, Skip, Fail, Uncheckable}

PassIf(b) == IF b THEN Pass ELSE Fail

Classes == {"format_unsupported", "unknown_member", "malformed"}
Policies == {"trusted_signer", "ledger_required", "tip_required",
             "sources_required", "authenticity_basis"}
Authenticities == {"FAIL", "anchored", "signed", "trusted-signed"}
States == {"verified", "contradicted", "not_evaluated", "none"}

Receipt == [ok : BOOLEAN, assessed : BOOLEAN, authenticity : Authenticities,
            admission : {"admitted", "refused", "not_evaluated"},
            class : Classes \cup {"none"}, states : [Subjects -> States],
            met : BOOLEAN]
Unstated == [s \in Subjects |-> "none"]
NoReceipt == [ok |-> FALSE, assessed |-> FALSE, authenticity |-> "FAIL",
              admission |-> "not_evaluated", class |-> "none",
              states |-> Unstated, met |-> FALSE]

Checks == {"read", "pack", "ledger", "sources", "tip", "signature", "done"}

\* every variable stays in its set; what was not assessed is a FAIL
VerdictTypeOK ==
  /\ args \in Args
  /\ step \in Checks
  /\ layers \subseteq Layer
  /\ \A l \in layers : l.assessed \/ l.status = "FAIL"
  /\ el \in [Subjects -> SUBSET Element]
  /\ refusal \in Classes \cup {"none"}
  /\ unmet \subseteq Policies
  /\ anchored \in BOOLEAN /\ digestOK \in BOOLEAN
  /\ receipt \in Receipt

Init ==
  /\ args \in Args
  /\ step = "read"
  /\ layers = {}
  /\ el = [s \in Subjects |-> {}]
  /\ refusal = "none"
  /\ unmet = {}
  /\ anchored = FALSE /\ digestOK = FALSE
  /\ receipt = NoReceipt

-----------------------------------------------------------------------------
(* The answer.                                                             *)

\* _fold: one state per subject, the worst of its elements
Fold(E) ==
  IF E \cap Contradicted # {} THEN "contradicted"
  ELSE IF E # {} /\ E \cap NotEvaluated = {} THEN "verified"
  ELSE "not_evaluated"

\* authenticity, from the signature's layer and what the caller asked for
Auth(status, trusted) ==
  IF status = "FAIL" \/ (args.trust /\ ~trusted) THEN "FAIL"
  ELSE IF status = "PASS" THEN (IF trusted THEN "trusted-signed" ELSE "signed")
  ELSE IF anchored THEN "anchored" ELSE "FAIL"

\* the receipt over all the layers L, elements E and unmet policies U
Answer(auth, L, E, U) ==
  LET ok == auth # "FAIL" /\ \A l \in L : l.status # "FAIL"
      judged == \E l \in L : l.status = "FAIL" /\ l.assessed
      absent == \E l \in L : ~l.assessed
  IN [ok |-> ok, assessed |-> judged \/ ~absent,
      authenticity |-> IF ok THEN auth ELSE "FAIL",
      admission |-> IF refusal = "none" THEN "admitted" ELSE "refused",
      class |-> refusal,
      states |-> IF refusal = "none" THEN [s \in Subjects |-> Fold(E[s])] ELSE Unstated,
      met |-> refusal = "none" /\ U = {}]

-----------------------------------------------------------------------------
(* The checks, in the order _verify runs them.                             *)

\* the pack file is not one JSON object: the answer at once
Unreadable ==
  /\ step = "read"
  /\ step' = "done"
  /\ layers' = {Fail}
  /\ refusal' = "malformed"
  /\ receipt' = [NoReceipt EXCEPT !.assessed = TRUE, !.admission = "refused",
                                  !.class = "malformed"]
  /\ UNCHANGED <<args, el, unmet, anchored, digestOK>>

ReadPack ==
  /\ step = "read"
  /\ step' = "pack"
  /\ layers' = {Pass}
  /\ UNCHANGED <<args, el, refusal, unmet, anchored, digestOK, receipt>>

\* the first class that applies
Refused(kind, schema, usable) ==
  IF ~kind THEN "format_unsupported"
  ELSE IF ~schema THEN "unknown_member"
  ELSE IF ~usable THEN "malformed" ELSE "none"

\* elements of a subject that both verdicts are told about
Told(s, E) == el' = [el EXCEPT ![s] = @ \cup E]

(* kind, closed schema, honest scope, digest ("none": the content has no   *)
(* canonical form), the pack's own snapshot, and the ledger_file name.     *)
CheckPack ==
  /\ step = "pack"
  /\ \E kind, schema, scope, snapshot, name \in BOOLEAN,
        digest \in {"verified", "digest_mismatch", "none"} :
       /\ refusal' = Refused(kind, schema, scope /\ digest # "none" /\ name)
       /\ layers' = layers \cup {PassIf(kind), PassIf(schema), PassIf(scope),
                                 PassIf(digest = "verified"), PassIf(snapshot)}
                           \cup (IF name THEN {} ELSE {Fail})
       /\ digestOK' = (digest = "verified")
       /\ LET sealed == ({digest} \ {"none"})
                        \cup {IF snapshot THEN "verified" ELSE "self_verification_failed"}
          IN IF name
             THEN Told("sealed_content", sealed) /\ step' = "ledger"
             ELSE /\ el' = [el EXCEPT !["sealed_content"] = sealed,
                                      !["signed_tip"] = {"ledger_not_verified"},
                                      !["source_documents"] = {"ledger_not_verified"}]
                  /\ step' = "signature"
  /\ UNCHANGED <<args, unmet, anchored, receipt>>

\* the tip and the documents are not looked at
NotLookedAt(E) ==
  /\ el' = [el EXCEPT !["ledger_anchor"] = @ \cup E,
                      !["signed_tip"] = @ \cup {"ledger_not_verified"},
                      !["source_documents"] = @ \cup {"ledger_not_verified"}]
  /\ step' = "signature"

Required == args.ledger \/ args.tipKey \/ args.sources

\* no ledger at the path: a FAIL only when the caller asked for one
NoLedger ==
  /\ step = "ledger"
  /\ IF Required
     THEN /\ layers' = layers \cup {Fail}
          /\ unmet' = unmet \cup {"ledger_required"}
          /\ NotLookedAt({"not_present"})
     ELSE /\ layers' = layers \cup {Skip}
          /\ NotLookedAt({})
          /\ UNCHANGED unmet
  /\ UNCHANGED <<args, refusal, anchored, digestOK, receipt>>

\* it cannot be read, does not parse, or its chain does not hold
BadLedger ==
  /\ step = "ledger"
  /\ layers' = layers \cup {Fail}
  /\ \/ \E r \in {"ledger_malformed", "unreadable"} : NotLookedAt({r})
     \/ \E extra \in SUBSET {"entry_unknown_member"} : NotLookedAt(extra \cup {"chain_broken"})
  /\ UNCHANGED <<args, refusal, unmet, anchored, digestOK, receipt>>

\* the chain verifies: its entries, the binding, the anchor, the declared state
GoodLedger ==
  /\ step = "ledger"
  /\ \E schema, state \in BOOLEAN, anchor \in {"verified", "record_unbound", "not_anchored"} :
       LET found == {anchor, IF state THEN "verified" ELSE "state_mismatch"}
                    \cup (IF schema THEN {} ELSE {"entry_unknown_member"})
       IN /\ Told("ledger_anchor", found)
          /\ anchored' = (anchor = "verified")
          /\ layers' = layers \cup {PassIf(anchor = "verified"), PassIf(state)}
                              \cup (IF schema THEN {} ELSE {Fail})
  /\ step' = "sources"
  /\ UNCHANGED <<args, refusal, unmet, digestOK, receipt>>

\* faulty: documents that are missing or unreadable are passed over
CheckSourcesThatAreThere ==
  /\ step = "sources"
  /\ \E docs \in SUBSET {"verified", "hash_only", "unreadable", "source_mismatch",
                         "record_malformed"} :
       /\ layers' = layers \cup {PassIf(docs \cap {"source_mismatch", "record_malformed"} = {})}
       /\ Told("source_documents", docs)
       /\ UNCHANGED unmet
  /\ step' = "tip"
  /\ UNCHANGED <<args, refusal, anchored, digestOK, receipt>>

\* _source_documents: what it finds over the documents recorded by hash
CheckSources ==
  /\ step = "sources"
  /\ \E docs \in SUBSET {"verified", "hash_only", "unreadable", "source_mismatch",
                         "record_malformed"} :
       LET bad == docs \ {"verified", "hash_only"} # {}
           missing == "hash_only" \in docs
       IN /\ layers' = layers \cup
                         {IF bad \/ (missing /\ args.sources) THEN Fail
                          ELSE IF missing \/ docs = {} THEN Skip ELSE Pass}
          /\ unmet' = IF missing /\ args.sources THEN unmet \cup {"sources_required"}
                                                 ELSE unmet
          /\ Told("source_documents", docs)
  /\ step' = "tip"
  /\ UNCHANGED <<args, refusal, anchored, digestOK, receipt>>

\* faulty: a missing tip is skipped although a key was given for it
TipNotCheckedSkips ==
  /\ step = "tip"
  /\ \E t \in SUBSET {IF args.tipKey THEN "not_present" ELSE "key_not_given"} :
       Told("signed_tip", t)
  /\ layers' = layers \cup {Skip}
  /\ step' = "signature"
  /\ UNCHANGED <<args, refusal, unmet, anchored, digestOK, receipt>>

\* no tip next to the ledger, or none that the caller gave a key for
TipNotChecked ==
  /\ step = "tip"
  /\ IF args.tipKey
     THEN /\ Told("signed_tip", {"not_present"})
          /\ unmet' = unmet \cup {"tip_required"}
          /\ layers' = layers \cup {Fail}
     ELSE /\ \E t \in SUBSET {"key_not_given"} : Told("signed_tip", t)
          /\ layers' = layers \cup {Skip}
          /\ UNCHANGED unmet
  /\ step' = "signature"
  /\ UNCHANGED <<args, refusal, anchored, digestOK, receipt>>

\* verify_tip: without `cryptography` a well-formed tip stays unchecked
CheckTip ==
  /\ step = "tip"
  /\ args.tipKey
  /\ \/ /\ Told("signed_tip", {"verified"}) /\ args.crypto
        /\ layers' = layers \cup {Pass}
     \/ /\ Told("signed_tip", {"instrument_failure"}) /\ ~args.crypto
        /\ layers' = layers \cup {Uncheckable}
     \/ /\ \E r \in {"tip_invalid", "unreadable", "tail_mismatch"} :
             (r = "tail_mismatch" => args.crypto) /\ Told("signed_tip", {r})
        /\ layers' = layers \cup {Fail}
  /\ step' = "signature"
  /\ UNCHANGED <<args, refusal, unmet, anchored, digestOK, receipt>>

\* the answer, once the signature's layer, element and policies are in
Conclude(status, trusted, layer, e) ==
  LET auth == Auth(status, trusted)
      strict == args.trust /\ status # "FAIL" /\ ~trusted
      L == layers \cup {layer} \cup (IF strict THEN {Fail} ELSE {})
      E == [el EXCEPT !["producer_signature"] = {e}]
      U == unmet \cup (IF args.trust /\ ~trusted THEN {"trusted_signer"} ELSE {})
                 \cup (IF status = "PASS" \/ anchored THEN {} ELSE {"authenticity_basis"})
  IN /\ layers' = L /\ el' = E /\ unmet' = U
     /\ receipt' = Answer(auth, L, E, U)
     /\ step' = "done"
     /\ UNCHANGED <<args, refusal, anchored, digestOK>>

\* verify_pack_signature: no sidecar
Unsigned ==
  /\ step = "signature"
  /\ Conclude("SKIP", FALSE, Skip, "not_present")

\* faulty: without `cryptography`, a malformed sidecar is no finding either
BadSignatureUnjudged ==
  /\ step = "signature"
  /\ \E r \in {"unreadable", "sidecar_malformed", "digest_mismatch", "signature_invalid",
               "instrument_failure"} :
       /\ r \in {"signature_invalid", "instrument_failure"} => digestOK
       /\ r = "instrument_failure" => ~args.crypto
       /\ Conclude("FAIL", FALSE, IF args.crypto THEN Fail ELSE Uncheckable, r)

\* a sidecar that does not verify, or that cannot be checked on this host
BadSignature ==
  /\ step = "signature"
  /\ \E r \in {"unreadable", "sidecar_malformed", "digest_mismatch", "signature_invalid",
               "instrument_failure"} :
       /\ r \in {"signature_invalid", "instrument_failure"} => digestOK
       /\ r = "instrument_failure" => ~args.crypto
       /\ Conclude("FAIL", FALSE, IF r = "instrument_failure" THEN Uncheckable ELSE Fail, r)

\* it verifies; with a trust store, its key is the signer's or it is not
GoodSignature ==
  /\ step = "signature"
  /\ digestOK /\ args.crypto
  /\ \E trusted \in BOOLEAN :
       /\ trusted => args.trust
       /\ Conclude("PASS", trusted, Pass,
                   IF trusted THEN "verified"
                   ELSE IF args.trust THEN "key_unresolved" ELSE "self_asserted")

\* an exception nobody foresaw, in any check: fail closed, and say so
Raises ==
  /\ step # "done"
  /\ step' = "done"
  /\ layers' = {Fail}
  /\ el' = [s \in Subjects |-> {}]
  /\ refusal' = "none" /\ unmet' = {} /\ anchored' = FALSE
  /\ receipt' = NoReceipt
  /\ UNCHANGED <<args, digestOK>>

\* the CLI's exit status
Exit == IF receipt.ok THEN 0 ELSE IF ~receipt.assessed THEN 77 ELSE 1

Next ==
  \/ Unreadable \/ ReadPack \/ CheckPack \/ NoLedger \/ BadLedger \/ GoodLedger
  \/ CheckSources \/ TipNotChecked \/ CheckTip \/ Unsigned \/ BadSignature
  \/ GoodSignature \/ Raises

Spec == Init /\ [][Next]_vars

-----------------------------------------------------------------------------
(* Properties.                                                             *)

Done == step = "done"
Elements == UNION {el[s] : s \in Subjects}
Stated(st) == \E s \in Subjects : receipt.states[s] = st

(* RECEIPT.md section 4: on every admitted receipt `ok`, computed from the *)
(* layers, is exactly what the states and the policy say: nothing is       *)
(* contradicted, no check failed closed, and every policy is met.          *)
OkIsTheStates ==
  Done /\ receipt.admission = "admitted" =>
    (receipt.ok <=> /\ ~Stated("contradicted")
                    /\ Elements \cap FailClosed = {}
                    /\ receipt.met)

(* RECEIPT.md sections 4 and 5: exit 77 is never the answer to a pack with *)
(* a finding against it or to a refused one: the host lacked an instrument *)
(* or the verifier itself raised.                                          *)
NotAssessedIsNoFinding ==
  Done /\ Exit = 77 =>
    \/ receipt.admission = "not_evaluated"
    \/ /\ receipt.admission = "admitted"
       /\ ~Stated("contradicted")
       /\ "instrument_failure" \in Elements

(* A pack that is refused, or not evaluated, is never reported as          *)
(* verified, and gets no states (RECEIPT.md section 1).                    *)
RefusedIsNotOk ==
  Done /\ receipt.admission # "admitted" =>
    /\ ~receipt.ok /\ receipt.authenticity = "FAIL"
    /\ ~Stated("verified") /\ ~receipt.met

(* An exit 0 says no more than was established: `trusted-signed` exactly   *)
(* when a trust store was given, and then the signature's state is         *)
(* verified; `anchored` only with a verified ledger; a check the caller    *)
(* asked for by name was made and came out verified.                       *)
OkIsEarned ==
  Done /\ receipt.ok =>
    /\ receipt.authenticity = "trusted-signed" <=> args.trust
    /\ args.trust => receipt.states["producer_signature"] = "verified"
    /\ receipt.authenticity = "anchored" \/ Required
         => receipt.states["ledger_anchor"] = "verified"
    /\ args.tipKey => receipt.states["signed_tip"] = "verified"
    /\ args.sources => receipt.states["source_documents"] # "contradicted"
                       /\ "hash_only" \notin el["source_documents"]
    /\ receipt.states["sealed_content"] = "verified"
=============================================================================

---------------------------- MODULE VerdictProofs ----------------------------
(***************************************************************************)
(* Proofs about Verdict: the equation of spec/RECEIPT.md section 4 between *)
(* the verdict computed from the layers and the states computed beside it, *)
(* and what a receipt that is not `ok` may be.                             *)
(*                                                                         *)
(* The argument is one invariant, Agreement, on the two records the checks *)
(* keep: until the last check, a FAIL that is a finding has been reported  *)
(* exactly if some element, refusal or unmet policy says so, and a layer   *)
(* that is not assessed exactly if some element is instrument_failure.     *)
(* The last check adds to both and reads the answer off them.              *)
(***************************************************************************)
EXTENDS Verdict, TLAPS

Adverse == Contradicted \cup {"unreadable"}

\* some subject has an element of X
Some(X) == \E s \in Subjects : el[s] \cap X # {}

Finding == refusal # "none" \/ unmet # {} \/ Some(Adverse)

Agreement ==
  step # "done" =>
    /\ el["producer_signature"] = {}
    /\ Finding <=> Fail \in layers
    /\ Some({"instrument_failure"}) <=> Uncheckable \in layers

\* nothing is known before the pack is looked at
Fresh ==
  step \in {"read", "pack"} =>
    refusal = "none" /\ unmet = {} /\ \A s \in Subjects : el[s] = {}

Answers == OkIsTheStates /\ NotAssessedIsNoFinding /\ RefusedIsNotOk

VInv == VerdictTypeOK /\ Fresh /\ Agreement /\ Answers

-----------------------------------------------------------------------------
(* Elements, layers, folds.                                                *)

\* the four layers are different, and only two of them are FAIL
LEMMA LayersDiffer ==
  /\ Fail # Pass /\ Fail # Skip /\ Fail # Uncheckable
  /\ Uncheckable # Pass /\ Uncheckable # Skip
  /\ \A l \in Layer : l.status = "FAIL" <=> l \in {Fail, Uncheckable}
  /\ \A l \in Layer : l.assessed <=> l # Uncheckable
  /\ \A l \in Layer : l.assessed \/ l.status = "FAIL"
  /\ Fail \in Layer /\ Uncheckable \in Layer /\ Pass \in Layer /\ Skip \in Layer
BY DEF Layer, Fail, Pass, Skip, Uncheckable

\* an instrument failure is no finding, and neither is what was not looked at
LEMMA Kinds ==
  /\ "instrument_failure" \notin Adverse
  /\ FailClosed = {"instrument_failure", "unreadable"}
  /\ \A r \in {"verified", "not_present", "key_not_given", "hash_only", "self_asserted",
               "ledger_not_verified", "key_unresolved"} :
       r \notin Adverse /\ r # "instrument_failure" /\ r \in Element
  /\ \A r \in {"unreadable", "digest_mismatch", "self_verification_failed",
               "ledger_malformed", "entry_unknown_member", "chain_broken",
               "record_unbound", "not_anchored", "state_mismatch", "tip_invalid",
               "tail_mismatch", "source_mismatch", "record_malformed",
               "sidecar_malformed", "signature_invalid"} :
       r \in Adverse /\ r # "instrument_failure" /\ r \in Element
  /\ "instrument_failure" \in Element
  /\ Contradicted \cap NotEvaluated = {}
  /\ "verified" \notin Contradicted \cup NotEvaluated
BY DEF Adverse, FailClosed, Contradicted, NotEvaluated, Element

\* elements told about a subject are added to what is there, and only there
LEMMA ToldAdds ==
  ASSUME el \in [Subjects -> SUBSET Element], NEW s \in Subjects, NEW E, NEW X,
         Told(s, E)
  PROVE  /\ Some(X)' <=> Some(X) \/ E \cap X # {}
         /\ s # "producer_signature" =>
              el'["producer_signature"] = el["producer_signature"]
         /\ E \subseteq Element => el' \in [Subjects -> SUBSET Element]
<1>1. \A t \in Subjects : el'[t] = IF t = s THEN el[t] \cup E ELSE el[t]
  BY DEF Told
<1>2. Some(X)' <=> Some(X) \/ E \cap X # {}
  <2>1. Some(X)' => Some(X) \/ E \cap X # {}
    BY <1>1 DEF Some
  <2>2. Some(X) => Some(X)'
    BY <1>1 DEF Some
  <2>3. E \cap X # {} => Some(X)'
    BY <1>1 DEF Some
  <2> QED BY <2>1, <2>2, <2>3
<1>3. "producer_signature" \in Subjects
  BY DEF Subjects
<1>4. E \subseteq Element => el' \in [Subjects -> SUBSET Element]
  BY <1>1 DEF Told
<1> QED BY <1>1, <1>2, <1>3, <1>4

\* a ledger that is not looked into adds E, and that nothing else was looked at
LEMMA NotLookedAtAdds ==
  ASSUME el \in [Subjects -> SUBSET Element], NEW E, E \subseteq Element, NEW X,
         "ledger_not_verified" \notin X, NotLookedAt(E)
  PROVE  /\ Some(X)' <=> Some(X) \/ E \cap X # {}
         /\ el'["producer_signature"] = el["producer_signature"]
         /\ el' \in [Subjects -> SUBSET Element]
<1>1. /\ \A t \in Subjects :
           el'[t] = el[t] \cup (IF t = "ledger_anchor" THEN E
                                ELSE IF t \in {"signed_tip", "source_documents"}
                                     THEN {"ledger_not_verified"} ELSE {})
      /\ "ledger_anchor" \in Subjects /\ "producer_signature" \in Subjects
  BY DEF NotLookedAt, Subjects
<1>2. el' \in [Subjects -> SUBSET Element]
  BY <1>1, Kinds DEF NotLookedAt
<1>3. Some(X)' => Some(X) \/ E \cap X # {}
  BY <1>1 DEF Some
<1>4. Some(X) \/ E \cap X # {} => Some(X)'
  BY <1>1 DEF Some
<1> QED BY <1>1, <1>2, <1>3, <1>4

\* a fold is contradicted exactly if an element is
LEMMA FoldContradicted ==
  ASSUME NEW E \in SUBSET Element
  PROVE  /\ Fold(E) \in States
         /\ Fold(E) # "none"
         /\ Fold(E) = "contradicted" <=> E \cap Contradicted # {}
BY DEF Fold, States

-----------------------------------------------------------------------------
(* The last check.                                                         *)

\* what the last check may come out as
Outcome(status, trusted, layer, e) ==
  /\ trusted \in BOOLEAN /\ (trusted => status = "PASS" /\ args.trust)
  /\ e \in Element
  /\ \/ status = "PASS" /\ layer = Pass /\ e \notin Adverse \cup {"instrument_failure"}
     \/ status = "SKIP" /\ layer = Skip /\ e \notin Adverse \cup {"instrument_failure"}
     \/ status = "FAIL" /\ layer = Fail /\ e \in Adverse
     \/ status = "FAIL" /\ layer = Uncheckable /\ e = "instrument_failure"

\* the element of the signature is added to the others
LEMMA ConcludeAdds ==
  ASSUME VerdictTypeOK, el["producer_signature"] = {}, NEW e \in Element, NEW X,
         el' = [el EXCEPT !["producer_signature"] = {e}]
  PROVE  /\ Some(X)' <=> Some(X) \/ e \in X
         /\ el' \in [Subjects -> SUBSET Element]
<1>1. /\ \A t \in Subjects : el'[t] = IF t = "producer_signature" THEN {e} ELSE el[t]
      /\ "producer_signature" \in Subjects
  BY DEF VerdictTypeOK, Subjects
<1>2. el' \in [Subjects -> SUBSET Element]
  BY <1>1 DEF VerdictTypeOK
<1>3. Some(X)' => Some(X) \/ e \in X
  BY <1>1 DEF Some
<1>4. Some(X) => Some(X)'
  BY <1>1 DEF Some
<1>5. e \in X => Some(X)'
  BY <1>1 DEF Some
<1> QED BY <1>2, <1>3, <1>4, <1>5

LEMMA Concluded ==
  ASSUME VInv, step = "signature",
         NEW status, NEW trusted, NEW layer, NEW e, Outcome(status, trusted, layer, e),
         Conclude(status, trusted, layer, e)
  PROVE  VInv'
<1> DEFINE strict == args.trust /\ status # "FAIL" /\ ~trusted
           L == layers \cup {layer} \cup (IF strict THEN {Fail} ELSE {})
           auth == Auth(status, trusted)
<1>1. /\ layers' = L /\ step' = "done"
      /\ el' = [el EXCEPT !["producer_signature"] = {e}]
      /\ receipt' = Answer(auth, L, el', unmet')
      /\ unmet' = unmet \cup (IF args.trust /\ ~trusted THEN {"trusted_signer"} ELSE {})
                     \cup (IF status = "PASS" \/ anchored THEN {} ELSE {"authenticity_basis"})
      /\ UNCHANGED <<args, refusal, anchored, digestOK>>
  BY DEF Conclude
<1>2. /\ el["producer_signature"] = {}
      /\ Finding <=> Fail \in layers
      /\ Some({"instrument_failure"}) <=> Uncheckable \in layers
      /\ args.trust \in BOOLEAN /\ anchored \in BOOLEAN
      /\ layers \subseteq Layer
  BY DEF VInv, Agreement, VerdictTypeOK, Args
<1>3. /\ e \in Element /\ trusted \in BOOLEAN
      /\ status \in {"PASS", "SKIP", "FAIL"}
      /\ trusted => status = "PASS" /\ args.trust
      /\ layer = Fail <=> e \in Adverse
      /\ layer = Uncheckable <=> e = "instrument_failure"
      /\ status = "FAIL" <=> layer \in {Fail, Uncheckable}
      /\ layer \in Layer
  BY LayersDiffer, Kinds DEF Outcome
<1>4. /\ Some(Adverse)' <=> Some(Adverse) \/ e \in Adverse
      /\ Some({"instrument_failure"})' <=>
           Some({"instrument_failure"}) \/ e = "instrument_failure"
      /\ el' \in [Subjects -> SUBSET Element]
  BY <1>1, <1>2, <1>3, ConcludeAdds DEF VInv
<1>5. L \subseteq Layer
  BY <1>2, <1>3, LayersDiffer
<1>6. /\ Fail \in L <=> Finding \/ e \in Adverse \/ strict
      /\ Uncheckable \in L <=> Some({"instrument_failure"})'
  BY <1>2, <1>3, <1>4, LayersDiffer
<1>7. /\ (\E l \in L : l.status = "FAIL") <=> Fail \in L \/ Uncheckable \in L
      /\ (\E l \in L : l.status = "FAIL" /\ l.assessed) <=> Fail \in L
      /\ (\E l \in L : ~l.assessed) <=> Uncheckable \in L
  BY <1>5, LayersDiffer
<1>8. /\ auth \in Authenticities
      /\ auth # "FAIL" <=> status # "FAIL" /\ ~(args.trust /\ ~trusted)
                           /\ (status = "PASS" \/ anchored)
  BY <1>2, <1>3 DEF Auth, Authenticities
<1>9. /\ receipt'.ok <=> auth # "FAIL" /\ Fail \notin L /\ Uncheckable \notin L
      /\ receipt'.ok \in BOOLEAN
      /\ receipt'.assessed <=> Fail \in L \/ Uncheckable \notin L
      /\ receipt'.assessed \in BOOLEAN
      /\ receipt'.authenticity = IF receipt'.ok THEN auth ELSE "FAIL"
      /\ receipt'.admission = IF refusal = "none" THEN "admitted" ELSE "refused"
      /\ receipt'.class = refusal
      /\ receipt'.states = IF refusal = "none" THEN [s \in Subjects |-> Fold(el'[s])]
                           ELSE Unstated
      /\ receipt'.met <=> refusal = "none" /\ unmet' = {}
      /\ receipt'.met \in BOOLEAN
  BY <1>1, <1>7 DEF Answer
<1>10. VerdictTypeOK'
  <2>1. receipt'.states \in [Subjects -> States]
    <3>1. Unstated \in [Subjects -> States]
      BY DEF Unstated, States
    <3>2. [s \in Subjects |-> Fold(el'[s])] \in [Subjects -> States]
      BY <1>4, FoldContradicted
    <3> QED BY <3>1, <3>2, <1>9
  <2>2. receipt' \in Receipt
    <3>1. receipt' = [ok |-> receipt'.ok, assessed |-> receipt'.assessed,
                      authenticity |-> receipt'.authenticity,
                      admission |-> receipt'.admission, class |-> receipt'.class,
                      states |-> receipt'.states, met |-> receipt'.met]
      BY <1>1 DEF Answer
    <3>2. receipt'.authenticity \in Authenticities
      BY <1>8, <1>9 DEF Authenticities
    <3>3. receipt'.class \in Classes \cup {"none"}
      BY <1>9 DEF VInv, VerdictTypeOK
    <3> QED BY <3>1, <3>2, <3>3, <2>1, <1>9 DEF Receipt
  <2>3. /\ unmet' \subseteq Policies /\ step' \in Checks
        /\ layers' \subseteq Layer
        /\ \A l \in layers' : l.assessed \/ l.status = "FAIL"
    BY <1>1, <1>5, LayersDiffer DEF VInv, VerdictTypeOK, Policies, Checks
  <2> QED BY <2>2, <2>3, <1>1, <1>4 DEF VInv, VerdictTypeOK
<1>11. refusal = "none" =>
         /\ (\E s \in Subjects : receipt'.states[s] = "contradicted")
              <=> \E s \in Subjects : el'[s] \cap Contradicted # {}
         /\ (UNION {el'[s] : s \in Subjects}) \cap FailClosed = {}
              <=> ~Some(FailClosed)'
         /\ "instrument_failure" \in UNION {el'[s] : s \in Subjects}
              <=> Some({"instrument_failure"})'
  <2> SUFFICES ASSUME refusal = "none"
               PROVE /\ (\E s \in Subjects : receipt'.states[s] = "contradicted")
                          <=> \E s \in Subjects : el'[s] \cap Contradicted # {}
                     /\ (UNION {el'[s] : s \in Subjects}) \cap FailClosed = {}
                          <=> ~Some(FailClosed)'
                     /\ "instrument_failure" \in UNION {el'[s] : s \in Subjects}
                          <=> Some({"instrument_failure"})'
    OBVIOUS
  <2>1. \A s \in Subjects : receipt'.states[s] = Fold(el'[s])
    BY <1>9
  <2>2. \A s \in Subjects : el'[s] \in SUBSET Element
    BY <1>4
  <2>3. \A s \in Subjects : receipt'.states[s] = "contradicted"
                              <=> el'[s] \cap Contradicted # {}
    BY <2>1, <2>2, FoldContradicted
  <2>4. (UNION {el'[s] : s \in Subjects}) \cap FailClosed = {}
              <=> ~Some(FailClosed)'
    BY DEF Some
  <2>5. "instrument_failure" \in UNION {el'[s] : s \in Subjects}
              <=> Some({"instrument_failure"})'
    BY DEF Some
  <2> QED BY <2>3, <2>4, <2>5
<1>12. /\ (\E s \in Subjects : el'[s] \cap Contradicted # {})
            \/ Some(FailClosed)'
            <=> Some(Adverse)' \/ Some({"instrument_failure"})'
       /\ (\E s \in Subjects : el'[s] \cap Contradicted # {}) => Some(Adverse)'
  BY Kinds DEF Some, Adverse
<1>13. unmet' = {} <=> /\ unmet = {} /\ ~(args.trust /\ ~trusted)
                       /\ status = "PASS" \/ anchored
  BY <1>1, <1>2, <1>3
<1>14. OkIsTheStates'
  <2> SUFFICES ASSUME refusal = "none"
               PROVE  receipt'.ok <=>
                        /\ ~\E s \in Subjects : receipt'.states[s] = "contradicted"
                        /\ (UNION {el'[s] : s \in Subjects}) \cap FailClosed = {}
                        /\ receipt'.met
    BY <1>9 DEF OkIsTheStates, Stated, Elements
  <2>1. receipt'.ok <=> /\ ~Some(Adverse) /\ e \notin Adverse
                        /\ ~Some({"instrument_failure"})' /\ unmet' = {}
    BY <1>3, <1>6, <1>8, <1>9, <1>13, <1>4, LayersDiffer DEF Finding
  <2>2. receipt'.ok <=> ~Some(Adverse)' /\ ~Some({"instrument_failure"})' /\ unmet' = {}
    BY <2>1, <1>4
  <2> QED BY <2>2, <1>9, <1>11, <1>12
<1>15. NotAssessedIsNoFinding'
  <2> SUFFICES ASSUME ~receipt'.assessed
               PROVE  /\ refusal = "none"
                      /\ ~\E s \in Subjects : receipt'.states[s] = "contradicted"
                      /\ "instrument_failure" \in UNION {el'[s] : s \in Subjects}
    BY <1>9 DEF NotAssessedIsNoFinding, Stated, Elements, Exit
  <2>1. ~Finding /\ e \notin Adverse /\ Some({"instrument_failure"})'
    BY <1>6, <1>9
  <2>2. refusal = "none" /\ ~Some(Adverse)'
    BY <2>1, <1>4 DEF Finding
  <2> QED BY <2>1, <2>2, <1>11, <1>12
<1>16. RefusedIsNotOk'
  <2> SUFFICES ASSUME refusal # "none"
               PROVE  /\ ~receipt'.ok /\ receipt'.authenticity = "FAIL"
                      /\ ~\E s \in Subjects : receipt'.states[s] = "verified"
                      /\ ~receipt'.met
    BY <1>9 DEF RefusedIsNotOk, Stated
  <2>1. ~receipt'.ok
    BY <1>6, <1>9 DEF Finding
  <2> QED BY <2>1, <1>9 DEF Unstated
<1>17. Agreement' /\ Fresh'
  BY <1>1 DEF Agreement, Fresh
<1> QED BY <1>10, <1>14, <1>15, <1>16, <1>17 DEF VInv, Answers

-----------------------------------------------------------------------------
(* The other checks.                                                       *)

\* before the answer, the properties ask for nothing
LEMMA NotYet ==
  ASSUME step' # "done"
  PROVE  Answers'
BY DEF Answers, OkIsTheStates, NotAssessedIsNoFinding, RefusedIsNotOk, Done

\* what a check before the last one has to show
LEMMA CheckKeeps ==
  ASSUME VInv, step # "done", step' \in Checks \ {"read", "pack", "done"},
         NEW F, layers' = layers \cup F, F \subseteq Layer,
         el' \in [Subjects -> SUBSET Element],
         el'["producer_signature"] = el["producer_signature"],
         refusal' \in Classes \cup {"none"}, unmet' \subseteq Policies,
         anchored' \in BOOLEAN, digestOK' \in BOOLEAN,
         args' = args, receipt' = receipt,
         Finding' <=> Finding \/ Fail \in F,
         Some({"instrument_failure"})' <=> Some({"instrument_failure"}) \/ Uncheckable \in F
  PROVE  VInv'
<1>1. VerdictTypeOK'
  BY LayersDiffer DEF VInv, VerdictTypeOK, Checks
<1>2. Agreement' /\ Fresh'
  BY DEF VInv, Agreement, Fresh
<1> QED BY <1>1, <1>2, NotYet DEF VInv

LEMMA CheckPackKeeps == VInv /\ CheckPack => VInv'
<1> SUFFICES ASSUME VInv, CheckPack PROVE VInv'
  OBVIOUS
<1>1. PICK kind, schema, scope, snapshot, name \in BOOLEAN,
           digest \in {"verified", "digest_mismatch", "none"} :
        /\ refusal' = Refused(kind, schema, scope /\ digest # "none" /\ name)
        /\ layers' = layers \cup {PassIf(kind), PassIf(schema), PassIf(scope),
                                  PassIf(digest = "verified"), PassIf(snapshot)}
                            \cup (IF name THEN {} ELSE {Fail})
        /\ digestOK' = (digest = "verified")
        /\ LET sealed == ({digest} \ {"none"})
                         \cup {IF snapshot THEN "verified" ELSE "self_verification_failed"}
           IN IF name
              THEN Told("sealed_content", sealed) /\ step' = "ledger"
              ELSE /\ el' = [el EXCEPT !["sealed_content"] = sealed,
                                       !["signed_tip"] = {"ledger_not_verified"},
                                       !["source_documents"] = {"ledger_not_verified"}]
                   /\ step' = "signature"
  BY DEF CheckPack
<1> DEFINE sealed == ({digest} \ {"none"})
                     \cup {IF snapshot THEN "verified" ELSE "self_verification_failed"}
           F == {PassIf(kind), PassIf(schema), PassIf(scope),
                 PassIf(digest = "verified"), PassIf(snapshot)}
                \cup (IF name THEN {} ELSE {Fail})
<1>2. step = "pack" /\ UNCHANGED <<args, unmet, anchored, receipt>>
  BY DEF CheckPack
<1>3. F \subseteq Layer /\ layers' = layers \cup F
  BY <1>1, LayersDiffer DEF PassIf
<1>4. /\ Uncheckable \notin F
      /\ Fail \in F <=> ~kind \/ ~schema \/ ~scope \/ digest # "verified" \/ ~snapshot \/ ~name
  BY LayersDiffer DEF PassIf
<1>5. refusal' # "none" <=> ~kind \/ ~schema \/ ~scope \/ digest = "none" \/ ~name
  BY <1>1 DEF Refused
<1>6. refusal' \in Classes \cup {"none"}
  BY <1>1 DEF Refused, Classes
<1>7. /\ sealed \subseteq Element
      /\ sealed \cap Adverse # {} <=> digest = "digest_mismatch" \/ ~snapshot
      /\ sealed \cap {"instrument_failure"} = {}
  BY Kinds
<1>8. /\ el \in [Subjects -> SUBSET Element]
      /\ refusal = "none" /\ unmet = {} /\ \A s \in Subjects : el[s] = {}
      /\ Fail \notin layers
  BY <1>2 DEF VInv, VerdictTypeOK, Fresh, Agreement, Finding, Some
<1>9. /\ el' \in [Subjects -> SUBSET Element]
      /\ el'["producer_signature"] = el["producer_signature"]
      /\ Some(Adverse)' <=> sealed \cap Adverse # {}
      /\ ~Some({"instrument_failure"})'
      /\ step' \in Checks \ {"read", "pack", "done"}
  <2>1. CASE name
    <3>1. Told("sealed_content", sealed) /\ step' = "ledger"
      BY <1>1, <2>1
    <3>2. "sealed_content" \in Subjects
      BY DEF Subjects
    <3>3. ~Some(Adverse) /\ ~Some({"instrument_failure"})
      BY <1>8 DEF Some
    <3> QED BY <3>1, <3>2, <3>3, <1>7, <1>8, ToldAdds DEF Checks
  <2>2. CASE ~name
    <3>1. /\ el' = [el EXCEPT !["sealed_content"] = sealed,
                              !["signed_tip"] = {"ledger_not_verified"},
                              !["source_documents"] = {"ledger_not_verified"}]
          /\ step' = "signature"
      BY <1>1, <2>2
    <3>2. \A s \in Subjects :
            el'[s] = IF s = "sealed_content" THEN sealed
                     ELSE IF s \in {"signed_tip", "source_documents"}
                          THEN {"ledger_not_verified"} ELSE {}
      BY <3>1, <1>8
    <3>3. "sealed_content" \in Subjects /\ "producer_signature" \in Subjects
      BY DEF Subjects
    <3>4. el' \in [Subjects -> SUBSET Element]
      BY <3>1, <3>2, <1>7, <1>8, Kinds
    <3>5. Some(Adverse)' <=> sealed \cap Adverse # {}
      BY <3>2, <3>3, Kinds DEF Some
    <3>6. ~Some({"instrument_failure"})'
      BY <3>2, <1>7, Kinds DEF Some
    <3> QED BY <3>1, <3>2, <3>3, <3>4, <3>5, <3>6, <1>8 DEF Checks
  <2> QED BY <2>1, <2>2
<1>10. /\ Finding' <=> Finding \/ Fail \in F
       /\ Some({"instrument_failure"})' <=> Some({"instrument_failure"}) \/ Uncheckable \in F
  BY <1>2, <1>4, <1>5, <1>7, <1>8, <1>9 DEF Finding, Some
<1> QED
  BY <1>1, <1>2, <1>3, <1>6, <1>9, <1>10, CheckKeeps DEF VInv, VerdictTypeOK

\* a finding about the ledger, and nothing else was looked at
LEMMA NotLookedAtKeeps ==
  ASSUME VInv, step = "ledger", NEW E, E \subseteq Element, "instrument_failure" \notin E,
         NotLookedAt(E), NEW l \in {Fail, Skip}, layers' = layers \cup {l},
         unmet' \subseteq Policies, unmet \subseteq unmet',
         l = Fail => E \cap Adverse # {} \/ unmet' # {},
         E \cap Adverse # {} \/ unmet' # unmet => l = Fail,
         UNCHANGED <<args, refusal, anchored, digestOK, receipt>>
  PROVE  VInv'
<1>1. el \in [Subjects -> SUBSET Element]
  BY DEF VInv, VerdictTypeOK
<1>2. /\ Some(Adverse)' <=> Some(Adverse) \/ E \cap Adverse # {}
      /\ Some({"instrument_failure"})' <=> Some({"instrument_failure"})
      /\ el'["producer_signature"] = el["producer_signature"]
      /\ el' \in [Subjects -> SUBSET Element]
  BY <1>1, NotLookedAtAdds, Kinds
<1>3. step' = "signature"
  BY DEF NotLookedAt
<1>4. Finding' <=> Finding \/ Fail \in {l}
  BY <1>2 DEF Finding
<1>5. {l} \subseteq Layer /\ Uncheckable \notin {l}
  BY LayersDiffer
<1>6. step' \in Checks \ {"read", "pack", "done"} /\ step # "done"
  BY <1>3 DEF Checks
<1>7. refusal' \in Classes \cup {"none"} /\ anchored' \in BOOLEAN /\ digestOK' \in BOOLEAN
  BY DEF VInv, VerdictTypeOK
<1> QED BY <1>2, <1>4, <1>5, <1>6, <1>7, CheckKeeps

LEMMA NoLedgerKeeps == VInv /\ NoLedger => VInv'
<1> SUFFICES ASSUME VInv, NoLedger PROVE VInv'
  OBVIOUS
<1>1. CASE Required
  <2>1. unmet' = unmet \cup {"ledger_required"} /\ unmet' \subseteq Policies
    BY <1>1 DEF NoLedger, VInv, VerdictTypeOK, Policies
  <2>2. layers' = layers \cup {Fail} /\ NotLookedAt({"not_present"})
    BY <1>1 DEF NoLedger
  <2> QED BY <2>1, <2>2, Kinds, NotLookedAtKeeps DEF NoLedger
<1>2. CASE ~Required
  <2>1. layers' = layers \cup {Skip} /\ NotLookedAt({}) /\ unmet' = unmet
    BY <1>2 DEF NoLedger
  <2> QED BY <2>1, LayersDiffer, NotLookedAtKeeps DEF NoLedger, VInv, VerdictTypeOK
<1> QED BY <1>1, <1>2

LEMMA BadLedgerKeeps == VInv /\ BadLedger => VInv'
<1> SUFFICES ASSUME VInv, BadLedger PROVE VInv'
  OBVIOUS
<1>1. PICK E : /\ NotLookedAt(E)
               /\ E \in {{"ledger_malformed"}, {"unreadable"}, {"chain_broken"},
                         {"entry_unknown_member", "chain_broken"}}
  <2>1. CASE \E r \in {"ledger_malformed", "unreadable"} : NotLookedAt({r})
    BY <2>1
  <2>2. CASE \E extra \in SUBSET {"entry_unknown_member"} :
               NotLookedAt(extra \cup {"chain_broken"})
    <3>1. PICK extra \in SUBSET {"entry_unknown_member"} :
                 NotLookedAt(extra \cup {"chain_broken"})
      BY <2>2
    <3>2. extra \cup {"chain_broken"} \in {{"chain_broken"},
                                         {"entry_unknown_member", "chain_broken"}}
      OBVIOUS
    <3> QED BY <3>1, <3>2
  <2> QED BY <2>1, <2>2 DEF BadLedger
<1>2. E \subseteq Element /\ "instrument_failure" \notin E /\ E \cap Adverse # {}
  BY <1>1, Kinds
<1> QED BY <1>1, <1>2, NotLookedAtKeeps DEF BadLedger, VInv, VerdictTypeOK

\* a check that tells subject s the elements E and reports the layers F
LEMMA ToldKeeps ==
  ASSUME VInv, step \in {"ledger", "sources", "tip"}, NEW s \in Subjects,
         s # "producer_signature", NEW E, E \subseteq Element, Told(s, E),
         NEW F, F \subseteq Layer, layers' = layers \cup F,
         unmet' \subseteq Policies, unmet \subseteq unmet',
         Fail \in F => E \cap Adverse # {} \/ unmet' # {},
         E \cap Adverse # {} \/ unmet' # unmet => Fail \in F,
         "instrument_failure" \in E <=> Uncheckable \in F,
         step' \in {"sources", "tip", "signature"}, anchored' \in BOOLEAN,
         UNCHANGED <<args, refusal, digestOK, receipt>>
  PROVE  VInv'
<1>1. el \in [Subjects -> SUBSET Element]
  BY DEF VInv, VerdictTypeOK
<1>2. /\ Some(Adverse)' <=> Some(Adverse) \/ E \cap Adverse # {}
      /\ Some({"instrument_failure"})' <=>
           Some({"instrument_failure"}) \/ E \cap {"instrument_failure"} # {}
      /\ el'["producer_signature"] = el["producer_signature"]
      /\ el' \in [Subjects -> SUBSET Element]
  BY <1>1, ToldAdds
<1>3. Finding' <=> Finding \/ Fail \in F
  BY <1>2 DEF Finding
<1>4. Some({"instrument_failure"})' <=> Some({"instrument_failure"}) \/ Uncheckable \in F
  BY <1>2
<1>5. step' \in Checks \ {"read", "pack", "done"} /\ step # "done"
  BY DEF Checks
<1>6. refusal' \in Classes \cup {"none"} /\ digestOK' \in BOOLEAN
  BY DEF VInv, VerdictTypeOK
<1> QED BY <1>2, <1>3, <1>4, <1>5, <1>6, CheckKeeps

LEMMA GoodLedgerKeeps == VInv /\ GoodLedger => VInv'
<1> SUFFICES ASSUME VInv, GoodLedger PROVE VInv'
  OBVIOUS
<1>1. PICK schema, state \in BOOLEAN, anchor \in {"verified", "record_unbound", "not_anchored"} :
        /\ Told("ledger_anchor", {anchor, IF state THEN "verified" ELSE "state_mismatch"}
                                 \cup (IF schema THEN {} ELSE {"entry_unknown_member"}))
        /\ anchored' = (anchor = "verified")
        /\ layers' = layers \cup {PassIf(anchor = "verified"), PassIf(state)}
                            \cup (IF schema THEN {} ELSE {Fail})
  BY DEF GoodLedger
<1> DEFINE E == {anchor, IF state THEN "verified" ELSE "state_mismatch"}
                \cup (IF schema THEN {} ELSE {"entry_unknown_member"})
           F == {PassIf(anchor = "verified"), PassIf(state)}
                \cup (IF schema THEN {} ELSE {Fail})
<1>2. /\ E \subseteq Element /\ "instrument_failure" \notin E
      /\ E \cap Adverse # {} <=> anchor # "verified" \/ ~state \/ ~schema
  BY Kinds
<1>3. /\ F \subseteq Layer /\ Uncheckable \notin F
      /\ Fail \in F <=> anchor # "verified" \/ ~state \/ ~schema
      /\ layers' = layers \cup F
  BY <1>1, LayersDiffer DEF PassIf
<1>4. "ledger_anchor" \in Subjects /\ Told("ledger_anchor", E) /\ anchored' \in BOOLEAN
  BY <1>1 DEF Subjects
<1>5. /\ step = "ledger" /\ step' = "sources"
      /\ unmet' = unmet /\ unmet \subseteq Policies
      /\ UNCHANGED <<args, refusal, digestOK, receipt>>
  BY DEF GoodLedger, VInv, VerdictTypeOK
<1> HIDE DEF E, F
<1> QED BY <1>2, <1>3, <1>4, <1>5, ToldKeeps

LEMMA CheckSourcesKeeps == VInv /\ CheckSources => VInv'
<1> SUFFICES ASSUME VInv, CheckSources PROVE VInv'
  OBVIOUS
<1>1. PICK docs \in SUBSET {"verified", "hash_only", "unreadable", "source_mismatch",
                            "record_malformed"} :
        /\ layers' = layers \cup
                       {IF docs \ {"verified", "hash_only"} # {}
                           \/ ("hash_only" \in docs /\ args.sources) THEN Fail
                        ELSE IF "hash_only" \in docs \/ docs = {} THEN Skip ELSE Pass}
        /\ unmet' = IF "hash_only" \in docs /\ args.sources
                    THEN unmet \cup {"sources_required"} ELSE unmet
        /\ Told("source_documents", docs)
  BY DEF CheckSources
<1> DEFINE F == {IF docs \ {"verified", "hash_only"} # {}
                    \/ ("hash_only" \in docs /\ args.sources) THEN Fail
                 ELSE IF "hash_only" \in docs \/ docs = {} THEN Skip ELSE Pass}
<1>2. /\ docs \subseteq Element /\ "instrument_failure" \notin docs
      /\ docs \cap Adverse # {} <=> docs \ {"verified", "hash_only"} # {}
  BY Kinds
<1>3. /\ F \subseteq Layer /\ Uncheckable \notin F
      /\ Fail \in F <=> \/ docs \ {"verified", "hash_only"} # {}
                        \/ "hash_only" \in docs /\ args.sources
      /\ layers' = layers \cup F
  BY <1>1, LayersDiffer
<1>4. /\ unmet' \subseteq Policies /\ unmet \subseteq unmet'
      /\ "hash_only" \in docs /\ args.sources => unmet' # {}
      /\ unmet' # unmet => "hash_only" \in docs /\ args.sources
  BY <1>1 DEF VInv, VerdictTypeOK, Policies
<1>5. /\ step = "sources" /\ step' = "tip" /\ "source_documents" \in Subjects
      /\ anchored' \in BOOLEAN
      /\ UNCHANGED <<args, refusal, digestOK, receipt>>
  BY DEF CheckSources, VInv, VerdictTypeOK, Subjects
<1> HIDE DEF F
<1> QED BY <1>1, <1>2, <1>3, <1>4, <1>5, ToldKeeps

LEMMA TipNotCheckedKeeps == VInv /\ TipNotChecked => VInv'
<1> SUFFICES ASSUME VInv, TipNotChecked PROVE VInv'
  OBVIOUS
<1>1. /\ step = "tip" /\ step' = "signature" /\ "signed_tip" \in Subjects
      /\ anchored' \in BOOLEAN /\ unmet \subseteq Policies
      /\ UNCHANGED <<args, refusal, digestOK, receipt>>
  BY DEF TipNotChecked, VInv, VerdictTypeOK, Subjects
<1>2. CASE args.tipKey
  <2>1. /\ Told("signed_tip", {"not_present"}) /\ layers' = layers \cup {Fail}
        /\ unmet' = unmet \cup {"tip_required"} /\ unmet' \subseteq Policies
    BY <1>1, <1>2 DEF TipNotChecked, Policies
  <2>2. /\ {"not_present"} \subseteq Element /\ {"not_present"} \cap Adverse = {}
        /\ {Fail} \subseteq Layer /\ "instrument_failure" \notin {"not_present"}
        /\ Uncheckable \notin {Fail} /\ unmet \subseteq unmet' /\ unmet' # {}
    BY <2>1, Kinds, LayersDiffer
  <2> QED BY <1>1, <2>1, <2>2, ToldKeeps
<1>3. CASE ~args.tipKey
  <2>1. PICK t \in SUBSET {"key_not_given"} : Told("signed_tip", t)
    BY <1>3 DEF TipNotChecked
  <2>2. layers' = layers \cup {Skip} /\ unmet' = unmet
    BY <1>3 DEF TipNotChecked
  <2>3. t \subseteq Element /\ t \cap Adverse = {} /\ "instrument_failure" \notin t
    BY Kinds
  <2>4. {Skip} \subseteq Layer /\ Fail \notin {Skip} /\ Uncheckable \notin {Skip}
    BY LayersDiffer
  <2> QED BY <1>1, <2>1, <2>2, <2>3, <2>4, ToldKeeps
<1> QED BY <1>2, <1>3

LEMMA CheckTipKeeps == VInv /\ CheckTip => VInv'
<1> SUFFICES ASSUME VInv, CheckTip PROVE VInv'
  OBVIOUS
<1>1. /\ step = "tip" /\ step' = "signature" /\ "signed_tip" \in Subjects
      /\ anchored' \in BOOLEAN /\ unmet \subseteq Policies /\ unmet' = unmet
      /\ UNCHANGED <<args, refusal, digestOK, receipt>>
  BY DEF CheckTip, VInv, VerdictTypeOK, Subjects
<1>2. PICK r, l : /\ Told("signed_tip", {r}) /\ layers' = layers \cup {l}
                  /\ \/ r = "verified" /\ l = Pass
                     \/ r = "instrument_failure" /\ l = Uncheckable
                     \/ r \in {"tip_invalid", "unreadable", "tail_mismatch"} /\ l = Fail
  BY DEF CheckTip
<1>3. /\ {r} \subseteq Element /\ {l} \subseteq Layer
      /\ {r} \cap Adverse # {} <=> Fail \in {l}
      /\ "instrument_failure" \in {r} <=> Uncheckable \in {l}
  BY <1>2, Kinds, LayersDiffer
<1> QED BY <1>1, <1>2, <1>3, ToldKeeps

LEMMA SignatureKeeps == VInv /\ (Unsigned \/ BadSignature \/ GoodSignature) => VInv'
<1> SUFFICES ASSUME VInv, Unsigned \/ BadSignature \/ GoodSignature PROVE VInv'
  OBVIOUS
<1>0. step = "signature" /\ args.trust \in BOOLEAN
  BY DEF Unsigned, BadSignature, GoodSignature, VInv, VerdictTypeOK, Args
<1>1. CASE Unsigned
  <2>1. Outcome("SKIP", FALSE, Skip, "not_present")
    BY Kinds DEF Outcome
  <2> QED BY <1>0, <1>1, <2>1, Concluded DEF Unsigned
<1>2. CASE BadSignature
  <2>1. PICK r \in {"unreadable", "sidecar_malformed", "digest_mismatch",
                    "signature_invalid", "instrument_failure"} :
          Conclude("FAIL", FALSE, IF r = "instrument_failure" THEN Uncheckable ELSE Fail, r)
    BY <1>2 DEF BadSignature
  <2>2. Outcome("FAIL", FALSE, IF r = "instrument_failure" THEN Uncheckable ELSE Fail, r)
    BY Kinds DEF Outcome
  <2> QED BY <1>0, <2>1, <2>2, Concluded
<1>3. CASE GoodSignature
  <2>1. PICK trusted \in BOOLEAN :
          /\ trusted => args.trust
          /\ Conclude("PASS", trusted, Pass,
                      IF trusted THEN "verified"
                      ELSE IF args.trust THEN "key_unresolved" ELSE "self_asserted")
    BY <1>3 DEF GoodSignature
  <2>2. Outcome("PASS", trusted, Pass,
                IF trusted THEN "verified"
                ELSE IF args.trust THEN "key_unresolved" ELSE "self_asserted")
    BY <2>1, Kinds DEF Outcome
  <2> QED BY <1>0, <2>1, <2>2, Concluded
<1> QED BY <1>1, <1>2, <1>3

\* the answers that are given at once
LEMMA NoReceiptOK ==
  /\ NoReceipt \in Receipt
  /\ [NoReceipt EXCEPT !.assessed = TRUE, !.admission = "refused",
                       !.class = "malformed"] \in Receipt
  /\ ~NoReceipt.ok /\ NoReceipt.authenticity = "FAIL" /\ ~NoReceipt.met
  /\ NoReceipt.admission = "not_evaluated" /\ ~NoReceipt.assessed
  /\ NoReceipt.states = Unstated /\ \A s \in Subjects : Unstated[s] = "none"
BY DEF NoReceipt, Receipt, Unstated, Authenticities, Classes, States

LEMMA AtOnceKeeps == VInv /\ (Unreadable \/ Raises) => VInv'
<1> SUFFICES ASSUME VInv, Unreadable \/ Raises PROVE VInv'
  OBVIOUS
<1> DEFINE refused == [NoReceipt EXCEPT !.assessed = TRUE, !.admission = "refused",
                                        !.class = "malformed"]
<1>1. step' = "done" /\ layers' = {Fail}
  BY DEF Unreadable, Raises
<1>2. VerdictTypeOK'
  <2>1. CASE Unreadable
    BY <2>1, LayersDiffer, NoReceiptOK DEF Unreadable, VInv, VerdictTypeOK, Checks, Classes
  <2>2. CASE Raises
    <3>1. /\ args' = args /\ digestOK' = digestOK /\ refusal' = "none" /\ unmet' = {}
          /\ anchored' = FALSE /\ receipt' = NoReceipt /\ el' = [s \in Subjects |-> {}]
      BY <2>2 DEF Raises
    <3> QED BY <1>1, <3>1, LayersDiffer, NoReceiptOK DEF VInv, VerdictTypeOK, Checks
  <2> QED BY <2>1, <2>2
<1>3. \/ receipt' = NoReceipt
      \/ receipt' = refused
  BY DEF Unreadable, Raises
<1>4. refused.assessed /\ refused.admission = "refused" /\ ~refused.ok
      /\ refused.authenticity = "FAIL" /\ ~refused.met /\ refused.states = Unstated
  BY DEF NoReceipt
<1>5. Answers'
  <2>1. OkIsTheStates'
    <3>1. receipt'.admission # "admitted"
      BY <1>3, <1>4, NoReceiptOK
    <3> QED BY <3>1 DEF OkIsTheStates, Stated, Elements
  <2>2. NotAssessedIsNoFinding'
    <3>1. receipt'.admission = "not_evaluated" \/ receipt'.assessed
      BY <1>3, <1>4, NoReceiptOK
    <3>2. receipt'.assessed => Exit' # 77
      BY DEF Exit
    <3> QED BY <3>1, <3>2 DEF NotAssessedIsNoFinding
  <2>3. RefusedIsNotOk'
    BY <1>3, <1>4, NoReceiptOK DEF RefusedIsNotOk, Stated
  <2> QED BY <2>1, <2>2, <2>3 DEF Answers
<1> QED BY <1>1, <1>2, <1>5 DEF VInv, Fresh, Agreement

LEMMA ReadPackKeeps == VInv /\ ReadPack => VInv'
<1> SUFFICES ASSUME VInv, ReadPack PROVE VInv'
  OBVIOUS
<1>1. /\ step = "read" /\ step' = "pack" /\ layers' = {Pass}
      /\ UNCHANGED <<args, el, refusal, unmet, anchored, digestOK, receipt>>
  BY DEF ReadPack
<1>2. VerdictTypeOK'
  BY <1>1, LayersDiffer DEF VInv, VerdictTypeOK, Checks
<1>3. Fresh'
  BY <1>1 DEF VInv, Fresh
<1>4. "producer_signature" \in Subjects
  BY DEF Subjects
<1>5. Agreement'
  BY <1>1, <1>3, <1>4, LayersDiffer DEF Agreement, Fresh, Finding, Some
<1> QED BY <1>1, <1>2, <1>3, <1>5, NotYet DEF VInv

-----------------------------------------------------------------------------

LEMMA InitVInv == Init => VInv
<1> SUFFICES ASSUME Init PROVE VInv
  OBVIOUS
<1>1. VerdictTypeOK
  BY NoReceiptOK DEF Init, VerdictTypeOK, Checks
<1>2. Fresh /\ Agreement
  BY DEF Init, Fresh, Agreement, Finding, Some, Subjects
<1>3. Answers
  BY DEF Init, Answers, OkIsTheStates, NotAssessedIsNoFinding, RefusedIsNotOk, Done
<1> QED BY <1>1, <1>2, <1>3 DEF VInv

LEMMA NextVInv == VInv /\ [Next]_vars => VInv'
<1> SUFFICES ASSUME VInv, [Next]_vars PROVE VInv'
  OBVIOUS
<1>1. CASE UNCHANGED vars
  <2>1. VerdictTypeOK'
    BY <1>1 DEF VInv, VerdictTypeOK, vars
  <2>2. Fresh' /\ Agreement'
    BY <1>1 DEF VInv, Fresh, Agreement, Finding, Some, vars
  <2>3. Answers'
    BY <1>1 DEF VInv, Answers, OkIsTheStates, NotAssessedIsNoFinding, RefusedIsNotOk,
                Done, Stated, Elements, Exit, vars
  <2> QED BY <2>1, <2>2, <2>3 DEF VInv
<1>2. CASE Next
  BY <1>2, ReadPackKeeps, CheckPackKeeps, NoLedgerKeeps, BadLedgerKeeps, GoodLedgerKeeps,
     CheckSourcesKeeps, TipNotCheckedKeeps, CheckTipKeeps, SignatureKeeps, AtOnceKeeps
     DEF Next
<1> QED BY <1>1, <1>2

LEMMA Invariantly == Spec => []VInv
BY InitVInv, NextVInv, PTL DEF Spec

(* Every variable of a verification stays in its set, and only a FAIL is   *)
(* ever left unassessed, whatever each check finds.                        *)
THEOREM VerdictTyped == Spec => []VerdictTypeOK
<1>1. VInv => VerdictTypeOK
  BY DEF VInv
<1> QED BY <1>1, Invariantly, PTL

(* RECEIPT.md section 4: `ok`, computed from the layers, is what the       *)
(* states, the fail-closed reasons and the policy say.                     *)
THEOREM Equation == Spec => []OkIsTheStates
<1>1. VInv => OkIsTheStates
  BY DEF VInv, Answers
<1> QED BY <1>1, Invariantly, PTL

(* Exit 77 is the answer to a missing instrument or a fault of the         *)
(* verifier, never to a pack with a finding against it.                    *)
THEOREM Inconclusive == Spec => []NotAssessedIsNoFinding
<1>1. VInv => NotAssessedIsNoFinding
  BY DEF VInv, Answers
<1> QED BY <1>1, Invariantly, PTL

(* A pack that is refused or not evaluated is never ok and has no states.  *)
THEOREM Refusals == Spec => []RefusedIsNotOk
<1>1. VInv => RefusedIsNotOk
  BY DEF VInv, Answers
<1> QED BY <1>1, Invariantly, PTL
-----------------------------------------------------------------------------
(* What a PASS was given for.  As long as no check has failed, the         *)
(* subjects that were looked at are verified, those still to come have no  *)
(* element, and nothing is anchored before the ledger was checked.         *)
Clean == Fail \notin layers /\ Uncheckable \notin layers

Earned ==
  /\ step \in {"read", "pack"} => el["sealed_content"] = {}
  /\ step \in {"read", "pack", "ledger"} => ~anchored /\ el["ledger_anchor"] = {}
  /\ step \in {"read", "pack", "ledger", "sources"} => el["source_documents"] = {}
  /\ step \in {"read", "pack", "ledger", "sources", "tip"} => el["signed_tip"] = {}
  /\ Clean /\ step \in {"ledger", "sources", "tip", "signature"} =>
       el["sealed_content"] = {"verified"}
  /\ Clean /\ step \in {"sources", "tip", "signature"} /\ (anchored \/ Required) =>
       el["ledger_anchor"] = {"verified"}
  /\ Clean /\ step \in {"tip", "signature"} /\ args.sources =>
       el["source_documents"] \cap (Contradicted \cup {"hash_only"}) = {}
  /\ Clean /\ step = "signature" /\ args.tipKey => el["signed_tip"] = {"verified"}

EInv == VInv /\ Earned /\ OkIsEarned

\* the five subjects
LEMMA FiveSubjects ==
  /\ "sealed_content" \in Subjects /\ "ledger_anchor" \in Subjects
  /\ "signed_tip" \in Subjects /\ "source_documents" \in Subjects
  /\ "producer_signature" \in Subjects
BY DEF Subjects

\* a check of one subject leaves the others
LEMMA OthersStay ==
  ASSUME VerdictTypeOK, NEW s \in Subjects, NEW E, Told(s, E)
  PROVE  \A t \in Subjects : el'[t] = IF t = s THEN el[t] \cup E ELSE el[t]
BY DEF Told, VerdictTypeOK

\* layers are only added, so a failed check is not forgotten
LEMMA StaysClean ==
  ASSUME NEW F, layers' = layers \cup F, Clean'
  PROVE  Clean /\ Fail \notin F /\ Uncheckable \notin F
BY DEF Clean, Fail, Uncheckable

LEMMA CheckPackEarns == ASSUME EInv, CheckPack PROVE Earned'
<1>0. PICK kind, schema, scope, snapshot, name \in BOOLEAN,
           digest \in {"verified", "digest_mismatch", "none"} :
        /\ refusal' = Refused(kind, schema, scope /\ digest # "none" /\ name)
        /\ layers' = layers \cup {PassIf(kind), PassIf(schema), PassIf(scope),
                                  PassIf(digest = "verified"), PassIf(snapshot)}
                            \cup (IF name THEN {} ELSE {Fail})
        /\ digestOK' = (digest = "verified")
        /\ LET sealed == ({digest} \ {"none"})
                         \cup {IF snapshot THEN "verified" ELSE "self_verification_failed"}
           IN IF name
              THEN Told("sealed_content", sealed) /\ step' = "ledger"
              ELSE /\ el' = [el EXCEPT !["sealed_content"] = sealed,
                                       !["signed_tip"] = {"ledger_not_verified"},
                                       !["source_documents"] = {"ledger_not_verified"}]
                   /\ step' = "signature"
  BY DEF CheckPack
<1>1. /\ layers' = layers \cup ({PassIf(kind), PassIf(schema), PassIf(scope),
                                 PassIf(digest = "verified"), PassIf(snapshot)}
                                \cup (IF name THEN {} ELSE {Fail}))
      /\ name => /\ Told("sealed_content",
                         ({digest} \ {"none"})
                         \cup {IF snapshot THEN "verified" ELSE "self_verification_failed"})
                 /\ step' = "ledger"
      /\ ~name => step' = "signature"
  BY <1>0
<1>2. step = "pack" /\ anchored' = anchored
  BY DEF CheckPack
<1>3. CASE ~Clean'
  <2>1. CASE name
    <3>1. \A t \in Subjects \ {"sealed_content"} : el'[t] = el[t]
      BY <1>1, <2>1, OthersStay, FiveSubjects DEF EInv, VInv
    <3> QED BY <1>1, <1>2, <1>3, <2>1, <3>1, FiveSubjects DEF EInv, Earned
  <2>2. CASE ~name
    BY <1>1, <1>2, <1>3, <2>2 DEF Earned
  <2> QED BY <2>1, <2>2
<1>4. CASE Clean'
  <2>1. name /\ digest = "verified" /\ snapshot
    <3>1. /\ Fail \notin {PassIf(kind), PassIf(schema), PassIf(scope),
                          PassIf(digest = "verified"), PassIf(snapshot)}
                         \cup (IF name THEN {} ELSE {Fail})
      BY <1>1, <1>4, StaysClean
    <3> QED BY <3>1 DEF PassIf
  <2>2. /\ el'["sealed_content"] = {"verified"}
        /\ \A t \in Subjects \ {"sealed_content"} : el'[t] = el[t]
    <3>1. ({digest} \ {"none"})
          \cup {IF snapshot THEN "verified" ELSE "self_verification_failed"} = {"verified"}
      BY <2>1
    <3>2. el["sealed_content"] = {}
      BY <1>2 DEF EInv, Earned
    <3>3. Told("sealed_content", {"verified"})
      BY <1>1, <2>1, <3>1
    <3> QED BY <3>2, <3>3, OthersStay, FiveSubjects DEF EInv, VInv
  <2> QED BY <1>1, <1>2, <2>1, <2>2, FiveSubjects DEF EInv, Earned
<1> QED BY <1>3, <1>4

\* no ledger: none was required, and nothing is anchored
LEMMA NoLedgerEarns == ASSUME EInv, NoLedger PROVE Earned'
<1>1. step = "ledger" /\ step' = "signature" /\ UNCHANGED <<args, anchored>>
  BY DEF NoLedger, NotLookedAt
<1>2. CASE Required
  <2>1. Fail \in layers'
    BY <1>2 DEF NoLedger
  <2> QED BY <1>1, <2>1 DEF Earned, Clean
<1>3. CASE ~Required
  <2>1. layers' = layers \cup {Skip} /\ NotLookedAt({})
    BY <1>3 DEF NoLedger
  <2>2. el'["sealed_content"] = el["sealed_content"]
    BY <2>1, FiveSubjects DEF NotLookedAt, EInv, VInv, VerdictTypeOK
  <2>3. Clean' => Clean
    BY <2>1, StaysClean
  <2>4. ~Required' /\ ~args'.tipKey /\ ~args'.sources
    BY <1>1, <1>3 DEF Required
  <2> QED BY <1>1, <2>2, <2>3, <2>4 DEF EInv, Earned
<1> QED BY <1>2, <1>3

LEMMA BadLedgerEarns == ASSUME EInv, BadLedger PROVE Earned'
<1>1. Fail \in layers' /\ step' = "signature"
  BY DEF BadLedger, NotLookedAt
<1> QED BY <1>1 DEF Earned, Clean

\* the chain verifies: without a FAIL, the anchor and the state are verified
LEMMA GoodLedgerEarns == ASSUME EInv, GoodLedger PROVE Earned'
<1>1. PICK schema, state \in BOOLEAN, anchor \in {"verified", "record_unbound", "not_anchored"} :
        /\ Told("ledger_anchor", {anchor, IF state THEN "verified" ELSE "state_mismatch"}
                                 \cup (IF schema THEN {} ELSE {"entry_unknown_member"}))
        /\ anchored' = (anchor = "verified")
        /\ layers' = layers \cup {PassIf(anchor = "verified"), PassIf(state)}
                            \cup (IF schema THEN {} ELSE {Fail})
  BY Zenon DEF GoodLedger
<1>6. layers' = layers \cup ({PassIf(anchor = "verified"), PassIf(state)}
                            \cup (IF schema THEN {} ELSE {Fail}))
  BY <1>1
<1>2. step = "ledger" /\ step' = "sources" /\ args' = args
  BY DEF GoodLedger
<1>3. \A t \in Subjects \ {"ledger_anchor"} : el'[t] = el[t]
  BY <1>1, OthersStay, FiveSubjects, ZenonT(40) DEF EInv, VInv
<1>4. CASE ~Clean'
  BY <1>2, <1>3, <1>4, FiveSubjects DEF EInv, Earned
<1>5. CASE Clean'
  <2>1. Clean /\ anchor = "verified" /\ state /\ schema
    <3>1. Clean /\ Fail \notin {PassIf(anchor = "verified"), PassIf(state)}
                               \cup (IF schema THEN {} ELSE {Fail})
      BY <1>5, <1>6, StaysClean
    <3> QED BY <3>1 DEF PassIf
  <2>2. el'["ledger_anchor"] = {"verified"}
    <3>1. {anchor, IF state THEN "verified" ELSE "state_mismatch"}
          \cup (IF schema THEN {} ELSE {"entry_unknown_member"}) = {"verified"}
      BY <2>1
    <3>2. Told("ledger_anchor", {"verified"}) /\ el["ledger_anchor"] = {}
      BY <1>1, <1>2, <3>1 DEF EInv, Earned
    <3> QED BY <3>2, OthersStay, FiveSubjects DEF EInv, VInv
  <2> QED BY <1>2, <1>3, <2>1, <2>2, FiveSubjects DEF EInv, Earned
<1> QED BY <1>4, <1>5

LEMMA CheckSourcesEarns == ASSUME EInv, CheckSources PROVE Earned'
<1>1. PICK docs \in SUBSET {"verified", "hash_only", "unreadable", "source_mismatch",
                            "record_malformed"} :
        /\ layers' = layers \cup
                       {IF docs \ {"verified", "hash_only"} # {}
                           \/ ("hash_only" \in docs /\ args.sources) THEN Fail
                        ELSE IF "hash_only" \in docs \/ docs = {} THEN Skip ELSE Pass}
        /\ Told("source_documents", docs)
  BY DEF CheckSources
<1>2. step = "sources" /\ step' = "tip" /\ args' = args /\ anchored' = anchored
  BY DEF CheckSources
<1>3. \A t \in Subjects \ {"source_documents"} : el'[t] = el[t]
  BY <1>1, OthersStay, FiveSubjects DEF EInv, VInv
<1>4. el'["source_documents"] = docs
  <2>1. el["source_documents"] = {}
    BY <1>2 DEF EInv, Earned
  <2> QED BY <1>1, <2>1, OthersStay, FiveSubjects DEF EInv, VInv
<1>5. ASSUME Clean'
      PROVE  Clean /\ (args.sources => docs \cap (Contradicted \cup {"hash_only"}) = {})
  <2>2. /\ Clean
        /\ docs \subseteq {"verified", "hash_only"}
        /\ "hash_only" \in docs => ~args.sources
    BY <1>1, <1>5, StaysClean
  <2>3. "verified" \notin Contradicted /\ "hash_only" \notin Contradicted
    BY DEF Contradicted
  <2> QED BY <2>2, <2>3
<1>6. Required' = Required
  BY <1>2 DEF Required
<1> QED BY <1>2, <1>3, <1>4, <1>5, <1>6, FiveSubjects DEF EInv, Earned

LEMMA TipEarns == ASSUME EInv, TipNotChecked \/ CheckTip PROVE Earned'
<1>1. step = "tip" /\ step' = "signature" /\ args' = args /\ anchored' = anchored
  BY DEF TipNotChecked, CheckTip
<1>2. PICK E, l : /\ Told("signed_tip", E) /\ layers' = layers \cup {l}
                  /\ l \in {Fail, Uncheckable} \/ ~args.tipKey \/ E = {"verified"}
  <2>1. CASE TipNotChecked
    BY <2>1 DEF TipNotChecked
  <2>2. CASE CheckTip
    BY <2>2 DEF CheckTip
  <2> QED BY <2>1, <2>2
<1>3. \A t \in Subjects \ {"signed_tip"} : el'[t] = el[t]
  BY <1>2, OthersStay, FiveSubjects DEF EInv, VInv
<1>4. Clean' => Clean /\ (args.tipKey => el'["signed_tip"] = {"verified"})
  <2>1. SUFFICES ASSUME Clean', args.tipKey
                 PROVE  el'["signed_tip"] = {"verified"}
    BY <1>2, StaysClean
  <2>2. E = {"verified"}
    BY <1>2, <2>1, StaysClean
  <2>3. el["signed_tip"] = {}
    BY <1>1 DEF EInv, Earned
  <2> QED BY <1>2, <2>2, <2>3, OthersStay, FiveSubjects DEF EInv, VInv
<1>5. Required' = Required
  BY <1>1 DEF Required
<1> QED BY <1>1, <1>3, <1>4, <1>5, FiveSubjects DEF EInv, Earned

\* the answer: what an `ok` leaves of the signature's outcome, and of the rest
LEMMA ConcludeEarns ==
  ASSUME EInv, step = "signature", VInv',
         NEW status, NEW trusted \in BOOLEAN, NEW layer, NEW e,
         Conclude(status, trusted, layer, e),
         trusted => args.trust /\ e = "verified" /\ status = "PASS"
  PROVE  OkIsEarned'
<1> SUFFICES ASSUME receipt'.ok PROVE OkIsEarned'
  BY DEF OkIsEarned, Done
<1> DEFINE strict == args.trust /\ status # "FAIL" /\ ~trusted
           L == layers \cup {layer} \cup (IF strict THEN {Fail} ELSE {})
           auth == Auth(status, trusted)
<1>1. /\ layers' = L /\ step' = "done"
      /\ el' = [el EXCEPT !["producer_signature"] = {e}]
      /\ receipt' = Answer(auth, L, el', unmet')
      /\ UNCHANGED <<args, refusal, anchored>>
  BY DEF Conclude
<1>2. auth # "FAIL" /\ (\A l \in L : l.status # "FAIL") /\ receipt'.authenticity = auth
  BY <1>1 DEF Answer
<1>3. refusal = "none" /\ receipt'.states = [s \in Subjects |-> Fold(el'[s])]
  <2>1. receipt'.admission = "admitted"
    BY <1>1 DEF VInv, Answers, RefusedIsNotOk, Done
  <2>2. refusal = "none"
    BY <1>1, <2>1 DEF Answer
  <2> QED BY <1>1, <2>2 DEF Answer
<1>4. Clean
  <2>1. layers \subseteq L /\ Fail.status = "FAIL" /\ Uncheckable.status = "FAIL"
    BY DEF Fail, Uncheckable
  <2> QED BY <1>2, <2>1 DEF Clean
<1>5. \A s \in Subjects \ {"producer_signature"} : el'[s] = el[s]
  BY <1>1 DEF EInv, VInv, VerdictTypeOK
<1>6. el'["producer_signature"] = {e}
  BY <1>1, FiveSubjects DEF EInv, VInv, VerdictTypeOK
<1>7. Fold({"verified"}) = "verified"
  BY Kinds DEF Fold
<1>8. /\ auth = "trusted-signed" <=> trusted
      /\ args.trust <=> trusted
      /\ auth = "anchored" => anchored
  <2>1. args.trust => trusted
    BY <1>2 DEF Auth
  <2>2. auth = IF status = "PASS" THEN (IF trusted THEN "trusted-signed" ELSE "signed")
               ELSE IF anchored THEN "anchored" ELSE "FAIL"
    BY <1>2 DEF Auth
  <2>3. (auth = "trusted-signed" <=> trusted) /\ (auth = "anchored" => anchored)
    BY <2>2
  <2>4. args.trust \in BOOLEAN
    BY DEF EInv, VInv, VerdictTypeOK, Args
  <2> QED BY <2>1, <2>3, <2>4
<1>9. args.trust => receipt'.states["producer_signature"] = "verified"
  BY <1>3, <1>6, <1>7, <1>8, FiveSubjects
<1>10. receipt'.authenticity = "anchored" \/ Required =>
         receipt'.states["ledger_anchor"] = "verified"
  <2>1. anchored \/ Required => el["ledger_anchor"] = {"verified"}
    BY <1>4 DEF EInv, Earned
  <2>2. el'["ledger_anchor"] = el["ledger_anchor"]
        /\ receipt'.states["ledger_anchor"] = Fold(el'["ledger_anchor"])
    BY <1>3, <1>5, FiveSubjects
  <2> HIDE DEF auth
  <2> QED BY <1>2, <1>7, <1>8, <2>1, <2>2
<1>11. args.tipKey => receipt'.states["signed_tip"] = "verified"
  BY <1>3, <1>4, <1>5, <1>7, FiveSubjects DEF EInv, Earned
<1>12. args.sources => /\ receipt'.states["source_documents"] # "contradicted"
                       /\ "hash_only" \notin el'["source_documents"]
  <2>1. SUFFICES ASSUME args.sources
                 PROVE  /\ receipt'.states["source_documents"] # "contradicted"
                        /\ "hash_only" \notin el'["source_documents"]
    OBVIOUS
  <2>2. el'["source_documents"] \cap (Contradicted \cup {"hash_only"}) = {}
    BY <1>4, <1>5, <2>1, FiveSubjects DEF EInv, Earned
  <2>3. Fold(el'["source_documents"]) # "contradicted"
    BY <2>2 DEF Fold
  <2> QED BY <1>3, <2>2, <2>3, FiveSubjects
<1>13. receipt'.states["sealed_content"] = "verified"
  BY <1>3, <1>4, <1>5, <1>7, FiveSubjects DEF EInv, Earned
<1> QED BY <1>1, <1>2, <1>8, <1>9, <1>10, <1>11, <1>12, <1>13 DEF OkIsEarned, Required

LEMMA SignatureEarns ==
  ASSUME EInv, VInv', Unsigned \/ BadSignature \/ GoodSignature
  PROVE  OkIsEarned'
<1>1. step = "signature"
  BY DEF Unsigned, BadSignature, GoodSignature
<1>2. CASE Unsigned
  BY <1>1, <1>2, ConcludeEarns DEF Unsigned
<1>3. CASE BadSignature
  <2>1. PICK r : Conclude("FAIL", FALSE,
                          IF r = "instrument_failure" THEN Uncheckable ELSE Fail, r)
    BY <1>3 DEF BadSignature
  <2> QED BY <1>1, <2>1, ConcludeEarns
<1>4. CASE GoodSignature
  <2>1. PICK trusted \in BOOLEAN :
          /\ trusted => args.trust
          /\ Conclude("PASS", trusted, Pass,
                      IF trusted THEN "verified"
                      ELSE IF args.trust THEN "key_unresolved" ELSE "self_asserted")
    BY <1>4 DEF GoodSignature
  <2> DEFINE e == IF trusted THEN "verified"
                  ELSE IF args.trust THEN "key_unresolved" ELSE "self_asserted"
  <2>2. PICK f : f = e
    OBVIOUS
  <2>3. Conclude("PASS", trusted, Pass, f) /\ (trusted => f = "verified")
    BY <2>1, <2>2
  <2> HIDE DEF e
  <2> QED BY <1>1, <2>1, <2>3, ConcludeEarns
<1> QED BY <1>2, <1>3, <1>4

LEMMA NextEInv == EInv /\ [Next]_vars => EInv'
<1> SUFFICES ASSUME EInv, [Next]_vars PROVE EInv'
  OBVIOUS
<1>1. VInv'
  BY NextVInv DEF EInv
<1>2. CASE UNCHANGED vars
  <2>1. Earned'
    BY <1>2 DEF EInv, Earned, Clean, Required, vars
  <2>2. OkIsEarned'
    BY <1>2 DEF EInv, OkIsEarned, Done, Required, vars
  <2> QED BY <1>1, <2>1, <2>2 DEF EInv
<1>3. CASE ReadPack
  <2>1. step = "read" /\ step' = "pack" /\ el' = el /\ anchored' = anchored
    BY <1>3 DEF ReadPack
  <2> QED BY <1>1, <2>1 DEF EInv, Earned, OkIsEarned, Done
<1>4. CASE CheckPack \/ NoLedger \/ BadLedger \/ GoodLedger
           \/ CheckSources \/ TipNotChecked \/ CheckTip
  <2>1. Earned'
    BY <1>4, CheckPackEarns, NoLedgerEarns, BadLedgerEarns, GoodLedgerEarns,
       CheckSourcesEarns, TipEarns
  <2>2. step' # "done"
    BY <1>4 DEF CheckPack, NoLedger, BadLedger, GoodLedger, CheckSources, TipNotChecked,
                CheckTip, NotLookedAt
  <2> QED BY <1>1, <2>1, <2>2 DEF EInv, OkIsEarned, Done
<1>5. CASE Unsigned \/ BadSignature \/ GoodSignature
  <2>1. step' = "done"
    BY <1>5 DEF Unsigned, BadSignature, GoodSignature, Conclude
  <2> QED BY <1>1, <1>5, <2>1, SignatureEarns DEF EInv, Earned
<1>6. CASE Unreadable \/ Raises
  <2>1. step' = "done"
    BY <1>6 DEF Unreadable, Raises
  <2>2. ~receipt'.ok
    BY <1>6, NoReceiptOK DEF Unreadable, Raises, NoReceipt
  <2> QED BY <1>1, <2>1, <2>2 DEF EInv, Earned, OkIsEarned
<1> QED BY <1>2, <1>3, <1>4, <1>5, <1>6 DEF Next

(* OkIsEarned: an exit 0 was earned by every check the caller asked for by *)
(* name, for every outcome every check may have.                           *)
THEOREM ExitZeroEarned == Spec => []OkIsEarned
<1>1. Init => EInv
  BY InitVInv, FiveSubjects DEF Init, EInv, Earned, Clean, OkIsEarned, Done
<1>2. EInv => OkIsEarned
  BY DEF EInv
<1> QED BY <1>1, <1>2, NextEInv, PTL DEF Spec
=============================================================================

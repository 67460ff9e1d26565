----------------------------- MODULE MCLongTerm ------------------------------
(* Two signature algorithms and two hashes; "ed" and "sha3" may have an    *)
(* expiry, "pq" and "sha2" have none.                                      *)
EXTENDS LongTerm, TLC
MCPolicies == {<<>>, [ed |-> 2], [sha3 |-> 2], [ed |-> 3, sha3 |-> 2]}
Symmetry == Permutations(Digests)
=============================================================================

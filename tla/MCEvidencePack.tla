---------------------------- MODULE MCEvidencePack ----------------------------
(* Two processes share a ledger; one of them also writes packs.            *)
EXTENDS EvidencePack
=============================================================================

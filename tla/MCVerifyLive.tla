----------------------------- MODULE MCVerifyLive -----------------------------
(* Two processes that seal every entry, and a verifier that reads along.   *)
EXTENDS VerifyLive
=============================================================================

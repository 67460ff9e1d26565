------------------------------ MODULE MCVerdict ------------------------------
(* Every call, every host and every outcome of every check: no bound.      *)
EXTENDS Verdict
=============================================================================

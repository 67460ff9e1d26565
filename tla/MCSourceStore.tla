---------------------------- MODULE MCSourceStore ----------------------------
(* Two processes, two records that bind the same document.                 *)
EXTENDS SourceStore

CONSTANTS r1, r2, bom

MCDocOf == [d \in {r1, r2} |-> bom]
=============================================================================

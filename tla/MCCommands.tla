------------------------------ MODULE MCCommands ------------------------------
(* A receipt of three bytes through a buffer and a pipe of two; two OSV    *)
(* ids, one of them an alias of a listed CVE; chunks of two queries and    *)
(* one page after the first.                                               *)
EXTENDS CommandLine

MCAliases == [v \in VulnIds |-> IF v = "GHSA-1" THEN {"CVE-1"} ELSE {}]
MCListed == [f \in Catalogues |-> IF f = "cisa_kev" THEN {"CVE-0", "CVE-1"} ELSE {"CVE-0"}]
=============================================================================

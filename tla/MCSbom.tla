--------------------------------- MODULE MCSbom ---------------------------------
(* Three distributions, one of them spelled in two ways, with requirements *)
(* that form cycles, leave the environment or cannot be evaluated; seven   *)
(* components whose purls collide with each other, with numbered           *)
(* references and with the product's; SPDX graphs of four elements.        *)
EXTENDS Sbom, TLC

MCNorm == [n \in Names |-> IF n = "A" THEN "a" ELSE n]
MCDecimal(n) == ToString(n)
MCProduct == <<"p">>
MCTops == {<<"a">>, <<"b", "A">>, <<"a", "A", "c">>}

Req(n, m) == [name |-> n, marker |-> m]
MCRequires ==
  {<<>>, <<Req("a", "applies")>>, <<Req("b", "unknown")>>, <<Req("c", "applies"), Req("A", "applies")>>,
   <<Req("b", "elsewhere"), Req("c", "unknown")>>, <<Req("c", "extra")>>, <<Req("b", "applies"), Req("c", "applies")>>,
   <<Req("A", "extra"), Req("b", "applies"), Req("a", "unknown")>>}

Pkg(n, p) == [name |-> n, version |-> "v", purl |-> p]
MCPackages ==
  <<Pkg("t", <<"p">>), Pkg("u", <<"p", "product">>), Pkg("w", <<"x", "v">>), Pkg("x", <<>>), Pkg("x", <<"x", "v", "2">>),
    Pkg("y", <<"x", "v">>), Pkg("z", <<"x", "v">>)>>

MCElements ==
  [kind : {"package"}, id : {"P1", "P2"}, named : BOOLEAN]
    \cup [kind : {"root"}, roots : {{"P1"}, {"P2"}}]
    \cup [kind : {"concluded", "declared"}, from : {"P1"}, expr : {"L1", "L2", NoLicense}]
=============================================================================

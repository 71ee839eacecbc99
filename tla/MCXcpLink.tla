----------------------------- MODULE MCXcpLink -----------------------------
(* The instance of XcpLink that the run checks.                            *)
EXTENDS XcpLink

\* Two objects that share an ODT only with one of their own kind; the third is too large.
MCSize == [o \in {"a", "b", "big", "null"} |-> CASE o = "b" -> 2 [] o = "big" -> 3 [] OTHER -> 1]

\* A plan that fits; one whose second list is longer; one that shrinks.
MCPlans == {<<<<"a", "a">>, <<"b">>>>, <<<<"b">>, <<"a", "a">>>>, <<<<"a">>>>}
=============================================================================

---------------------------- MODULE MCRuleReload ----------------------------
(* RuleReload with one small import file: a new rule, and one whose name    *)
(* may be taken.                                                           *)
EXTENDS RuleReload

CONSTANTS s1, s2, n1, n2
OneImport == {<< <<s2, n2, "count">>, <<s1, n2, "match">> >>}
=============================================================================

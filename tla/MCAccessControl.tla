--------------------------- MODULE MCAccessControl ---------------------------
EXTENDS AccessControl, TLC

CONSTANTS r1, r2

\* Two accounts that share their mail address.
SharedMail == {[name |-> "bob", mail |-> "b@"], [name |-> "bill", mail |-> "b@"]}
Symmetry == Permutations(Request)
=============================================================================

--------------------------- MODULE MCCollectorIntake -------------------------
EXTENDS CollectorIntake, TLC

CONSTANTS f1, f2, f3, i1, i2, d1, d2, d3

MCId == {i1, i2}
MCFiles == {f1, f2, f3}

\* f1 and f2 are two batches with one id, f3 is another.
MCSameId == f1 :> i1 @@ f2 :> i1 @@ f3 :> i2
MCDigests == f1 :> d1 @@ f2 :> d2 @@ f3 :> d3
MCValid == f1 :> "valid" @@ f2 :> "valid" @@ f3 :> "valid"
MCMixed == f1 :> "valid" @@ f2 :> "eventCollision" @@ f3 :> "untrusted"
=============================================================================

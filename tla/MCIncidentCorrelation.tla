------------------------ MODULE MCIncidentCorrelation -----------------------
(* Instances of IncidentCorrelation for TLC.                               *)
EXTENDS IncidentCorrelation, TLC

CONSTANTS a1, a2, a3, a4, a5, j1, j2, j3, e1, e2, e3, e4, e5, x, y, z, u1

MCJob == {j1, j2, j3}
MCAlertsOf == j1 :> <<a1, a2>> @@ j2 :> <<a3>> @@ j3 :> <<a4, a5>>
MCEntities == a1 :> {x} @@ a2 :> {x, y} @@ a3 :> {x, z} @@ a4 :> {x, y, z} @@ a5 :> {}
MCCorrelating == {x, y}
MCPrimary == a1 :> x @@ a2 :> x @@ a3 :> z @@ a4 :> y @@ a5 :> x
MCSource == a1 :> "rule" @@ a2 :> "ai" @@ a3 :> "rule" @@ a4 :> "rule" @@ a5 :> "ai"
MCEventsOf == a1 :> {e1} @@ a2 :> {e1, e2} @@ a3 :> {e3} @@ a4 :> {e4} @@ a5 :> {e5}
MCTimeOf == e1 :> 0 @@ e2 :> 0 @@ e3 :> 0 @@ e4 :> 1 @@ e5 :> 1
=============================================================================

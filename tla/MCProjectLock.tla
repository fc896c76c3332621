--------------------------- MODULE MCProjectLock ---------------------------
(* Instances of ProjectLock for TLC: which process makes which request.    *)
EXTENDS ProjectLock, TLC

CONSTANTS p1, p2, p3, w1, w2, w3, w4

\* Two processes with two requests each (the CLI server and the desktop app).
TwoProcs == {p1, p2}
TwoByTwo == (w1 :> p1) @@ (w2 :> p1) @@ (w3 :> p2) @@ (w4 :> p2)

\* Three processes with one request each (one of them a restart).
ThreeProcs == {p1, p2, p3}
OneEach == (w1 :> p1) @@ (w2 :> p2) @@ (w3 :> p3)

\* One process with four requests.
AllInOne == [w \in {w1, w2, w3, w4} |-> p1]
=============================================================================

--------------------------- MODULE MCGlobalRWLock ---------------------------
(* Placements of three logical owners: one per process, as in the Classic  *)
(* server, and two of them together in one process.                        *)
EXTENDS GlobalRWLock, TLC

CONSTANTS p1, p2, p3, o1, o2, o3

OneEach == (o1 :> p1) @@ (o2 :> p2) @@ (o3 :> p3)
Mixed == (o1 :> p1) @@ (o2 :> p1) @@ (o3 :> p2)
=============================================================================

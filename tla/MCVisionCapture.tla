--------------------------- MODULE MCVisionCapture ---------------------------
(* Instances of VisionCapture for TLC. *)
EXTENDS VisionCapture

CONSTANTS a, again, b, p1, p2, k1, k2, c1, c2

\* A capture at Station A, the same one asked for again, and one of the product that is
\* at Station B, whose command is a known one with another payload.
MCProductOf == [g \in Goals |-> IF g = b THEN p2 ELSE p1]
MCStationOf == [g \in Goals |-> IF g = b THEN 2 ELSE 1]
MCCaptureOf == [g \in Goals |-> IF g = b THEN k2 ELSE k1]
MCCommandOf == [g \in Goals |-> IF g = again THEN c2 ELSE c1]

\* The product is locked while its capture may still be under way.
MCScopes == {<<p1, 0>>}
==============================================================================

--------------------------- MODULE MCInferenceDeque ---------------------------
(* An instance of InferenceDeque for TLC. *)
EXTENDS InferenceDeque, TLC

CONSTANTS a1, b1, a2, b2, p1, p2

\* Both captures of two products: ties in the fifo_sequence, and arrivals that
\* overtake each other.
MCProductOf == a1 :> p1 @@ b1 :> p1 @@ a2 :> p2 @@ b2 :> p2
MCStationOf == a1 :> 1 @@ b1 :> 2 @@ a2 :> 1 @@ b2 :> 2
MCFifoOf == a1 :> 1 @@ b1 :> 1 @@ a2 :> 2 @@ b2 :> 2
=============================================================================

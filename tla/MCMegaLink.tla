------------------------------ MODULE MCMegaLink ------------------------------
(* Instances of MegaLink for TLC. *)
EXTENDS MegaLink

CONSTANTS x, again, y

\* A product that is rejected, whose command is sent again, and one of either kind; or the
\* command comes again with another digest.
MCCommandOf == [g \in Goals |-> IF g = y THEN 2 ELSE 1]
MCRequests == {[g \in Goals |-> IF g = y THEN k ELSE NG] : k \in {NG, PASS}}
              \cup {[g \in Goals |-> IF g = x THEN NG ELSE PASS]}
==============================================================================

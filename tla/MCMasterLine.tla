----------------------------- MODULE MCMasterLine -----------------------------
(* Instances of MasterLine for TLC. *)
EXTENDS MasterLine

AllDisturbances ==
  {"server", "goal", "vision", "failure", "arm", "timeout", "operator", "capacity"}
Failures == {"failure"}

\* Room for every product, and station B kept or skipped; room for one more
\* than the soft limit; room for as many as the soft limit.
Roomy(skipB) == [soft |-> 3, hard |-> 3, skipB |-> skipB]
AllSettings ==
  {Roomy(FALSE), Roomy(TRUE), [soft |-> 2, hard |-> 3, skipB |-> FALSE],
   [soft |-> 1, hard |-> 1, skipB |-> FALSE]}
DefaultSettings == {Roomy(FALSE)}
=============================================================================

----------------------------- MODULE MCWorkerPool -----------------------------
(* Instances of WorkerPool for TLC. *)
EXTENDS WorkerPool, TLC

CONSTANTS a1, b1, a2, p1, p2, w1, w2

\* Both captures of product 1 and the Station A capture of product 2.
MCProductOf == [j \in Jobs |-> IF j = a2 THEN p2 ELSE p1]
MCStationOf == [j \in Jobs |-> IF j = b1 THEN 2 ELSE 1]
MCFifoOf == [j \in Jobs |-> IF j = a2 THEN 2 ELSE 1]

\* A terminal NG at Station A of product 1 cancels its Station B.
MCCancelScopes == {<<p1, 2>>}

\* Worker threads are interchangeable.
WorkerSymmetry == Permutations(Workers)

=============================================================================

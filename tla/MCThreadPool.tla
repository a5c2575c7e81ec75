---------------------------- MODULE MCThreadPool ----------------------------
(* A small instance of ThreadPool for TLC, without batches.                *)
EXTENDS ThreadPool

CONSTANTS j1, j2, j3, j4

\* A busy job that puts two more into the pool.
TwoSpawners == [j \in Jobs |-> IF j = j1 THEN {j3, j4} ELSE {}]

NoBatches == [b \in Batches |-> << >>]
=============================================================================

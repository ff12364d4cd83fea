---------------------------- MODULE MCJobManager ----------------------------
(* Small instances of JobManager for TLC. *)
EXTENDS JobManager, TLC

CONSTANTS j1, j2, w1, w2, c1, c2, k1, k2

SameKey == [j \in Jobs |-> k1]
OwnKeys == j1 :> k1 @@ j2 :> k2

OneHookEach == [e \in {"queued", "ended"} |-> 1]
NoHooks == [e \in {"queued", "ended"} |-> 0]

\* Jobs with the same key, workers and clients are interchangeable.
Threads == Permutations(Workers) \cup Permutations(Clients)
All == Threads \cup Permutations(Jobs)
=============================================================================

--------------------------- MODULE MCRequestGate ---------------------------
(* An instance of RequestGate over its semaphore for TLC. *)
EXTENDS RequestGate

\* An untagged API call, and two tracks that only their arrival tells apart.
MCCallers == {"api", "track", "twin", "lyrics"}
MCPriority == [c \in MCCallers |-> IF c = "api" THEN -1 ELSE 1]
MCSubpriority == [c \in MCCallers |-> 0]
=============================================================================

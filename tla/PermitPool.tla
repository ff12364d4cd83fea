----------------------------- MODULE PermitPool -----------------------------
(* What a semaphore of limits promises those who use it, with no heap, ranks,  *)
(* waiting or contexts: so many permits, each with one user at a time, taken   *)
(* when one is free and given back or handed over by who has it. They start    *)
(* over with the process.                                                      *)
EXTENDS Integers, FiniteSets

CONSTANTS
    Users,   \* who may hold a permit
    Permits  \* how many there are

VARIABLE held  \* who holds one

Init == held = {}

Take(u) == u \notin held /\ Cardinality(held) < Permits /\ held' = held \cup {u}
GiveBack(u) == u \in held /\ held' = held \ {u}
HandOver(u, v) == u \in held /\ v \notin held /\ held' = (held \ {u}) \cup {v}
ProcessEnds == held' = {}

Next ==
    \/ \E u \in Users : Take(u) \/ GiveBack(u)
    \/ \E u \in Users, v \in Users : HandOver(u, v)
    \/ ProcessEnds

Spec == Init /\ [][Next]_held
=============================================================================

------------------------- MODULE PrioritySemaphore -------------------------
(***************************************************************************)
(* limits.Semaphore (src/internal/limits/semaphore.go): the pools every    *)
(* Apple request, wrapper stream, download and decrypt competes for. Free  *)
(* capacity is granted at once; a contended permit goes to the waiter of   *)
(* the best rank, then to the one that came first. A caller whose context  *)
(* ends may do so while its permit is being handed to it.                  *)
(*                                                                         *)
(* Each action is one critical section of s.mu, or one step of a caller    *)
(* outside it. The heap is the set of its waiters: container/heap keeps    *)
(* the least of them by Less at its root.                                  *)
(***************************************************************************)
EXTENDS Integers, FiniteSets

CONSTANTS
    Callers,
    Limit,       \* the permits; a limit below one runs as one
    Priority,    \* the rank of a caller's context: its job,
    Subpriority  \* and its track within the job

ASSUME CallersAssumption == IsFiniteSet(Callers)
ASSUME LimitAssumption == Limit \in Int
ASSUME RankAssumption == Priority \in [Callers -> Int] /\ Subpriority \in [Callers -> Int]

\* NewSemaphore.
Capacity == IF Limit <= 0 THEN 1 ELSE Limit

VARIABLES
    pc,      \* where each caller is
    inUse,   \* s.inUse
    waiters, \* the callers in the heap
    ticket,  \* the place of each waiter in the order of their s.arrival
    ended,   \* the callers whose context ended
    ahead    \* history: who was in the heap when each waiter came, and has not come again

vars == <<pc, inUse, waiters, ticket, ended, ahead>>

\* "queued": in Acquire's select, its waiter in the heap or granted.
\* "dropping": the select returned a context error, s.mu not yet taken.
\* "refusing": the select took the grant and then saw the context error.
Steps == {"idle", "queued", "dropping", "refusing", "held"}

TypeOK ==
    /\ pc \in [Callers -> Steps]
    /\ inUse \in Nat
    /\ waiters \subseteq Callers /\ ended \subseteq Callers
    /\ ticket \in [Callers -> Nat] /\ ahead \in [Callers -> SUBSET Callers]

Init ==
    /\ pc = [c \in Callers |-> "idle"] /\ inUse = 0 /\ waiters = {}
    /\ ticket = [c \in Callers |-> 0] /\ ended = {}
    /\ ahead = [c \in Callers |-> {}]

\* waiterHeap.Less
Outranks(c, d) ==
    \/ Priority[c] < Priority[d]
    \/ Priority[c] = Priority[d] /\ Subpriority[c] < Subpriority[d]
SameRank(c, d) == Priority[c] = Priority[d] /\ Subpriority[c] = Subpriority[d]
Less(c, d) == Outranks(c, d) \/ (SameRank(c, d) /\ ticket[c] < ticket[d])

\* The root of the heap.
First(c) == c \in waiters /\ \A d \in waiters \ {c} : ~Less(d, c)

\* Whoever comes now is behind those who wait and ahead of nobody.
Comes(c) == ahead' = [d \in Callers |-> IF d = c THEN waiters ELSE ahead[d] \ {c}]

\* Mutant: one permit too many.
AcquireBeyond(c) ==
    /\ pc[c] = "idle" /\ c \notin ended
    /\ inUse <= Capacity /\ waiters = {}
    /\ inUse' = inUse + 1 /\ pc' = [pc EXCEPT ![c] = "held"]
    /\ Comes(c) /\ UNCHANGED <<waiters, ticket, ended>>
\* Acquire with a free permit and nobody waiting.
AcquireNow(c) ==
    /\ pc[c] = "idle" /\ c \notin ended
    /\ inUse < Capacity /\ waiters = {}
    /\ inUse' = inUse + 1 /\ pc' = [pc EXCEPT ![c] = "held"]
    /\ Comes(c) /\ UNCHANGED <<waiters, ticket, ended>>

\* Acquire that has to wait.
Enqueue(c) ==
    /\ pc[c] = "idle" /\ c \notin ended
    /\ inUse >= Capacity \/ waiters # {}
    /\ ticket' = [ticket EXCEPT ![c] = Cardinality(waiters)]
    /\ waiters' = waiters \cup {c} /\ pc' = [pc EXCEPT ![c] = "queued"]
    /\ Comes(c) /\ UNCHANGED <<inUse, ended>>

\* The waiter was popped: its ready channel is closed.
Granted(c) == pc[c] \in {"queued", "dropping"} /\ c \notin waiters

\* waiterHeap.Pop: the waiter leaves, those behind it move up.
Leave(w) ==
    /\ waiters' = waiters \ {w}
    /\ ticket' = [d \in Callers |->
                    IF d = w THEN 0
                    ELSE IF d \in waiters /\ ticket[d] > ticket[w] THEN ticket[d] - 1 ELSE ticket[d]]
    /\ ahead' = [ahead EXCEPT ![w] = {}]

\* Mutant: the permit becomes free and nobody is woken.
ReleaseOnly == inUse' = inUse - 1 /\ UNCHANGED <<waiters, ticket, ahead>>
\* Mutant: the heap's last slice element instead of its root.
ReleaseLast ==
    \/ waiters = {} /\ inUse' = inUse - 1 /\ UNCHANGED <<waiters, ticket, ahead>>
    \/ \E w \in waiters : (\A d \in waiters : ticket[d] <= ticket[w]) /\ Leave(w) /\ UNCHANGED inUse
\* releaseLocked: the permit goes to the first waiter, or becomes free.
ReleaseLocked ==
    \/ waiters = {} /\ inUse' = inUse - 1 /\ UNCHANGED <<waiters, ticket, ahead>>
    \/ \E w \in waiters : First(w) /\ Leave(w) /\ UNCHANGED inUse

\* The select takes the grant; the context may have ended in the meantime.
Take(c) ==
    /\ pc[c] = "queued" /\ c \notin waiters
    /\ pc' = [pc EXCEPT ![c] = IF c \in ended THEN "refusing" ELSE "held"]
    /\ UNCHANGED <<inUse, waiters, ticket, ended, ahead>>
\* The select takes the ended context, granted or not.
Drop(c) ==
    /\ pc[c] = "queued" /\ c \in ended
    /\ pc' = [pc EXCEPT ![c] = "dropping"]
    /\ UNCHANGED <<inUse, waiters, ticket, ended, ahead>>

\* Still in the heap: removed without having used a permit.
Abandon(c) ==
    /\ pc[c] = "dropping" /\ c \in waiters
    /\ Leave(c) /\ pc' = [pc EXCEPT ![c] = "idle"]
    /\ UNCHANGED <<inUse, ended>>
\* Mutant: a cancelled waiter never looks whether it was granted.
GiveBackForgets(c) ==
    /\ pc[c] = "refusing" \/ (pc[c] = "dropping" /\ c \notin waiters)
    /\ pc' = [pc EXCEPT ![c] = "idle"]
    /\ UNCHANGED <<inUse, waiters, ticket, ended, ahead>>
\* Granted concurrently with the cancellation: the permit goes back.
GiveBack(c) ==
    /\ pc[c] = "refusing" \/ (pc[c] = "dropping" /\ c \notin waiters)
    /\ ReleaseLocked /\ pc' = [pc EXCEPT ![c] = "idle"]
    /\ UNCHANGED ended

\* releaseFunc: once per permit.
Release(c) ==
    /\ pc[c] = "held"
    /\ ReleaseLocked /\ pc' = [pc EXCEPT ![c] = "idle"]
    /\ UNCHANGED ended

CancelContext(c) ==
    /\ c \notin ended /\ ended' = ended \cup {c}
    /\ UNCHANGED <<pc, inUse, waiters, ticket, ahead>>

Moves(c) == Take(c) \/ Drop(c) \/ Abandon(c) \/ GiveBack(c)
Next == \E c \in Callers : AcquireNow(c) \/ Enqueue(c) \/ Moves(c) \/ Release(c) \/ CancelContext(c)

\* A goroutine in Acquire runs, and a holder releases in the end.
Fairness == \A c \in Callers : WF_vars(Moves(c)) /\ WF_vars(Release(c))
Spec == Init /\ [][Next]_vars /\ Fairness

-----------------------------------------------------------------------------
(* Properties *)

\* The callers a permit is out to, whether they know it yet or not.
Holders == {c \in Callers : pc[c] \in {"held", "refusing"} \/ Granted(c)}

\* A permit is never lost and never made up: the count is the number of callers
\* that hold one or were handed one, through every race of a grant with the end
\* of its waiter's context.
PermitsAccounted == inUse = Cardinality(Holders)
WithinLimit == inUse <= Capacity
\* Nobody waits while a permit is free (semaphore.go: "idle capacity is always
\* granted immediately").
NoIdleCapacity == waiters # {} => inUse = Capacity
\* The heap holds waiters only.
WaitersWait == \A c \in waiters : pc[c] \in {"queued", "dropping"}

\* Whoever gets a permit overtakes nobody who goes on waiting, whether it was
\* handed the permit or has just come: it has the better rank, or the same one
\* and came first. The order of arrivals survives the waiters that leave the heap
\* in any order and come again (s.arrival), and a free permit that a newcomer
\* may take is never left beside a waiter.
NoneOvertaken ==
    [][\A d \in Holders' \ Holders, c \in waiters \cap waiters' :
          Outranks(d, c) \/ (SameRank(d, c) /\ d \in ahead'[c])]_vars

\* Those who use a semaphore may forget how it does it: permits are taken, given
\* back and handed over one at a time, and a context that ends, a grant that is
\* refused and the heap are steps of nobody.
Pool == INSTANCE PermitPool WITH Users <- Callers, Permits <- Capacity, held <- Holders
ImplementsPool == Pool!Spec
=============================================================================

---------------------------- MODULE EventReaders ----------------------------
(* What the stream of a job's events promises its readers, with no wakes,      *)
(* pages, subscriptions or connections: "the per-job stream replays the job's  *)
(* events after the cursor, then streams new ones" (docs/api.md). A reader     *)
(* that reads goes through the log in order, gets no event twice and leaves    *)
(* none out, however often its connection breaks: as long as it reads. Whoever *)
(* stops may begin again from a newer snapshot, which stands for the events up *)
(* to it.                                                                      *)
EXTENDS Integers, Sequences

CONSTANTS
    Readers,
    Kinds,     \* what an event may be
    Statuses,  \* what a reader may show
    Tells      \* the status that an event of some kinds tells

VARIABLES
    log,       \* the events, by id
    purged,    \* those up to this one are deleted
    reading,   \* the readers that read the log; the others take what a snapshot has
    at,        \* the last event a reader got
    shown      \* the status it shows

Init ==
    /\ log \in Seq(Kinds) /\ purged = 0
    /\ reading = {} /\ at = [r \in Readers |-> 0] /\ shown \in [Readers -> Statuses]

\* An event is recorded, perhaps one that all the others go with.
Record(kind) ==
    /\ log' = Append(log, kind) /\ purged' \in {purged, Len(log)}
    /\ UNCHANGED <<reading, at, shown>>

\* A snapshot, from which the reader may start to read, or from the first event on.
Look(r, c, s) ==
    /\ r \notin reading /\ reading' \in {reading, reading \cup {r}}
    /\ at' = [at EXCEPT ![r] = c] /\ shown' = [shown EXCEPT ![r] = s]
    /\ UNCHANGED <<log, purged>>

\* The events due to a reader up to the n-th, and what it shows once it has some.
Due(r, n) == {i \in purged + 1 .. Len(log) : at[r] < i /\ i <= n}
Tell(events, before, s) ==
    LET telling == {i \in events : log[i] \in DOMAIN Tells} IN
    \/ telling = {} /\ s = before
    \/ \E i \in telling : s = Tells[log[i]] /\ \A j \in telling : j <= i
Read(r, n, s) ==
    /\ r \in reading /\ n \in Due(r, n) /\ Tell(Due(r, n), shown[r], s)
    /\ at' = [at EXCEPT ![r] = n] /\ shown' = [shown EXCEPT ![r] = s]
    /\ reading' \in {reading, reading \ {r}}
    /\ UNCHANGED <<log, purged>>

\* The stream ends; the reader keeps what it has, or has nothing when the job is gone.
Stop(r, s) ==
    /\ r \in reading /\ reading' = reading \ {r}
    /\ \/ UNCHANGED <<at, shown>>
       \/ at' = [at EXCEPT ![r] = 0] /\ shown' = [shown EXCEPT ![r] = s]
    /\ UNCHANGED <<log, purged>>

Next ==
    \/ \E kind \in Kinds : Record(kind)
    \/ \E r \in Readers, s \in Statuses :
         \/ \E c \in 0 .. Len(log) : Look(r, c, s)
         \/ \E n \in 1 .. Len(log) : Read(r, n, s)
         \/ Stop(r, s)

Spec == Init /\ [][Next]_<<log, purged, reading, at, shown>>
=============================================================================

------------------------------- MODULE LogStore -------------------------------
(* The log kept in memory (internal/logging/store.go), a client that tails it  *)
(* over SSE and reconnects from its last id, and a client that pages through   *)
(* it (internal/api/logs.go). Filters are one predicate: a record matches the  *)
(* clients' or does not. Sequences start again with the process. What is read  *)
(* of the ring is the set of its records: its order is theirs (NoHoles).       *)
EXTENDS Integers, Sequences, FiniteSets, SequencesExt

CONSTANTS
    Capacity,       \* logging.buffer_size
    Buffered,       \* the channel of a subscriber: 256
    TailLimit,      \* the limit of a stream without a cursor: 500
    ListLimit,      \* the limit of a page
    MaxRecords,     \* bounds: records of a process, processes
    MaxRestarts

ASSUME LogAssumption == {Capacity, Buffered, TailLimit, ListLimit, MaxRecords} \subseteq Nat \ {0}
                        /\ MaxRestarts \in Nat

VARIABLES
    next,       \* the last sequence
    ring, head, \* what is kept: grows to Capacity, then head is the oldest
    process,    \* counts the restarts
    matching,   \* history: the sequences of this process that match
    tail,       \* the stream and its client: the channel, the backlog, its cursor
    got,        \* history: what the client received of this process, in order
    pager,      \* the other client: its next cursor
    read,       \* history: the pages it read of this process, in order
    missed      \* history: of each client, the matches gone before it asked

logVars == <<next, ring, head, process, matching, tail, got, pager, read, missed>>

OffLine == [state |-> "off", after |-> 0, backlog |-> {}, channel |-> <<>>]

\* The process logs before it serves: the first record is there.
LogInit ==
    /\ next = 1 /\ ring = <<1>> /\ head = 0 /\ process = 0
    /\ matching \in {{}, {1}}
    /\ tail = [conn |-> OffLine, cursor |-> 0, of |-> 0] /\ got = <<>>
    /\ pager = [cursor |-> 0, of |-> 0] /\ read = <<>>
    /\ missed = [stream |-> {}, pages |-> {}]

LogTypeOK ==
    /\ next \in 1..MaxRecords /\ Len(ring) <= Capacity /\ head \in 0..Capacity - 1
    /\ matching \subseteq 1..next
    /\ tail.conn.state \in {"off", "subscribed", "closed"} /\ Len(tail.conn.channel) <= Buffered

-----------------------------------------------------------------------------
\* The i-th oldest record kept, from 0.
At(i) == ring[((head + i) % Len(ring)) + 1]
Lesser(a, b) == IF a < b THEN a ELSE b

\* Sequences are contiguous: the first record after the cursor has a known place.
StartAfter(after) == IF after >= At(0) THEN Lesser(after - At(0) + 1, Len(ring)) ELSE 0

\* The records from a place on that match.
Hits(from, after) == {n \in {At(i) : i \in from..Len(ring) - 1} : n \in matching /\ n > after}
\* The first records of a set, and the last ones.
Lowest(hits, limit) == {n \in hits : Cardinality({m \in hits : m < n}) < limit}
Highest(hits, limit) == {n \in hits : Cardinality({m \in hits : m > n}) < limit}

\* oldestMatches, newestMatches: up to limit, all when it is 0.
OldestMatches(after, limit) ==
    LET hits == Hits(StartAfter(after), after) IN
    IF limit = 0 THEN hits ELSE Lowest(hits, limit)
NewestMatches(after, limit) ==
    IF limit = 0 THEN OldestMatches(after, 0) ELSE Highest(Hits(0, after), limit)

\* What matched after a cursor and had left the ring.
Lost(after) == {n \in matching : after < n /\ n < At(0)}
\* What is older than a first answer that is full.
Before(answer, limit) ==
    IF Cardinality(answer) < limit THEN {} ELSE {n \in matching : \A k \in answer : n < k}
\* What a cursor from the process before passes over.
Stale(client, upTo) ==
    IF client.of = process THEN {} ELSE 1..Lesser(client.cursor, upTo)

-----------------------------------------------------------------------------
\* Mutant: a subscriber that does not keep up stays, and misses the record.
PushedOrDropped(conn, n) ==
    IF conn.state # "subscribed" \/ n <= conn.after \/ Len(conn.channel) = Buffered THEN conn
    ELSE [conn EXCEPT !.channel = Append(@, n)]

\* A subscriber that does not keep up is dropped: its channel is closed.
Pushed(conn, n) ==
    IF conn.state # "subscribed" \/ n <= conn.after THEN conn
    ELSE IF Len(conn.channel) < Buffered THEN [conn EXCEPT !.channel = Append(@, n)]
    ELSE [conn EXCEPT !.state = "closed"]

\* append: the record takes the oldest one's place once the ring is full.
Logged(matches) ==
    LET n == next + 1 IN
    /\ next < MaxRecords /\ next' = n
    /\ matching' = IF matches THEN matching \union {n} ELSE matching
    /\ IF Len(ring) < Capacity THEN ring' = Append(ring, n) /\ UNCHANGED head
       ELSE ring' = [ring EXCEPT ![head + 1] = n] /\ head' = (head + 1) % Capacity
    /\ tail' = IF matches THEN [tail EXCEPT !.conn = Pushed(@, n)] ELSE tail
    /\ UNCHANGED <<process, got, pager, read, missed>>

\* The backlog and the subscription are one step.
Subscribe ==
    /\ tail.conn.state = "off"
    /\ LET after == tail.cursor
           backlog == NewestMatches(after, IF after > 0 THEN 0 ELSE TailLimit) IN
       /\ tail' = [tail EXCEPT !.conn = [state |-> "subscribed", after |-> after, backlog |-> backlog,
                                         channel |-> <<>>]]
       /\ missed' = [missed EXCEPT !.stream =
                        @ \union Lost(after) \union Stale(tail, after)
                          \union (IF after = 0 THEN Before(backlog, TailLimit) ELSE {})]
    /\ UNCHANGED <<next, ring, head, process, matching, got, pager, read>>

\* runLogStream: the backlog, then the channel, closed or not, then the end.
Tells(n, conn) ==
    /\ tail' = [conn |-> conn, cursor |-> IF n > tail.cursor THEN n ELSE tail.cursor, of |-> process]
    /\ got' = Append(got, n)
SendsBacklog ==
    /\ tail.conn.state # "off" /\ tail.conn.backlog # {}
    /\ LET n == Min(tail.conn.backlog) IN Tells(n, [tail.conn EXCEPT !.backlog = @ \ {n}])
    /\ UNCHANGED <<next, ring, head, process, matching, pager, read, missed>>
SendsLive ==
    /\ tail.conn.state # "off" /\ tail.conn.backlog = {} /\ tail.conn.channel # <<>>
    /\ Tells(Head(tail.conn.channel), [tail.conn EXCEPT !.channel = Tail(@)])
    /\ UNCHANGED <<next, ring, head, process, matching, pager, read, missed>>
\* The channel is closed and empty, or the connection breaks anywhere.
StreamEnds ==
    /\ tail.conn.state # "off" /\ tail' = [tail EXCEPT !.conn = OffLine]
    /\ UNCHANGED <<next, ring, head, process, matching, got, pager, read, missed>>

\* List, for a client that goes on from next_cursor.
ListLogs ==
    LET after == pager.cursor
        matches == OldestMatches(after, ListLimit + 1)
        full == after > 0 /\ Cardinality(matches) > ListLimit
        page == CASE after = 0 -> NewestMatches(0, ListLimit)
                  [] full -> Lowest(matches, ListLimit)
                  [] OTHER -> matches
        cursor == IF full THEN Max(page) ELSE next
        truncated == after > 0 /\ after < At(0) - 1 IN
    /\ pager' = [cursor |-> cursor, of |-> process]
    /\ read' = IF page = {} THEN read ELSE Append(read, page)
    /\ missed' = [missed EXCEPT !.pages =
                     @ \union (IF truncated \/ after = 0 THEN Lost(after) ELSE {})
                       \union (IF after = 0 THEN Before(page, ListLimit) ELSE {})
                       \union Stale(pager, cursor)]
    /\ pager' # pager \/ read' # read
    /\ UNCHANGED <<next, ring, head, process, matching, tail, got>>

\* The process restarts; the clients keep their cursors.
LogRestarts ==
    /\ process < MaxRestarts /\ process' = process + 1
    /\ next' = 1 /\ ring' = <<1>> /\ head' = 0 /\ matching' \in {{}, {1}}
    /\ tail' = [tail EXCEPT !.conn = OffLine] /\ got' = <<>> /\ read' = <<>>
    /\ missed' = [stream |-> {}, pages |-> {}]
    /\ UNCHANGED pager

LogNext ==
    \/ \E matches \in BOOLEAN : Logged(matches)
    \/ Subscribe \/ SendsBacklog \/ SendsLive \/ StreamEnds \/ ListLogs \/ LogRestarts
LogSpec == LogInit /\ [][LogNext]_logVars

-----------------------------------------------------------------------------
\* The stream has sent what it has, and none of its records is waiting.
TailSettled ==
    tail.conn.state = "subscribed" /\ tail.conn.backlog = {} /\ tail.conn.channel = <<>>
Rising(seq) == \A i, j \in 1..Len(seq) : i < j => seq[i] < seq[j]
PagesRise(pages) == \A i, j \in 1..Len(pages) : i < j => \A m \in pages[i], n \in pages[j] : m < n

\* Neither client has a hole in what it read of one process (Subscribe, append,
\* List): the ring is in order, records come in order and once; those the stream's
\* client lacks had left the ring, or were older than the first tail, when it
\* subscribed, through slow reads that close its channel and connections that
\* break; those the pages lack were announced by truncated, or are from before
\* the first page. A cursor kept from the process before it is the exception
\* (Stale).
NoHoles ==
    /\ \A i \in 1..Len(ring) - 1 : At(i - 1) < At(i)
    /\ Rising(got) /\ PagesRise(read)
    /\ TailSettled => matching \ missed.stream \subseteq ToSet(got)
    /\ tail.of = process =>
           \A n \in matching : n <= tail.cursor => n \in ToSet(got) \union missed.stream
    /\ pager.of = process =>
           \A n \in matching : n <= pager.cursor => n \in (UNION ToSet(read)) \union missed.pages
=============================================================================

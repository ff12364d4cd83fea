---------------------------- MODULE KeyTemplates ----------------------------
(***************************************************************************)
(* The wrapper client's decryption templates (src/internal/wrapper/        *)
(* decrypt.go): callers of one key share one fetch, which outlives the     *)
(* caller that started it and ends when the last one has given up. A       *)
(* fetch for a key nobody needs yet queues in the manifest lane behind the *)
(* /m3u8 requests, and leaves it once a caller needs the key.              *)
(*                                                                         *)
(* An action is one critical section of templateCache.mu or one step of a  *)
(* caller or of a fetch outside it. What the two semaphores promise is     *)
(* taken from PrioritySemaphore: a permit goes to one waiter, and a waiter *)
(* is served in the end.                                                   *)
(***************************************************************************)
EXTENDS Integers, FiniteSets

CONSTANTS
    Callers,  \* templateFor calls, reused once they have returned
    Keys,     \* key URIs
    Pinned,   \* the prefetch key among them, never evicted
    Streams,  \* M3U8 calls
    Fetches,  \* bound: slots for entries a caller or a fetch refers to
    MaxRunning, \* bound: fetches that run at once
    Playback, \* permits of playbackLimit; the manifest lane has one
    Keep,     \* templates kept, 256 in the code
    Retries,  \* retry delays, three in the code
    MaxCalls  \* bound: templateFor calls ever made

\* An entry is told from none and from an M3U8 call, and the callers are finitely
\* many.
ASSUME KeyAssumption == "none" \notin Fetches /\ Fetches \cap Streams = {} /\ IsFiniteSet(Callers)

VARIABLES
    waits,  \* each caller: the entry it waits for, "none" outside a call
    calls,  \* templateFor calls so far
    fetch,  \* each entry and the goroutine that fills it
    listed, \* entries: the entry listed for each key, "none" if there is none
    stream, \* the step of each M3U8 call
    life    \* whether the client is open

keyVars == <<waits, calls, fetch, listed, stream, life>>

NoFetch == [key |-> "none", step |-> "free", lane |-> FALSE, attempt |-> 0, waiters |-> 0,
            needed |-> FALSE, cancelled |-> FALSE, result |-> "none"]

KeyInit ==
    /\ waits = [c \in Callers |-> "none"] /\ calls = 0
    /\ fetch = [f \in Fetches |-> NoFetch] /\ listed = [k \in Keys |-> "none"]
    /\ stream = [m \in Streams |-> "lane"] /\ life = TRUE

\* Of an entry somebody refers to: its fetch has been through fill.
Loaded(f) == fetch[f].step = "free"
Waiting(f) == {c \in Callers : waits[c] = f}
\* An entry nobody refers to any more, and a name for the next one.
Unused(f) == fetch[f].step = "free" /\ Waiting(f) = {} /\ \A k \in Keys : listed[k] # f
NextFetch == CHOOSE f \in Fetches : Unused(f)
NextCaller == CHOOSE c \in Callers : waits[c] = "none" \/ \A d \in Callers : waits[d] # "none"
Running == {f \in Fetches : fetch[f].step # "free"}
InLane == {f \in Fetches : fetch[f].lane} \cup {m \in Streams : stream[m] \in {"queue", "ask"}}
LaneFree == InLane = {}
Asking == {f \in Fetches : fetch[f].step = "ask"} \cup {m \in Streams : stream[m] = "ask"}
PlaybackFree == Cardinality(Asking) < Playback
Unlisted(ks) == [k \in Keys |-> IF k \in ks THEN "none" ELSE listed[k]]

-----------------------------------------------------------------------------
(* Callers: templateCache.get and leave *)

\* get: joins the listed entry or lists a new one; needed closes its channel.
\* The entry's own waiter count is kept where the code keeps it.
Get(c, k, needs) ==
    /\ c = NextCaller /\ waits[c] = "none" /\ calls < MaxCalls /\ calls' = calls + 1
    /\ \/ listed[k] # "none" /\ Loaded(listed[k]) /\ UNCHANGED <<waits, fetch, listed>>
       \/ \E f \in Fetches :
            /\ \/ listed[k] = f /\ ~Loaded(f) /\ UNCHANGED listed
                  /\ fetch' = [fetch EXCEPT ![f].waiters = @ + 1, ![f].needed = @ \/ needs]
               \/ listed[k] = "none" /\ f = NextFetch /\ Unused(f) /\ Cardinality(Running) < MaxRunning
                  /\ listed' = [listed EXCEPT ![k] = f]
                  /\ fetch' = [fetch EXCEPT ![f] = [NoFetch EXCEPT !.key = k, !.step = "start",
                                                                   !.waiters = 1, !.needed = needs]]
            /\ waits' = [waits EXCEPT ![c] = f]
    /\ UNCHANGED <<stream, life>>

\* The entry is ready: its template, or the error its fetch ended with.
Answered(c) ==
    /\ waits[c] # "none" /\ Loaded(waits[c])
    /\ waits' = [waits EXCEPT ![c] = "none"]
    /\ UNCHANGED <<calls, fetch, listed, stream, life>>

\* Mutant: the last caller cancels the fetch and leaves its entry listed.
LeaveListed(c) ==
    LET f == waits[c]
        last == fetch[f].waiters = 1 /\ ~Loaded(f)
    IN /\ waits[c] # "none" /\ waits' = [waits EXCEPT ![c] = "none"]
       /\ fetch' = IF Loaded(f) THEN fetch
                   ELSE [fetch EXCEPT ![f].waiters = @ - 1, ![f].cancelled = last]
       /\ UNCHANGED <<calls, listed, stream, life>>
\* The caller's context ends: leave. The last one of a running fetch cancels and
\* unlists it.
Leave(c) ==
    LET f == waits[c]
        last == fetch[f].waiters = 1 /\ ~Loaded(f)
    IN /\ waits[c] # "none" /\ waits' = [waits EXCEPT ![c] = "none"]
       /\ fetch' = IF Loaded(f) THEN fetch
                   ELSE [fetch EXCEPT ![f].waiters = @ - 1, ![f].cancelled = last]
       /\ listed' = Unlisted({k \in {fetch[f].key} : last /\ listed[k] = f})
       /\ UNCHANGED <<calls, stream, life>>

-----------------------------------------------------------------------------
(* Fetches: fetchTemplate, withKeyPermits and fill *)

FetchGoes(f, new) == fetch' = [fetch EXCEPT ![f] = new] /\ UNCHANGED <<waits, calls, listed, stream, life>>
FetchAt(f, from) == fetch[f].step = from
Cancelled(f) == fetch[f].cancelled \/ ~life

\* At once or after a retry delay. withKeyPermits: a key needed by now goes to the playback permits at once.
ChooseLane(f) ==
    /\ FetchAt(f, "start")
    /\ FetchGoes(f, [fetch[f] EXCEPT !.step = IF fetch[f].needed THEN "queue" ELSE "lane"])
TakeLane(f) ==
    /\ FetchAt(f, "lane") /\ LaneFree
    /\ FetchGoes(f, [fetch[f] EXCEPT !.step = "queue", !.lane = TRUE])
LeaveLane(f) ==
    /\ FetchAt(f, "lane") /\ fetch[f].needed
    /\ FetchGoes(f, [fetch[f] EXCEPT !.step = "queue"])
TakePlayback(f) ==
    /\ FetchAt(f, "queue") /\ PlaybackFree /\ FetchGoes(f, [fetch[f] EXCEPT !.step = "ask"])
\* Ends with a result, its permits given back: the wait ran out, or the caller
\* or the client cancelled it.
Fails(f) ==
    /\ \/ fetch[f].step \in {"start", "lane", "queue", "ask"} /\ Cancelled(f)
          /\ FetchGoes(f, [fetch[f] EXCEPT !.step = "fill", !.lane = FALSE, !.result = "cancelled"])
       \/ fetch[f].step \in {"lane", "queue"}
          /\ FetchGoes(f, [fetch[f] EXCEPT !.step = "fill", !.lane = FALSE, !.result = "error"])
\* Mutant: the manifest permit is given back when the fetch ends, not the attempt.
AskedKeepsLane(f) ==
    /\ FetchAt(f, "ask")
    /\ \/ \E r \in {"template", "error"} :
            FetchGoes(f, [fetch[f] EXCEPT !.step = "fill", !.lane = FALSE, !.result = r])
       \/ /\ fetch[f].attempt < Retries
          /\ FetchGoes(f, [fetch[f] EXCEPT !.step = "start", !.attempt = @ + 1])
\* /key answers with a template or a 4xx, or fails in a way worth a retry.
Asked(f) ==
    /\ FetchAt(f, "ask")
    /\ \/ \E r \in {"template", "error"} :
            FetchGoes(f, [fetch[f] EXCEPT !.step = "fill", !.lane = FALSE, !.result = r])
       \/ /\ fetch[f].attempt < Retries
          /\ FetchGoes(f, [fetch[f] EXCEPT !.step = "start", !.lane = FALSE, !.attempt = @ + 1])

\* Of a closed entry only the result is read again.
Closed(f) ==
    fetch' = [fetch EXCEPT ![f] = [NoFetch EXCEPT !.key = fetch[f].key, !.result = fetch[f].result]]
\* fill: an unlisted result is dropped, an error is not kept, and an unpinned
\* template beyond the limit puts out another one (the least recently used; no
\* property tells which). ready is closed.
Fill(f) ==
    LET k == fetch[f].key
        kept == {x \in Keys \ Pinned : listed[x] # "none" /\ Loaded(listed[x])}
        full == k \notin Pinned /\ Cardinality(kept) = Keep
        got == fetch[f].result = "template"
    IN /\ FetchAt(f, "fill") /\ Closed(f) /\ UNCHANGED <<waits, calls, stream, life>>
       /\ \/ listed[k] # f /\ UNCHANGED listed
          \/ listed[k] = f /\ ~got /\ listed' = Unlisted({k})
          \/ listed[k] = f /\ got /\ ~full /\ UNCHANGED listed
          \/ listed[k] = f /\ got /\ full /\ \E old \in kept : listed' = Unlisted({old})

-----------------------------------------------------------------------------
(* M3U8 calls, and the client's end *)

StreamGoes(m, from, to) ==
    stream[m] = from /\ stream' = [stream EXCEPT ![m] = to] /\ UNCHANGED <<waits, calls, fetch, listed, life>>
\* withPlaybackPermits: the manifest permit, then the playback one, both until
\* the reply.
StreamTakesLane(m) == LaneFree /\ StreamGoes(m, "lane", "queue")
StreamTakesPlayback(m) == PlaybackFree /\ StreamGoes(m, "queue", "ask")
StreamAnswered(m) == StreamGoes(m, "ask", "done")
StreamGivesUp(m) == \E from \in {"lane", "queue"} : StreamGoes(m, from, "done")

CloseClient == life /\ life' = FALSE /\ UNCHANGED <<waits, calls, fetch, listed, stream>>

FetchSteps(f) ==
    \/ ChooseLane(f) \/ TakeLane(f) \/ LeaveLane(f) \/ TakePlayback(f) \/ Asked(f) \/ Fill(f)
    \/ Cancelled(f) /\ Fails(f)
StreamSteps(m) == StreamTakesLane(m) \/ StreamTakesPlayback(m) \/ StreamAnswered(m)
KeyNext ==
    \/ \E c \in Callers : \/ \E k \in Keys, needs \in BOOLEAN : Get(c, k, needs)
                          \/ Answered(c) \/ Leave(c)
    \/ \E f \in Fetches : FetchSteps(f) \/ Fails(f)
    \/ \E m \in Streams : StreamSteps(m) \/ StreamGivesUp(m)
    \/ CloseClient

\* Whatever can move without a wait running out moves: a goroutine, the wrapper's
\* answer, a permit to one of its waiters.
KeyProgress ==
    \/ \E c \in Callers : Answered(c)
    \/ \E f \in Fetches : FetchSteps(f)
    \/ \E m \in Streams : StreamSteps(m)
KeySpec == KeyInit /\ [][KeyNext]_keyVars /\ WF_keyVars(KeyProgress)

-----------------------------------------------------------------------------
(* Properties *)

\* A caller that still wants its key is never handed the cancellation that the
\* end of other callers caused.
NoBorrowedCancel ==
    \A c \in Callers : waits[c] # "none" /\ fetch[waits[c]].result = "cancelled" => ~life

\* Every caller is answered while the wrapper answers, with no wait for a permit
\* running out: keys and streams never hold what the other one waits for.
CallersAnswered == []<>(\A c \in Callers : waits[c] = "none")

\* The fetches and the M3U8 calls use the two semaphores as PrioritySemaphore
\* implements one (ImplementsPool), so that queues and ranks are left out here.
Semaphores == {"manifestLimit", "playbackLimit"}
HoldersOf(s) == IF s = "playbackLimit" THEN Asking ELSE InLane
KeyPool(s) ==
    INSTANCE PermitPool WITH Users <- Fetches \cup Streams, held <- HoldersOf(s),
                             Permits <- IF s = "playbackLimit" THEN Playback ELSE 1
=============================================================================

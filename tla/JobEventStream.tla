--------------------------- MODULE JobEventStream ---------------------------
(***************************************************************************)
(* The event stream of one job, end to end: the threads that write its row *)
(* and its events (src/internal/jobs, src/internal/hooks), the wake hub    *)
(* (src/internal/events), the SSE handler that replays the store to a      *)
(* client (src/internal/api/job_events.go) and the client that follows a   *)
(* job (src/internal/client/follow.go).                                    *)
(*                                                                         *)
(* Each store read of the handler and of the client is a step of its own:  *)
(* what they conclude from several reads may be stale when they act on it. *)
(***************************************************************************)
EXTENDS Integers, Sequences, FiniteSets, SequencesExt

CONSTANTS
    Followers,       \* client.FollowJob calls, each with one stream at a time
    PageSize,        \* streamEventPageSize, 512 in the code
    Setups           \* bound: the settings to look at, see setup

ASSUME PageAssumption == PageSize \in Nat \ {0}
ASSUME SetupsAssumption ==
    Setups \subseteq [fromStart : SUBSET Followers, stopAtTerminal : SUBSET Followers,
                      hooksOn : [{"queued", "ended"} -> Nat], faults : SUBSET {"read", "record"},
                      fromInsert : BOOLEAN, retries : Nat, cuts : Nat]

Row == {"queued", "running", "ended", "deleted"}
\* The event kinds the properties tell apart; the two hook kinds are the hook
\* events by the event their hook was subscribed to.
Kind == {"queued", "started", "ended", "retried", "deleted",
         "hook of queued", "hook of ended"}
HookKind == [queued |-> "hook of queued", ended |-> "hook of ended"]

VARIABLES
    setup,    \* the settings of this behaviour, which nothing changes
    row,      \* jobs.status
    log,      \* job_events of the job in id order; an event's id is its index
    purged,   \* events up to this one went with the deleted row
    marked,   \* m.cancels or m.finalizing knows the job
    pending,  \* Dispatcher.pending of the job
    hooks,    \* hook executions, counted by origin and step
    sub,      \* the submitter, from the inserted row on
    own,      \* the worker's run, or Cancel's queued path
    again,    \* Retry, under m.mu
    retries,
    wakes,    \* hub calls made outside every lock that have not run yet
    fpc,      \* where the follower, or the handler that serves it, is
    after,    \* what called eventsExhausted: the handler's head or its loop
    cursor,   \* the last event sent
    slot,     \* the subscriber's one-slot wake channel
    exhausted,\* the head's answer from eventsExhausted
    snap,     \* the detail being read: the row, whether a hook looked running
    first,    \* the first detail has not been read
    view,     \* the status the follower shows: its snapshot with the events applied
    heard,    \* history: the run (0, or the retry) the handler last found terminal
    cuts

\* Every step leaves one of the two groups alone, and with it the settings.
writers == <<setup, row, log, purged, marked, pending, hooks, sub, own, again, retries, wakes>>
readers == <<setup, fpc, after, cursor, exhausted, snap, first, view, heard, cuts>>
vars == <<writers, readers, slot>>

\* The followers that replay the whole history first, and those that do not
\* wait for the hooks.
FromStart == setup.fromStart
StopAtTerminal == setup.stopAtTerminal
\* Hook entries subscribed to "queued" / "ended".
HooksOn == setup.hooksOn
\* "read": a store read of the handler may fail; "record": a hook's event may
\* not be stored.
Faults == setup.faults
\* Bounds: start at the inserted row or once it is delivered, retries of the
\* job, connections that break or streams that the server ends.
FromInsert == setup.fromInsert
MaxRetries == setup.retries
MaxCuts == setup.cuts

HookSteps == {"dispatched", "startPublish", "running", "endPublish", "over"}
\* At "cursor" after a stream that ended of itself, at "reread" after one that
\* EndStreams ended: the client does the same in both.
DetailSteps == {"cursor", "reread", "job", "hookList", "hookPending"}
Checks == {"row", "finalizing", "hooks"}
StreamSteps == {"open", "subscribe", "backlog", "drain", "drain2", "wait"} \cup Checks
\* The handler holds a subscription.
Subscribed == Checks \cup {"backlog", "drain", "drain2", "wait"}

Terminal == row = "ended"
Locked == again # "none"   \* Retry holds m.mu

TypeOK ==
    /\ row \in Row /\ log \in Seq(Kind) /\ purged \in 0 .. Len(log)
    /\ marked \in BOOLEAN /\ pending \in Nat /\ wakes \in Nat
    /\ hooks \in [{"queued", "ended"} -> [HookSteps -> Nat]]
    /\ sub \in {"event", "publish", "dispatch", "done"}
    /\ own \in {"none", "claimed", "publish", "running", "endPublish", "dispatch", "clear"}
    /\ again \in {"none", "event", "publish"}
    /\ setup \in Setups /\ retries \in 0 .. MaxRetries /\ cuts \in 0 .. MaxCuts
    /\ fpc \in [Followers -> DetailSteps \cup StreamSteps \cup {"returned", "gone"}]
    /\ after \in [Followers -> {"head", "loop"}]
    /\ cursor \in [Followers -> Nat]
    /\ slot \in [Followers -> BOOLEAN]
    /\ exhausted \in [Followers -> BOOLEAN]
    /\ snap \in [Followers -> [row : Row, hook : BOOLEAN]]
    /\ first \in [Followers -> BOOLEAN]
    /\ view \in [Followers -> Row]
    /\ heard \in [Followers -> 0 .. MaxRetries]

-----------------------------------------------------------------------------

NoSnap == [row |-> "queued", hook |-> FALSE]

\* The submission has just inserted the row, or is over (FromInsert).
Init ==
    /\ setup \in Setups
    /\ row = "queued" /\ purged = 0
    /\ IF FromInsert THEN log = <<>> /\ sub = "event" ELSE log = <<"queued">> /\ sub = "done"
    /\ marked = FALSE /\ pending = 0 /\ wakes = 0
    /\ hooks = [k \in {"queued", "ended"} |-> [s \in HookSteps |-> 0]]
    /\ own = "none" /\ again = "none"
    /\ retries = 0 /\ cuts = 0
    /\ fpc = [f \in Followers |-> "cursor"]
    /\ after = [f \in Followers |-> "head"]
    /\ cursor = [f \in Followers |-> 0]
    /\ slot = [f \in Followers |-> FALSE]
    /\ exhausted = [f \in Followers |-> FALSE]
    /\ snap = [f \in Followers |-> NoSnap]
    /\ first = [f \in Followers |-> TRUE]
    /\ view = [f \in Followers |-> "queued"]
    /\ heard = [f \in Followers |-> 0]

Record(kind) == log' = Append(log, kind)

\* Hub.Publish and Hub.Wake: a pending wake absorbs the new one.
WakeNobody == UNCHANGED slot  \* mutant: the send to the subscriber's channel is dropped
WakeSubscribers == slot' = [f \in Followers |-> slot[f] \/ fpc[f] \in Subscribed]

\* Dispatcher.Dispatch: pending counts every matched hook before it returns.
Dispatched(kind) ==
    /\ pending' = pending + HooksOn[kind]
    /\ hooks' = [hooks EXCEPT ![kind].dispatched = @ + HooksOn[kind]]

-----------------------------------------------------------------------------
(* The submitter, outside m.mu: event, hooks, channel send. *)

SubmitEvent ==
    /\ sub = "event" /\ Record("queued") /\ sub' = "publish"
    /\ UNCHANGED <<row, purged, marked, pending, hooks, own, again, retries, wakes,
                   readers, slot>>

SubmitPublish ==
    /\ sub = "publish" /\ WakeSubscribers /\ sub' = "dispatch"
    /\ UNCHANGED <<row, log, purged, marked, pending, hooks, own, again, retries,
                   wakes, readers>>

SubmitDispatch ==
    /\ sub = "dispatch" /\ Dispatched("queued") /\ sub' = "done"
    /\ UNCHANGED <<row, log, purged, marked, own, again, retries, wakes, readers, slot>>

\* run() claims a delivered job: the submitter's channel send, or a retry's.
Claim ==
    /\ own = "none" /\ ~Locked /\ row = "queued" /\ (sub = "done" \/ retries > 0)
    /\ row' = "running" /\ marked' = TRUE /\ own' = "claimed"
    /\ UNCHANGED <<log, purged, pending, hooks, sub, again, retries, wakes, readers, slot>>

\* job_started, which stands for everything the job reports while it runs.
RunEvent ==
    /\ own = "claimed" /\ Record("started")
    /\ own' = "publish"
    /\ UNCHANGED <<row, purged, marked, pending, hooks, sub, again, retries, wakes, readers, slot>>

RunPublish ==
    /\ own = "publish" /\ WakeSubscribers /\ own' = "running"
    /\ UNCHANGED <<row, log, purged, marked, pending, hooks, sub, again, retries,
                   wakes, readers>>

\* Store.FinalizeJob: the terminal status and its event in one transaction, by
\* the run or by a cancel of the queued job, which marks it finalizing under
\* the same lock.
Finalize ==
    /\ \/ own = "running" /\ UNCHANGED marked
       \/ own = "none" /\ ~Locked /\ row = "queued" /\ marked' = TRUE
    /\ row' = "ended" /\ Record("ended") /\ own' = "endPublish"
    /\ UNCHANGED <<purged, pending, hooks, sub, again, retries, wakes, readers, slot>>

EndPublish ==
    /\ own = "endPublish" /\ WakeSubscribers /\ own' = "dispatch"
    /\ UNCHANGED <<row, log, purged, marked, pending, hooks, sub, again, retries,
                   wakes, readers>>

EndDispatch ==
    /\ own = "dispatch" /\ Dispatched("ended") /\ own' = "clear"
    /\ UNCHANGED <<row, log, purged, marked, sub, again, retries, wakes, readers, slot>>

\* The mark goes under m.mu; wakeStreams follows once the lock is released.
NoWake == UNCHANGED wakes  \* mutant: the mark is dropped without wakeStreams
WakeSoon == wakes' = wakes + 1

EndClear ==
    /\ own = "clear" /\ ~Locked /\ marked' = FALSE /\ WakeSoon /\ own' = "none"
    /\ UNCHANGED <<row, log, purged, pending, hooks, sub, again, retries, readers, slot>>

LateWake ==
    /\ wakes > 0 /\ wakes' = wakes - 1 /\ WakeSubscribers
    /\ UNCHANGED <<row, log, purged, marked, pending, hooks, sub, own, again, retries,
                   readers>>

-----------------------------------------------------------------------------
(* Retry keeps m.mu from the row to the event's publish; Delete is one        *)
(* transaction under m.mu, published after the lock.                          *)

Retry ==
    /\ again = "none" /\ Terminal /\ ~marked /\ retries < MaxRetries
    /\ row' = "queued" /\ retries' = retries + 1 /\ again' = "event"
    /\ UNCHANGED <<log, purged, marked, pending, hooks, sub, own, wakes, readers, slot>>

RetryEvent ==
    /\ again = "event" /\ Record("retried") /\ again' = "publish"
    /\ UNCHANGED <<row, purged, marked, pending, hooks, sub, own, retries, wakes,
                   readers, slot>>

RetryPublish ==
    /\ again = "publish" /\ WakeSubscribers /\ again' = "none"
    /\ UNCHANGED <<row, log, purged, marked, pending, hooks, sub, own, retries, wakes,
                   readers>>

Delete ==
    /\ ~Locked /\ Terminal /\ ~marked /\ pending = 0
    /\ row' = "deleted" /\ purged' = Len(log) /\ Record("deleted") /\ WakeSoon
    /\ UNCHANGED <<marked, pending, hooks, sub, own, again, retries, readers, slot>>

-----------------------------------------------------------------------------
(* Hook executions: started, run, ended, no longer pending. *)

HookMoves(k, from, to) ==
    /\ hooks[k][from] > 0
    /\ hooks' = [hooks EXCEPT ![k][from] = @ - 1, ![k][to] = @ + 1]

\* The dispatcher's record: a store failure is logged and nothing is published.
HookRecords(k, from, publish, to) ==
    \/ HookMoves(k, from, publish) /\ Record(HookKind[k])
    \/ "record" \in Faults /\ HookMoves(k, from, to) /\ UNCHANGED log

HookEvent(k) ==
    /\ \/ HookRecords(k, "dispatched", "startPublish", "running")
       \/ HookRecords(k, "running", "endPublish", "over")
    /\ UNCHANGED <<row, purged, marked, pending, sub, own, again, retries, wakes,
                   readers, slot>>

HookPublish(k) ==
    /\ HookMoves(k, "startPublish", "running") \/ HookMoves(k, "endPublish", "over")
    /\ WakeSubscribers
    /\ UNCHANGED <<row, log, purged, marked, pending, sub, own, again, retries, wakes,
                   readers>>

\* donePending: the last execution of the job wakes its streams (OnIdle).
HookDone(k) ==
    /\ hooks[k].over > 0
    /\ hooks' = [hooks EXCEPT ![k].over = @ - 1]
    /\ pending' = pending - 1
    /\ wakes' = IF pending = 1 THEN wakes + 1 ELSE wakes
    /\ UNCHANGED <<row, log, purged, marked, sub, own, again, retries, readers, slot>>

-----------------------------------------------------------------------------
(* client.FollowJob: GET /downloads/{id}, whose reads are separate too, then  *)
(* the stream from that snapshot's cursor.                                    *)

Visible == purged + 1 .. Len(log)
Goto(f, step) == fpc' = [fpc EXCEPT ![f] = step]
Untouched == UNCHANGED <<writers, slot>>

\* FollowJob returns; what it knew no longer matters.
Ends(f, how) ==
    /\ Goto(f, how)
    /\ cursor' = [cursor EXCEPT ![f] = 0]
    /\ view' = [view EXCEPT ![f] = "queued"]
    /\ after' = [after EXCEPT ![f] = "head"]

\* LatestEventID, read before the row.  It replaces the last event received.
DetailCursor(f) ==
    /\ fpc[f] \in {"cursor", "reread"} /\ Goto(f, "job")
    /\ cursor' = [cursor EXCEPT ![f] = IF Visible = {} THEN 0 ELSE Len(log)]
    /\ heard' = [heard EXCEPT ![f] = 0]
    /\ UNCHANGED <<after, exhausted, snap, first, view, cuts>> /\ Untouched

\* A missing row is a 404, which ends the follow with ErrJobGone.
DetailJob(f) ==
    /\ fpc[f] = "job"
    /\ \/ row = "deleted" /\ Ends(f, "gone") /\ UNCHANGED snap
       \/ /\ row # "deleted" /\ Goto(f, "hookList")
          /\ snap' = [snap EXCEPT ![f].row = row]
          /\ view' = [view EXCEPT ![f] = row]
          /\ UNCHANGED <<cursor, after>>
    /\ UNCHANGED <<exhausted, first, heard, cuts>> /\ Untouched

\* mutant: the cursor is read after the row
DetailCursorLast(f) ==
    /\ fpc[f] = "hookList" /\ Goto(f, "hookPending")
    /\ cursor' = [cursor EXCEPT ![f] = Len(log)]
    /\ UNCHANGED <<after, exhausted, snap, first, view, heard, cuts>> /\ Untouched

\* ListHookEvents: some hook's last event is its start.
DetailHookList(f) ==
    /\ fpc[f] = "hookList" /\ Goto(f, "hookPending")
    /\ LET begun == \E k \in {"queued", "ended"} : hooks[k].startPublish + hooks[k].running > 0 IN
       snap' = [snap EXCEPT ![f].hook = begun /\ Len(log) > purged]
    /\ UNCHANGED <<after, cursor, exhausted, first, view, heard, cuts>> /\ Untouched

\* SummarizeHooks, then FollowJob's verdict on the snapshot.
DetailHookPending(f) ==
    LET hooksRunning == snap[f].hook /\ pending > 0
        over == snap[f].row = "ended" /\ (f \in StopAtTerminal \/ ~hooksRunning)
        replay == first[f] /\ f \in FromStart
    IN
    /\ fpc[f] = "hookPending"
    /\ \/ /\ ~over \/ replay
          /\ Goto(f, "open")
          /\ cursor' = [cursor EXCEPT ![f] = IF replay THEN 0 ELSE @]
          /\ UNCHANGED <<after, view>>
       \/ over /\ ~replay /\ Ends(f, "returned")
    /\ first' = [first EXCEPT ![f] = FALSE]
    /\ snap' = [snap EXCEPT ![f] = NoSnap]
    /\ UNCHANGED <<exhausted, heard, cuts>> /\ Untouched

-----------------------------------------------------------------------------
(* The SSE handler: jobEvents, then runJobEventStream. *)

ReadFails == "read" \in Faults

Open(f) ==
    /\ fpc[f] = "open"
    /\ \/ row = "deleted" /\ Ends(f, "gone")
       \/ row # "deleted" /\ Goto(f, "subscribe") /\ UNCHANGED <<after, cursor, view>>
    /\ UNCHANGED <<exhausted, snap, first, heard, cuts>> /\ Untouched

Subscribe(f) ==
    /\ fpc[f] = "subscribe" /\ Goto(f, "row")
    /\ slot' = [slot EXCEPT ![f] = FALSE]
    /\ after' = [after EXCEPT ![f] = "head"]
    /\ UNCHANGED <<writers, cursor, exhausted, snap, first, view, heard, cuts>>

\* eventsExhausted has answered.
Answer(f, yes) ==
    /\ Goto(f, IF after[f] = "head" THEN "backlog" ELSE IF yes THEN "drain2" ELSE "wait")
    /\ exhausted' = [exhausted EXCEPT ![f] = yes /\ after[f] = "head"]

CheckRow(f) ==
    /\ fpc[f] = "row"
    /\ \/ row = "deleted" /\ Answer(f, TRUE)
       \/ row # "deleted" /\ (~Terminal \/ ReadFails) /\ Answer(f, FALSE)
       \/ Terminal /\ Goto(f, "finalizing") /\ UNCHANGED exhausted
    /\ heard' = [heard EXCEPT ![f] = IF Terminal THEN retries ELSE @]
    /\ UNCHANGED <<after, cursor, snap, first, view, cuts>> /\ Untouched

CheckFinalizing(f) ==
    /\ fpc[f] = "finalizing" /\ ~Locked
    /\ IF marked THEN Answer(f, FALSE) ELSE Goto(f, "hooks") /\ UNCHANGED exhausted
    /\ UNCHANGED <<after, cursor, snap, first, view, heard, cuts>> /\ Untouched

CheckHooks(f) ==
    /\ fpc[f] = "hooks" /\ Answer(f, pending = 0)
    /\ UNCHANGED <<after, cursor, snap, first, view, heard, cuts>> /\ Untouched

\* ListEventsAfterLimit: at most PageSize events after the cursor, oldest first.
PageFrom(c) ==
    LET from == IF c > purged THEN c + 1 ELSE purged + 1
    IN  {i \in from .. from + PageSize - 1 : i \in Visible}

\* A lifecycle event carries the status it announces.
Announced == [queued |-> "queued", started |-> "running", ended |-> "ended", retried |-> "queued",
              deleted |-> "deleted"]
Shown(status, page) ==
    LET lifecycle == {i \in page : log[i] \in DOMAIN Announced} IN
    IF lifecycle = {} THEN status ELSE Announced[log[Max(lifecycle)]]

\* The page goes out and the client applies it.  A follower that stops at the
\* terminal event hangs up there and reads the detail again.
Send(f, page, next) ==
    LET stops == f \in StopAtTerminal /\ \E i \in page : log[i] = "ended" IN
    /\ cursor' = [cursor EXCEPT ![f] = IF page = {} THEN @ ELSE Max(page)]
    /\ view' = [view EXCEPT ![f] = Shown(@, page)]
    /\ Goto(f, IF stops THEN "cursor" ELSE next)

\* 204 when there is nothing to send and nothing to wait for.
Backlog(f) ==
    LET page == PageFrom(cursor[f]) IN
    /\ fpc[f] = "backlog"
    /\ \/ Send(f, page, IF page = {} /\ exhausted[f] THEN "cursor" ELSE "drain")
       \/ ReadFails /\ Goto(f, "open") /\ UNCHANGED <<cursor, view>>
    /\ after' = [after EXCEPT ![f] = "loop"]
    /\ exhausted' = [exhausted EXCEPT ![f] = FALSE]
    /\ UNCHANGED <<snap, first, heard, cuts>> /\ Untouched

Full(page) == Cardinality(page) = PageSize

Drain(f) ==
    LET page == PageFrom(cursor[f]) IN
    /\ fpc[f] = "drain"
    /\ \/ Send(f, page, IF Full(page) THEN "drain" ELSE "row")
       \/ ReadFails /\ Goto(f, "wait") /\ UNCHANGED <<cursor, view>>
    /\ UNCHANGED <<after, exhausted, snap, first, heard, cuts>> /\ Untouched

\* mutant: the stream ends as soon as it is exhausted
NoSecondDrain(f) ==
    /\ fpc[f] = "drain2" /\ Goto(f, "cursor") /\ UNCHANGED <<cursor, view>>
    /\ UNCHANGED <<after, exhausted, snap, first, heard, cuts>> /\ Untouched

\* The drain after an exhausted answer, at whose end the stream ends: the
\* client reads the detail again.
SecondDrain(f) ==
    LET page == PageFrom(cursor[f]) IN
    /\ fpc[f] = "drain2"
    /\ \/ Send(f, page, IF Full(page) THEN "drain2" ELSE "cursor")
       \/ ReadFails /\ Goto(f, "wait") /\ UNCHANGED <<cursor, view>>
    /\ UNCHANGED <<after, exhausted, snap, first, heard, cuts>> /\ Untouched

Woken(f) ==
    /\ fpc[f] = "wait" /\ slot[f] /\ Goto(f, "drain")
    /\ slot' = [slot EXCEPT ![f] = FALSE]
    /\ UNCHANGED <<writers, after, cursor, exhausted, snap, first, view, heard, cuts>>

\* The re-drain tick, every storeRedrainInterval.
Redrain(f) ==
    /\ fpc[f] = "wait" /\ Goto(f, "drain")
    /\ UNCHANGED <<after, cursor, exhausted, snap, first, view, heard, cuts>> /\ Untouched

\* What ends a stream in its loop, wherever the handler is.
CutShort(f, step) ==
    /\ fpc[f] \in Subscribed /\ after[f] = "loop" /\ cuts < MaxCuts
    /\ cuts' = cuts + 1 /\ Goto(f, step)
    /\ UNCHANGED <<after, cursor, exhausted, snap, first, view, heard>> /\ Untouched

\* The connection breaks or the watchdog fires: an error, after which the client
\* comes back from the last event it received.
Cut(f) == CutShort(f, "open")

\* A shutdown ends the stream's context: the handler returns, and the answer ends
\* as cleanly as that of an exhausted stream.  The client reads the detail again.
EndStreams(f) == CutShort(f, "reread")

-----------------------------------------------------------------------------

Submit == SubmitEvent \/ SubmitPublish \/ SubmitDispatch
Owner == RunEvent \/ RunPublish \/ Finalize \/ EndPublish \/ EndDispatch \/ EndClear
Hook(k) == HookEvent(k) \/ HookPublish(k) \/ HookDone(k)
Detail(f) == DetailCursor(f) \/ DetailJob(f) \/ DetailHookList(f) \/ DetailHookPending(f)
Handler(f) ==
    \/ Open(f) \/ Subscribe(f) \/ CheckRow(f) \/ CheckFinalizing(f) \/ CheckHooks(f)
    \/ Backlog(f) \/ Drain(f) \/ SecondDrain(f) \/ Woken(f)

Next ==
    \/ Submit \/ Claim \/ Owner \/ LateWake
    \/ Retry \/ RetryEvent \/ RetryPublish \/ Delete
    \/ \E k \in {"queued", "ended"} : Hook(k)
    \/ \E f \in Followers : Detail(f) \/ Handler(f) \/ Redrain(f) \/ Cut(f) \/ EndStreams(f)

Spec == Init /\ [][Next]_vars

\* Goroutines keep running.  Nobody has to retry or delete the job, and no
\* re-drain tick has to come.
Fairness ==
    /\ WF_vars(Submit) /\ WF_vars(Claim) /\ WF_vars(Owner) /\ WF_vars(LateWake)
    /\ WF_vars(RetryEvent \/ RetryPublish)
    /\ \A k \in {"queued", "ended"} : WF_vars(Hook(k))
    /\ \A f \in Followers : WF_vars(Detail(f)) /\ WF_vars(Handler(f))

FairSpec == Spec /\ Fairness

-----------------------------------------------------------------------------
(* Properties *)

\* The hub call of a thread that has recorded an event is still to come.
PublishDue ==
    \/ sub = "publish" \/ own \in {"publish", "endPublish"} \/ again = "publish" \/ wakes > 0
    \/ \E k \in {"queued", "ended"} : hooks[k].startPublish + hooks[k].endPublish > 0

\* The one-slot channel may drop wakes, yet never the last one: a stream that
\* waits with an event still to send has a wake pending or coming.  Needs store
\* reads that do not fail; otherwise the re-drain tick is what saves the stream
\* (events/hub.go:28-33, sse.go:18-22).
NoEventMissed ==
    ~ReadFails => \A f \in Followers :
        fpc[f] = "wait" /\ PageFrom(cursor[f]) # {} => slot[f] \/ PublishDue

\* A stream ends of itself only when the client has the events of the run it was
\* found terminal in.  What it may miss belongs to a later retry, to the deletion,
\* or to a submission that a cancel overtook (eventsExhausted, job_events.go:19-34;
\* the second drain, 134-139).  A stream that EndStreams ended may leave anything
\* out: the snapshot that the client reads next has to tell it (ViewSettles).
RunOf(i) == Cardinality({k \in 1 .. i : log[k] = "retried"})
EndHasAll ==
    \A f \in Followers \ StopAtTerminal :
        fpc[f] = "cursor" /\ ~first[f] =>
            \A i \in Visible : i > cursor[f] =>
                RunOf(i) > heard[f] \/ log[i] \in {"deleted", "queued", "hook of queued"}

\* Every event from the client's snapshot on reaches it: none is missed while the
\* stream waits, none when it ends of itself.
EventsArrive == NoEventMissed /\ EndHasAll

\* A follower that has everything shows what the store says, whatever its
\* snapshot's reads raced with and however its last stream ended, unless a cancel overtook the submission's own
\* job_queued event (getDownload reads the cursor first, downloads.go:213-220).
Overtaken == \E i \in 2 .. Len(log) : log[i] = "queued"
ViewSettles ==
    \A f \in Followers :
        /\ fpc[f] = "wait" /\ PageFrom(cursor[f]) = {} /\ ~Overtaken
        /\ own # "claimed" /\ again # "event"
        => view[f] = row

\* FollowJob, once begun, comes back: with every read answering, wakes alone end
\* each stream, no re-drain tick needed.
FollowEnds ==
    ReadFails \/ \A f \in Followers : fpc[f] # "cursor" ~> fpc[f] \in {"returned", "gone"}

\* Whoever reads the stream may forget how it comes: from one snapshot to the next
\* a follower gets the events in order, none twice and none left out, and shows
\* what they tell, through pages, wakes, failed reads and broken connections.
Log == INSTANCE EventReaders WITH
    Readers <- Followers, Kinds <- Kind, Statuses <- Row, Tells <- Announced,
    reading <- {f \in Followers : fpc[f] \in StreamSteps}, at <- cursor, shown <- view
ImplementsReaders == Log!Spec
=============================================================================

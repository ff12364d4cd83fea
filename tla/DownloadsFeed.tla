--------------------------- MODULE DownloadsFeed ---------------------------
(***************************************************************************)
(* The overview feed, end to end: the threads that change job rows and     *)
(* announce it (src/internal/jobs, src/internal/media/motion_artwork.go),  *)
(* the handler that turns the milestone events of every job into one       *)
(* message per job (src/internal/api/downloads_feed.go), the connection,   *)
(* and a client that keeps the list current (src/internal/client/follow.go,*)
(* FollowFeed).                                                            *)
(*                                                                         *)
(* A message carries the job as the store holds it when it is built, not   *)
(* as it was when its event was filed, so what the list shows in the end   *)
(* depends on the order of the handler's reads.                            *)
(***************************************************************************)
EXTENDS Integers, Sequences, FiniteSets, SequencesExt

CONSTANTS
    Jobs,
    Setups       \* bound: the settings to look at, see setup

ASSUME FeedSetupsAssumption ==
    Setups \subseteq [jobs : SUBSET Jobs, artwork : SUBSET Jobs, page : Nat \ {0},
                      faults : SUBSET {"record", "read"}, changes : Nat, items : Nat,
                      pushes : Nat, errors : Nat, cuts : Nat]

Status == {"queued", "running", "ended"}
\* What a job list shows of one job.
Shown == [status : Status, items : Nat, art : BOOLEAN]
\* The job is not, or no longer, in the list.
None == [status |-> "none", items |-> 0, art |-> FALSE]

\* What announces a change of one job: SubmitBatch and Retry under submitMu,
\* the worker's run or Cancel or Delete, and the artwork lookup.
Lanes == {"admission", "run", "artwork"}

VARIABLES
    setup,   \* the settings of this behaviour, which nothing changes
    rows,    \* the jobs table
    log,     \* job_events in id order; an event's id is its index
    lanes,   \* what each lane still has to do: file its event, publish it
    lookup,  \* the artwork lookup of a job: not started, running, over
    changes, \* row changes so far (bounds the model)
    hpc,     \* where the handler is
    wakeup,  \* the handler's one-slot wake channel
    lastID,  \* the handler's cursor
    full,    \* the page being sent may not be the last
    queue,   \* the ids of its events still to be turned into messages
    out,     \* messages built and not yet sent
    tally,   \* the counts every message of this round carries
    cpc,     \* where the client is
    cursor,  \* the client's cursor
    view,    \* the list the client shows
    counts,  \* the status counts it shows
    dropped, \* history: the jobs that were on the list and left it
    wire,    \* the message sent and not yet received, if any
    errors, pushes, cuts

\* Every step leaves the store or the client alone, and with it the settings.
store == <<setup, rows, log, lanes, lookup, changes>>
handler == <<hpc, lastID, full, queue, out, tally, pushes>>
client == <<setup, cpc, cursor, view, counts, dropped, cuts>>
vars == <<store, handler, wakeup, client, wire, errors>>

\* streamEventPageSize, 512 in the code.
PageSize == setup.page
\* "record": a best-effort event may not be stored; "read": a store read of the
\* handler may fail.
Faults == setup.faults
\* Bounds: the jobs submitted, those with a cover to look up, changes of the
\* rows, items of a job, progress ticks, failed reads and lost events,
\* connections that break.
Submitted == setup.jobs
Artwork == setup.artwork
MaxChanges == setup.changes
MaxItems == setup.items
MaxPushes == setup.pushes
MaxErrors == setup.errors
MaxCuts == setup.cuts

TypeOK ==
    /\ setup \in Setups
    /\ rows \in [Jobs -> Shown \cup {None}]
    /\ log \in Seq([job : Jobs, type : {"milestone", "detail", "tombstone", "purged"}])
    /\ lanes \in [Jobs -> [Lanes -> {"idle", "event", "publish"}]]
    /\ hpc \in {"off", "page", "counts", "job", "send", "wait", "pushCounts"}
    /\ cpc \in {"cursor", "list", "counts", "open", "live"}
    /\ view \in [Jobs -> Shown \cup {None}]
    /\ lastID \in 0 .. Len(log) /\ cursor \in 0 .. Len(log)

NoCounts == [s \in Status |-> 0]
CountsNow == [s \in Status |-> Cardinality({j \in Jobs : rows[j].status = s})]
\* COALESCE(MAX(id),0) over the events still stored.
LatestID == Max({0} \cup {i \in 1 .. Len(log) : log[i].type # "purged"})

Init ==
    /\ setup \in Setups
    /\ rows = [j \in Jobs |-> None] /\ log = <<>>
    /\ lanes = [j \in Jobs |-> [l \in Lanes |-> "idle"]]
    /\ lookup = [j \in Jobs |-> "none"] /\ changes = 0
    /\ hpc = "off" /\ wakeup = FALSE /\ lastID = 0
    /\ full = FALSE /\ queue = {} /\ out = {} /\ tally = NoCounts
    /\ cpc = "cursor" /\ cursor = 0
    /\ view = [j \in Jobs |-> None] /\ counts = NoCounts /\ dropped = {}
    /\ wire = {} /\ errors = 0 /\ pushes = 0 /\ cuts = 0

-----------------------------------------------------------------------------
(* The writers *)

Change(j, row) ==
    /\ changes < MaxChanges /\ changes' = changes + 1
    /\ rows' = [rows EXCEPT ![j] = row]
Owes(j, lane, step) == lanes' = [lanes EXCEPT ![j][lane] = step]
Append1(j, type) == log' = Append(log, [job |-> j, type |-> type])
StoreStep == UNCHANGED <<handler, wakeup, client, wire>>
Idle(j, lane) == lanes[j][lane] = "idle"
Is(j, status) == rows[j].status = status

\* SubmitBatch: the row first, its job_queued event best-effort.
Submit(j) ==
    /\ j \in Submitted /\ rows[j] = None /\ \A i \in DOMAIN log : log[i].job # j
    /\ \A l \in Lanes : Idle(j, l)
    /\ Change(j, [status |-> "queued", items |-> 0, art |-> FALSE])
    /\ Owes(j, "admission", "event")
    /\ StoreStep /\ UNCHANGED <<log, lookup, errors>>

\* A worker takes the delivered job; the row says running before job_started is
\* filed. The lookup of the animated cover starts with the processing.
Claim(j) ==
    /\ Is(j, "queued") /\ Idle(j, "admission") /\ Idle(j, "run")
    /\ Change(j, [rows[j] EXCEPT !.status = "running"])
    /\ Owes(j, "run", "event")
    /\ lookup' = [lookup EXCEPT ![j] = IF @ = "none" /\ j \in Artwork THEN "running" ELSE @]
    /\ StoreStep /\ UNCHANGED <<log, errors>>

ItemEnds(j) ==
    /\ Is(j, "running") /\ Idle(j, "run") /\ rows[j].items < MaxItems
    /\ Change(j, [rows[j] EXCEPT !.items = @ + 1])
    /\ Owes(j, "run", "event")
    /\ StoreStep /\ UNCHANGED <<log, lookup, errors>>

\* An event no list entry depends on: item_progress, codec_selected.
Detail(j) ==
    /\ Is(j, "running") /\ Idle(j, "run") /\ changes < MaxChanges
    /\ changes' = changes + 1 /\ Append1(j, "detail")
    /\ StoreStep /\ UNCHANGED <<rows, lanes, lookup, errors>>

\* Store.FinalizeJob: the terminal row and its event in one transaction, by the
\* worker or by Cancel of a job no worker holds.
Finalize(j) ==
    /\ Idle(j, "run") /\ rows[j] # None /\ rows[j].status # "ended"
    /\ Change(j, [rows[j] EXCEPT !.status = "ended"])
    /\ Append1(j, "milestone") /\ Owes(j, "run", "publish")
    /\ StoreStep /\ UNCHANGED <<lookup, errors>>

Retry(j) ==
    /\ Is(j, "ended") /\ Idle(j, "run") /\ Idle(j, "admission")
    /\ Change(j, [rows[j] EXCEPT !.status = "queued"])
    /\ Owes(j, "admission", "event")
    /\ StoreStep /\ UNCHANGED <<log, lookup, errors>>

\* Manager.Delete and Store.DeleteJob: the job's events go and the tombstone is
\* filed with the row's delete. Neither the artwork lookup nor an admission that
\* has not filed its event holds it up.
Delete(j) ==
    /\ Is(j, "ended") /\ Idle(j, "run")
    /\ Change(j, None)
    /\ log' = Append([i \in DOMAIN log |-> IF log[i].job = j THEN [log[i] EXCEPT !.type = "purged"] ELSE log[i]],
                     [job |-> j, type |-> "tombstone"])
    /\ Owes(j, "run", "publish")
    /\ StoreStep /\ UNCHANGED <<lookup, errors>>

\* SetJobMotionArtwork from the detached lookup, at any time after the start.
ArtworkFound(j) ==
    /\ lookup[j] = "running" /\ rows[j] # None
    /\ Change(j, [rows[j] EXCEPT !.art = TRUE])
    /\ lookup' = [lookup EXCEPT ![j] = "over"] /\ Owes(j, "artwork", "event")
    /\ StoreStep /\ UNCHANGED <<log, errors>>
\* No cover exists, or the job is gone: nothing to announce.
ArtworkNone(j) ==
    /\ lookup[j] = "running"
    /\ lookup' = [lookup EXCEPT ![j] = "over"]
    /\ StoreStep /\ UNCHANGED <<rows, log, lanes, changes, errors>>

\* Manager.Event: the event is stored, then published.
FileEvent(j, lane) ==
    /\ lanes[j][lane] = "event"
    /\ Append1(j, "milestone") /\ Owes(j, lane, "publish")
    /\ StoreStep /\ UNCHANGED <<rows, lookup, changes, errors>>
\* AddEvent fails: nothing is published, the row stays as it is.
LoseEvent(j, lane) ==
    /\ lanes[j][lane] = "event" /\ "record" \in Faults /\ errors < MaxErrors
    /\ errors' = errors + 1 /\ Owes(j, lane, "idle")
    /\ StoreStep /\ UNCHANGED <<rows, log, lookup, changes>>

\* Mutant: a handler that is busy is not woken.
PublishToWaiting(j, lane) ==
    /\ lanes[j][lane] = "publish" /\ Owes(j, lane, "idle")
    /\ wakeup' = (wakeup \/ hpc = "wait")
    /\ UNCHANGED <<rows, log, lookup, changes, handler, client, wire, errors>>

\* Hub.Publish: every overview subscriber's slot is full afterwards.
Publish(j, lane) ==
    /\ lanes[j][lane] = "publish" /\ Owes(j, lane, "idle")
    /\ wakeup' = (hpc # "off")
    /\ UNCHANGED <<rows, log, lookup, changes, handler, client, wire, errors>>

-----------------------------------------------------------------------------
(* The handler *)

HandlerStep == UNCHANGED <<store, client, errors>>
ReadFails == "read" \in Faults /\ errors < MaxErrors /\ errors' = errors + 1

\* The events the list depends on, and those of them after an id.
OnList(i) == i \in 1 .. Len(log) /\ log[i].type \in {"milestone", "tombstone"}
News(id) == {i \in id + 1 .. Len(log) : OnList(i)}

\* ListMilestoneEventsAfterLimit: the first of them, a page at most.
PageAfter(id) == {i \in News(id) : Cardinality({k \in News(id) : k < i}) < PageSize}

\* Each job of the page once, at its highest id.
LatestPerJob(ids) == {i \in ids : \A k \in ids : k > i => log[k].job # log[i].job}

ReadPage ==
    /\ hpc = "page"
    /\ LET ids == PageAfter(lastID)
       IN  /\ hpc' = IF ids = {} THEN "wait" ELSE "counts"
           /\ queue' = LatestPerJob(ids)
           /\ full' = (Cardinality(ids) >= PageSize)
    /\ HandlerStep /\ UNCHANGED <<lastID, tally, out, pushes, wakeup, wire>>

ReadCounts ==
    /\ hpc = "counts"
    /\ tally' = CountsNow /\ hpc' = "job"
    /\ HandlerStep /\ UNCHANGED <<lastID, full, queue, out, pushes, wakeup, wire>>

\* Mutant: an event of a missing job is sent as an upsert.
RowOfEvent(i) == IF log[i].type = "tombstone" THEN None ELSE [rows[log[i].job] EXCEPT !.status = "ended"]

\* download_deleted for a tombstone, and for a job whose row is gone although
\* its event is not the tombstone; else download_upserted with the row of now.
RowFor(i) == IF log[i].type = "tombstone" THEN None ELSE rows[log[i].job]

\* Messages are sent in ascending order of their events.
IsNext(i) == i \in queue /\ \A k \in queue : i <= k

ReadJob ==
    /\ hpc = "job"
    /\ \E i \in queue :
         /\ IsNext(i) /\ queue' = queue \ {i}
         /\ out' = {[id |-> i, job |-> log[i].job, row |-> RowFor(i)]}
    /\ hpc' = "send"
    /\ HandlerStep /\ UNCHANGED <<lastID, full, tally, pushes, wakeup, wire>>

\* Mutant: the cursor moves past the message that could not be built.
DrainSkips ==
    /\ hpc = "job" /\ ReadFails /\ hpc' = "wait" /\ queue' = {}
    /\ \E i \in queue : IsNext(i) /\ log[i].type # "tombstone" /\ lastID' = i
    /\ UNCHANGED <<store, client, full, tally, out, pushes, wakeup, wire>>

\* A failed read ends the round with the cursor before the unsent message. A
\* tombstone needs no row.
DrainFails ==
    /\ hpc \in {"page", "counts", "job"}
    /\ hpc = "job" => \E i \in queue : IsNext(i) /\ log[i].type # "tombstone"
    /\ ReadFails /\ hpc' = "wait" /\ queue' = {}
    /\ UNCHANGED <<store, client, lastID, full, tally, out, pushes, wakeup, wire>>

\* The next message of the round; a full page is followed by another read, a
\* short one ends the drain.
Send ==
    /\ hpc = "send" /\ wire = {}
    /\ \E m \in out :
         /\ wire' = {[msg |-> m, counts |-> tally]}
         /\ lastID' = m.id /\ out' = out \ {m}
    /\ hpc' = IF out' # {} THEN "send" ELSE IF queue # {} THEN "job" ELSE IF full THEN "page" ELSE "wait"
    /\ HandlerStep /\ UNCHANGED <<full, queue, tally, pushes, wakeup>>

Woken ==
    /\ hpc = "wait" /\ wakeup
    /\ wakeup' = FALSE /\ hpc' = "page"
    /\ HandlerStep /\ UNCHANGED <<lastID, full, queue, tally, out, pushes, wire>>
\* The re-drain tick.
Redrain ==
    /\ hpc = "wait" /\ hpc' = "page"
    /\ HandlerStep /\ UNCHANGED <<lastID, full, queue, tally, out, pushes, wakeup, wire>>

\* pushProgress: the running jobs are read first, the counts after them, and
\* they are sent at the cursor already reached: no event stands behind them.
\* Which of them moved is a matter of bytes, so any may have.
PushRead ==
    /\ hpc = "wait" /\ pushes < MaxPushes /\ pushes' = pushes + 1
    /\ \E moved \in (SUBSET {j \in Jobs : Is(j, "running")}) \ {{}} :
         out' = {[id |-> lastID, job |-> j, row |-> rows[j]] : j \in moved}
    /\ hpc' = "pushCounts" /\ full' = FALSE
    /\ HandlerStep /\ UNCHANGED <<lastID, queue, tally, wakeup, wire>>
PushCounts ==
    /\ hpc = "pushCounts" /\ tally' = CountsNow /\ hpc' = "send"
    /\ HandlerStep /\ UNCHANGED <<lastID, full, queue, out, pushes, wakeup, wire>>
PushFails ==
    /\ hpc = "pushCounts" /\ ReadFails /\ hpc' = "wait" /\ out' = {}
    /\ UNCHANGED <<store, client, lastID, full, queue, tally, pushes, wakeup, wire>>

-----------------------------------------------------------------------------
(* The client: Server.listDownloads as FollowFeed calls it, and its stream *)

ClientStep == UNCHANGED <<store, full, queue, out, tally, pushes, errors, cuts>>

Left == {j \in Jobs : view[j] # None /\ view'[j] = None}

\* The global cursor is read before the jobs.
ListCursor ==
    /\ cpc = "cursor" /\ cpc' = "list"
    /\ cursor' = LatestID
    /\ ClientStep /\ UNCHANGED <<view, counts, dropped, hpc, lastID, wakeup, wire>>
ListJobs ==
    /\ cpc = "list" /\ cpc' = "counts"
    /\ view' = rows /\ dropped' = dropped \cup Left
    /\ ClientStep /\ UNCHANGED <<cursor, counts, hpc, lastID, wakeup, wire>>
ListCounts ==
    /\ cpc = "counts" /\ cpc' = "open"
    /\ counts' = CountsNow
    /\ ClientStep /\ UNCHANGED <<cursor, view, dropped, hpc, lastID, wakeup, wire>>

\* The handler subscribes before its first drain.
Open ==
    /\ cpc = "open" /\ cpc' = "live"
    /\ hpc' = "page" /\ lastID' = cursor /\ wakeup' = FALSE
    /\ ClientStep /\ UNCHANGED <<cursor, view, counts, dropped, wire>>

Receive ==
    /\ cpc = "live" /\ wire' = {}
    /\ \E sent \in wire :
         LET msg == sent.msg
         IN  /\ cursor' = IF msg.id > cursor THEN msg.id ELSE cursor
             /\ view' = [view EXCEPT ![msg.job] = msg.row]
             /\ counts' = sent.counts
             /\ dropped' = dropped \cup Left
    /\ ClientStep /\ UNCHANGED <<cpc, hpc, lastID, wakeup>>

\* The connection breaks wherever the handler is; what is on the wire is lost.
\* The client resumes, or reads a new snapshot when its cursor is rejected.
Cut ==
    /\ cpc = "live" /\ cuts < MaxCuts /\ cuts' = cuts + 1
    /\ cpc' \in {"open", "cursor"}
    /\ hpc' = "off" /\ wakeup' = FALSE /\ wire' = {}
    /\ full' = FALSE /\ queue' = {} /\ out' = {} /\ tally' = NoCounts /\ lastID' = 0
    /\ UNCHANGED <<store, pushes, errors, cursor, view, counts, dropped>>

Writer(j) ==
    \/ Submit(j) \/ Claim(j) \/ ItemEnds(j) \/ Detail(j) \/ Finalize(j) \/ Retry(j) \/ Delete(j)
    \/ ArtworkFound(j) \/ ArtworkNone(j)
    \/ \E l \in Lanes : FileEvent(j, l) \/ LoseEvent(j, l) \/ Publish(j, l)
Drains == ReadPage \/ ReadCounts \/ ReadJob \/ Send \/ Woken \/ PushCounts
Follows == ListCursor \/ ListJobs \/ ListCounts \/ Open \/ Receive

Next ==
    \/ \E j \in Jobs : Writer(j)
    \/ Drains \/ Redrain \/ PushRead \/ DrainFails \/ PushFails
    \/ Follows \/ Cut

Spec == Init /\ [][Next]_vars

-----------------------------------------------------------------------------
(* Properties *)

\* Nothing is under way: every change is announced, the handler waits with
\* nothing to wake it, the client has what was sent.
Quiet ==
    /\ \A j \in Jobs, l \in Lanes : Idle(j, l)
    /\ cpc = "live" /\ hpc = "wait" /\ ~wakeup /\ wire = {}

\* Once nothing is under way the client shows the jobs the store holds, and its
\* counts: through deletes that overtake an announcement, a cover that arrives
\* after the tombstone, pages that end between two events of a job, and
\* connections that lose a message.
FeedSettles == Faults = {} /\ Quiet => view = rows /\ counts = CountsNow

\* A best-effort event that could not be stored may leave an entry behind, and
\* a failed read leaves it to the next round, but a handler that has no event
\* left to replay has told the client which jobs are over or gone, and what
\* became of their items: these are stored with the event that says so.
EndsAreSeen ==
    Quiet /\ PageAfter(lastID) = {} => \A j \in Jobs :
        /\ rows[j] = None => view[j] = None
        /\ Is(j, "ended") => view[j].status = "ended" /\ view[j].items = rows[j].items

\* A job the list dropped never comes back: no event filed after the tombstone,
\* no progress read before it, no replay after a reconnect resurrects it.
NoResurrection == \A j \in dropped : view[j] = None

\* The downloads list is what the feed makes of the store, in the end and at no
\* moment with a job that was dropped: the three of them.
FeedHolds == FeedSettles /\ EndsAreSeen /\ NoResurrection
=============================================================================

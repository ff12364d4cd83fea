----------------------------- MODULE DesktopJobs -----------------------------
(* One download in the desktop app's store (apps/desktop/internal/store:      *)
(* store.go, jobs.go, finished.go). The feed's follower, the job's follower,  *)
(* a read of its tracks and the answer of the submit that created it all post *)
(* to the UI thread, each in its own time: what one of them read may be older *)
(* than what another has already shown. The row of a job is the number of     *)
(* lifecycle events it had when it was read.                                  *)
EXTENDS Naturals, FiniteSets, Sequences

CONSTANTS
    MaxEvents,  \* the lifecycle events the job may have
    Stories      \* what happens besides: records of the fields below

\* ticks: messages of the feed that report progress and no event; visits: how
\* often the detail screen opens; breaks: how often the feed's stream breaks;
\* reads: whether the app submits the job itself and wants its tracks.
ASSUME DesktopAssumption ==
    /\ MaxEvents \in Nat
    /\ \A s \in Stories : s.events \in 0..MaxEvents /\ {s.ticks, s.visits, s.breaks} \subseteq Nat

VARIABLES
    story,        \* the member of Stories this behaviour follows
    events,     \* what the backend recorded of the job, in order
    deleted,    \* the backend dropped it
    feed,       \* FollowFeed: its phase and cursor, the message on its way
    ticks, visits, breaks,
    submit,     \* the answer of the submit that created the job
    tracks,     \* the read of WantTracks
    job,        \* the store's Job, NoJob while it has none
    seen,       \* notified[id]: the status told, or NoValue
    detail,     \* DetailID is the job
    follower,   \* the follower in Store.followers, or NoFollower
    told,       \* how often the notifier heard of each run
    saw,        \* the runs the store showed unfinished while that was news
    newest,     \* the newest row posted so far, GoneMark once it was gone
    late        \* a row older than that was posted after it

desktopVars == <<story, events, deleted, feed, ticks, visits, breaks, submit, tracks, job,
                 seen, detail,
                 follower, told, saw, newest, late>>

GoneMark == MaxEvents + 1

NoValue == "none"
Runs == 1..MaxEvents
Lifecycle == {"queued", "started", "completed", "failed", "cancelled", "retried"}
Over == {"completed", "failed", "cancelled"}

\* The job's row after n events.
StatusAfter(n) == CASE events[n] \in {"queued", "retried"} -> "queued"
               [] events[n] = "started" -> "running"
               [] OTHER -> events[n]
Terminal(status) == status \in Over
Run(n) == Cardinality({i \in 1..n : events[i] \in {"queued", "retried"}})
Now == Len(events)

\* A Job: the row shown, the row of the last detail, its tracks, its log.
NoJob == [row |-> 0, snapshot |-> 0, items |-> FALSE, activity |-> <<>>]
NewJob == NoJob
NoFollower == [phase |-> NoValue, history |-> FALSE, first |-> TRUE, at |-> 0, row |-> 0]
Known == job.row # 0

DesktopInit ==
    /\ story \in Stories /\ events = <<>> /\ deleted = FALSE
    /\ feed = [phase |-> "list", cursor |-> 0, row |-> 0, id |-> 0]
    /\ ticks = 0 /\ visits = 0 /\ breaks = 0
    /\ submit = NoValue /\ tracks = [phase |-> NoValue, row |-> 0]
    /\ job = NoJob /\ seen = NoValue /\ detail = FALSE
    /\ follower = NoFollower
    /\ told = [r \in Runs |-> 0] /\ saw = {} /\ newest = 0 /\ late = FALSE

DesktopTypeOK ==
    /\ events \in Seq(Lifecycle) /\ Now <= MaxEvents /\ deleted \in BOOLEAN
    /\ feed.phase \in {"list", "listed", "live", "upserted", "deleted"}
    /\ {feed.cursor, feed.id, newest} \subseteq 0..GoneMark /\ feed.row <= Now
    /\ submit \in {NoValue, "sent", "done"} /\ tracks.phase \in {NoValue, "sent", "read", "done"}
    /\ job.row <= Now /\ job.snapshot <= Now
    /\ seen \in Over \union {NoValue} /\ detail \in BOOLEAN /\ late \in BOOLEAN
    /\ follower.phase \in {NoValue, "detail", "detailed", "stream", "gone", "ended"}

-----------------------------------------------------------------------------
\* The backend. A client of another machine may submit, retry and delete too.
Backend == UNCHANGED <<story, feed, ticks, visits, breaks, tracks, job, seen, detail,
                       follower, told, saw, newest, late>>
Record(type) == ~deleted /\ Now < story.events /\ events' = Append(events, type)

\* Submit, by this app or by another: the row it answers with is queued.
Created ==
    /\ events = <<>> /\ Record("queued")
    /\ submit' \in (IF story.reads THEN {"sent", "done"} ELSE {"done"})
    /\ UNCHANGED deleted /\ Backend
Starts ==
    /\ Now > 0 /\ StatusAfter(Now) = "queued" /\ Record("started")
    /\ UNCHANGED <<deleted, submit>> /\ Backend
Ends ==
    /\ Now > 0 /\ \/ StatusAfter(Now) = "running" /\ \E end \in Over : Record(end)
                  \/ StatusAfter(Now) = "queued" /\ Record("cancelled")
    /\ UNCHANGED <<deleted, submit>> /\ Backend
Retried ==
    /\ Now > 0 /\ StatusAfter(Now) \in {"failed", "cancelled"} /\ Record("retried")
    /\ UNCHANGED <<deleted, submit>> /\ Backend
Deletes ==
    /\ Now > 0 /\ Terminal(StatusAfter(Now)) /\ ~deleted /\ deleted' = TRUE
    /\ UNCHANGED <<events, submit>> /\ Backend

-----------------------------------------------------------------------------
\* A row is posted: which runs were seen at work, and whether it comes late.
AtWork(n) == IF n \in 1..MaxEvents /\ n >= newest /\ ~Terminal(StatusAfter(n)) THEN {Run(n)} ELSE {}
Arrives(n) == /\ newest' = IF n > newest THEN n ELSE newest
              /\ late' = (late \/ n < newest)
Posts(n) == saw' = saw \union AtWork(n) /\ Arrives(n)
\* Watching begins with the first list: what it shows at work is news, unless
\* an end told before it may be taken for the end to come.
Lists(n) == saw' = (IF seen = NoValue THEN AtWork(n) ELSE {}) /\ Arrives(n)

\* Mutant: the end told last is remembered over a retry.
NoteStatusForGood(n) ==
    IF ~Terminal(StatusAfter(n)) \/ seen = StatusAfter(n)
    THEN UNCHANGED <<seen, told>>
    ELSE /\ seen' = StatusAfter(n)
         /\ told' = IF StatusAfter(n) = "cancelled" THEN told ELSE [told EXCEPT ![Run(n)] = @ + 1]

\* noteStatus: the notifier hears of a run that just finished.
NoteStatus(n) ==
    IF ~Terminal(StatusAfter(n))
    THEN seen' = NoValue /\ UNCHANGED told
    ELSE IF seen = StatusAfter(n)
    THEN UNCHANGED <<seen, told>>
    ELSE /\ seen' = StatusAfter(n)
         /\ told' = IF StatusAfter(n) = "cancelled" THEN told ELSE [told EXCEPT ![Run(n)] = @ + 1]

Following(history) == [NoFollower EXCEPT !.phase = "detail", !.history = history]
\* follow: unless one runs; unfollowUnlessNeeded: unless it runs or is shown.
FollowerOf(status) ==
    IF status = "running"
    THEN IF follower = NoFollower THEN Following(FALSE) ELSE follower
    ELSE IF detail THEN follower ELSE NoFollower

\* upsert: the row replaces the one shown, whichever is newer.
Upsert(n) ==
    /\ job' = [job EXCEPT !.row = n]
    /\ NoteStatus(n)
    /\ follower' = FollowerOf(StatusAfter(n))
    /\ Posts(n)

\* remove.
DropJob ==
    /\ job' = NoJob /\ seen' = NoValue /\ follower' = NoFollower /\ detail' = FALSE
    /\ Posts(GoneMark) /\ UNCHANGED told

\* applyDetail.
ApplyDetail(n) ==
    /\ job' = [job EXCEPT !.row = n, !.snapshot = n, !.items = TRUE]
    /\ NoteStatus(n) /\ Posts(n)

Store == <<job, seen, detail, follower, told, saw, newest, late>>

-----------------------------------------------------------------------------
\* FollowFeed reads the list, then a message for every event and progress tick.
FeedReads ==
    /\ feed.phase = "list"
    /\ feed' = [phase |-> "listed", cursor |-> IF deleted THEN GoneMark ELSE Now, id |-> 0,
                 row |-> IF deleted THEN 0 ELSE Now]
    /\ UNCHANGED <<story, events, deleted, ticks, visits, breaks, submit,
                   tracks>> /\ UNCHANGED Store

\* ApplySnapshot; a job already over is not news.
FeedLists ==
    /\ feed.phase = "listed" /\ feed' = [feed EXCEPT !.phase = "live"]
    /\ IF feed.row = 0
       THEN /\ job' = NoJob /\ detail' = FALSE /\ UNCHANGED seen
            /\ follower' = IF detail THEN follower ELSE NoFollower
       ELSE /\ job' = [job EXCEPT !.row = feed.row] /\ UNCHANGED detail
            /\ seen' = IF Terminal(StatusAfter(feed.row)) THEN StatusAfter(feed.row) ELSE seen
            /\ follower' = IF StatusAfter(feed.row) = "running" /\ follower = NoFollower
                           THEN Following(FALSE) ELSE follower
    /\ Lists(IF feed.cursor = GoneMark THEN GoneMark ELSE feed.row)
    /\ UNCHANGED <<story, events, deleted, ticks, visits, breaks, submit, tracks, told>>

FeedSends ==
    /\ feed.phase = "live"
    /\ \/ deleted /\ feed.cursor # GoneMark /\ UNCHANGED ticks
          /\ feed' = [feed EXCEPT !.phase = "deleted", !.id = GoneMark]
       \/ ~deleted /\ feed.cursor < Now /\ UNCHANGED ticks
          /\ feed' = [feed EXCEPT !.phase = "upserted", !.row = Now, !.id = Now]
       \/ ~deleted /\ feed.cursor = Now /\ Now > 0 /\ StatusAfter(Now) = "running"
          /\ ticks < story.ticks /\ ticks' = ticks + 1
          /\ feed' = [feed EXCEPT !.phase = "upserted", !.row = Now, !.id = Now]
    /\ UNCHANGED <<story, events, deleted, visits, breaks, submit, tracks>> /\ UNCHANGED Store

\* applyMessage.
FeedTells ==
    /\ \/ feed.phase = "upserted" /\ Upsert(feed.row) /\ UNCHANGED detail
       \/ feed.phase = "deleted" /\ Known /\ DropJob
       \/ feed.phase = "deleted" /\ ~Known /\ Posts(GoneMark)
          /\ UNCHANGED <<job, seen, detail, follower, told>>
    /\ feed' = [feed EXCEPT !.phase = "live", !.cursor = feed.id]
    /\ UNCHANGED <<story, events, deleted, ticks, visits, breaks, submit, tracks>>

\* The answer of the submit adds the job it created.
SubmitTells ==
    /\ submit = "sent" /\ submit' = "done"
    /\ Upsert(1)
    /\ UNCHANGED <<story, events, deleted, feed, ticks, visits, breaks, tracks, detail>>

-----------------------------------------------------------------------------
\* FollowJob reads the job, posts it, then streams the events after it.
Goes(f) == /\ follower' = f
           /\ UNCHANGED <<story, events, deleted, feed, ticks, visits, breaks, submit,
                          tracks>>

FollowerReads ==
    /\ follower.phase = "detail"
    /\ Goes(IF deleted THEN [follower EXCEPT !.phase = "gone"]
            ELSE [follower EXCEPT !.phase = "detailed", !.row = Now])
    /\ UNCHANGED <<job, seen, detail, told, saw, newest, late>>

FollowerDetails ==
    /\ follower.phase = "detailed"
    /\ ApplyDetail(follower.row)
    /\ Goes(IF ~Known /\ StatusAfter(follower.row) # "running"
            THEN NoFollower
            ELSE IF follower.first /\ follower.history
            THEN [follower EXCEPT !.phase = "stream", !.at = 0, !.first = FALSE]
            ELSE IF Terminal(StatusAfter(follower.row))
            THEN [follower EXCEPT !.phase = "ended"]
            ELSE [follower EXCEPT !.phase = "stream", !.at = follower.row, !.first = FALSE])
    /\ UNCHANGED detail

\* applyEvent: an event the snapshot already holds is only logged.
FollowerEvent ==
    /\ follower.phase = "stream" /\ follower.at < Now /\ ~deleted
    /\ LET n == follower.at + 1
           logged == [job EXCEPT !.activity = Append(@, n)] IN
       /\ Goes([follower EXCEPT !.at = n])
       /\ IF ~Known THEN UNCHANGED <<job, seen, told, saw, newest, late>>
          ELSE IF n <= job.snapshot THEN job' = logged /\ UNCHANGED <<seen, told, saw,
                                                                      newest, late>>
          ELSE /\ job' = [logged EXCEPT !.row = n]
               /\ NoteStatus(n) /\ Posts(n)
    /\ UNCHANGED detail

\* The stream of a job that is over ends; the next detail tells why.
FollowerEnds ==
    /\ follower.phase = "stream"
    /\ IF deleted THEN Goes([follower EXCEPT !.phase = "gone"])
       ELSE /\ follower.at = Now /\ Terminal(StatusAfter(Now))
            /\ Goes([follower EXCEPT !.phase = "detail"])
    /\ UNCHANGED <<job, seen, detail, told, saw, newest, late>>

\* Mutant: the follower that returned is not started again.
NotAgain == FALSE

\* The job was retried while the follower of its last run wound down.
RunsAgain == follower.phase = "ended" /\ Known /\ StatusAfter(job.row) = "running"

\* FollowJob returned: a job that is gone goes, one that runs again is followed.
FollowerLeaves ==
    /\ follower.phase \in {"gone", "ended"}
    /\ IF follower.phase = "gone" /\ Known
       THEN DropJob
       ELSE /\ follower' = IF RunsAgain THEN Following(FALSE) ELSE NoFollower
            /\ UNCHANGED <<job, seen, detail, told, saw, newest, late>>
    /\ UNCHANGED <<story, events, deleted, feed, ticks, visits, breaks, submit, tracks>>

-----------------------------------------------------------------------------
\* WantTracks, for a job the feed listed without its tracks, once.
WantTracks ==
    /\ story.reads /\ Known /\ ~job.items /\ tracks.phase = NoValue
    /\ tracks' = [tracks EXCEPT !.phase = "sent"]
    /\ UNCHANGED <<story, events, deleted, feed, ticks, visits, breaks,
                   submit>> /\ UNCHANGED Store
TracksRead ==
    /\ tracks.phase = "sent"
    /\ tracks' = IF deleted THEN [phase |-> "done", row |-> 0] ELSE [phase |-> "read", row |-> Now]
    /\ UNCHANGED <<story, events, deleted, feed, ticks, visits, breaks,
                   submit>> /\ UNCHANGED Store
TracksTold ==
    /\ tracks.phase = "read" /\ tracks' = [tracks EXCEPT !.phase = "done"]
    /\ IF Known THEN ApplyDetail(tracks.row) ELSE UNCHANGED <<job, seen, told, saw,
                                                              newest, late>>
    /\ UNCHANGED <<story, events, deleted, feed, ticks, visits, breaks, submit, detail,
                   follower>>

OpenDetail ==
    /\ Known /\ ~detail /\ visits < story.visits
    /\ visits' = visits + 1 /\ detail' = TRUE
    /\ follower' = IF follower = NoFollower THEN Following(TRUE) ELSE follower
    /\ UNCHANGED <<story, events, deleted, feed, ticks, breaks, submit, tracks, job, seen,
                   told, saw, newest, late>>
CloseDetail ==
    /\ detail /\ detail' = FALSE
    /\ follower' = IF Known /\ StatusAfter(job.row) = "running" THEN follower ELSE NoFollower
    /\ UNCHANGED <<story, events, deleted, feed, ticks, visits, breaks, submit, tracks,
                   job, seen, told, saw, newest, late>>

\* A stream breaks: the follower resumes after the last event it was sent.
FeedCut ==
    /\ feed.phase \in {"upserted", "deleted"} /\ breaks < story.breaks /\ breaks' = breaks + 1
    /\ feed' = [feed EXCEPT !.phase = "live"]
    /\ UNCHANGED <<story, events, deleted, ticks, visits, submit,
                   tracks>> /\ UNCHANGED Store

BackendNext == Created \/ Starts \/ Ends \/ Retried \/ Deletes
FeedNext == FeedReads \/ FeedLists \/ FeedSends \/ FeedTells \/ FeedCut \/ SubmitTells
FollowerNext == FollowerReads \/ FollowerDetails \/ FollowerEvent \/ FollowerEnds \/ FollowerLeaves
UserNext == WantTracks \/ TracksRead \/ TracksTold \/ OpenDetail \/ CloseDetail
DesktopNext == BackendNext \/ FeedNext \/ FollowerNext \/ UserNext
DesktopSpec == DesktopInit /\ [][DesktopNext]_desktopVars

-----------------------------------------------------------------------------
\* Everything the backend has to say has been posted.
AllPosted ==
    /\ feed.phase = "live" /\ feed.cursor = IF deleted THEN GoneMark ELSE Now
    /\ follower.phase = NoValue \/ (follower.phase = "stream" /\ follower.at = Now /\ ~deleted)
    /\ submit # "sent" /\ tracks.phase \in {NoValue, "done"}

\* The store follows the backend (upsert, remove, applyDetail, applyEvent): once
\* all is posted, and unless a row arrived after a newer one, the job shown is
\* the backend's, is gone when the backend's is, and is followed while it runs,
\* even when it was retried while the follower of its last run wound down.
StoreSettles ==
    AllPosted /\ ~late =>
        /\ job.row = IF deleted THEN 0 ELSE Now
        /\ Known /\ StatusAfter(job.row) = "running" => follower # NoFollower

\* Every end is told, and once (noteStatus): a run the app saw unfinished and
\* that completed or failed as the job's last was told to the notifier, after a
\* retry too and whichever of the feed and the follower brought its end, unless
\* a row arrived after a newer one. The first list forgets no end told before
\* it (ApplySnapshot), so a run it shows at work after one counts as seen when
\* its next row does.
EndsAreTold ==
    /\ AllPosted /\ ~late /\ ~deleted /\ Now > 0
    /\ StatusAfter(Now) \in {"completed", "failed"} /\ Run(Now) \in saw
    => told[Run(Now)] = 1

\* The download shown and the ends told are the backend's.
StoreHolds == StoreSettles /\ EndsAreTold
=============================================================================

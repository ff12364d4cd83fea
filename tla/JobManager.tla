----------------------------- MODULE JobManager -----------------------------
(***************************************************************************)
(* The job manager (src/internal/jobs): request handlers that submit,      *)
(* cancel, retry and delete download jobs, the worker pool that runs them, *)
(* startup recovery and shutdown.                                          *)
(*                                                                         *)
(* A critical section under Manager.mu is one action.  Everything the code *)
(* does outside that lock is a step of its own, so the steps of handlers,  *)
(* workers and hooks interleave exactly where the code lets them.          *)
(***************************************************************************)
EXTENDS Integers, Sequences, FiniteSets

CONSTANTS
    Jobs,         \* job ids; a submission takes one that was never used
    Keys,         \* canonical keys "type:storefront:id"
    KeyOf,        \* the canonical key each job id is submitted with
    Workers,      \* the worker goroutines (download.max_running_jobs)
    Clients,      \* request threads: REST handlers and the library watcher
    None,         \* no thread
    QueueCap,     \* capacity of the admission channel (256 in the code)
    HooksOn,      \* hook entries subscribed to "queued" / "ended"
    Faults,       \* the store calls that may fail; a failing read or first write that
                  \* ends its handler with nothing changed needs no action
    MaxBatch,     \* bound: URLs of one submit request
    MaxRetries,   \* bound: retries of one job
    MaxRestarts   \* bound: restarts of the process

FaultPoints ==
    {"lookup", "create", "event", "claim", "reload", "persist", "cancelPersist", "retryUpdate"}

ASSUME ThreadsAssumption == None \notin Workers \cup Clients
ASSUME KeysAssumption == KeyOf \in [Jobs -> Keys]
ASSUME QueueAssumption == QueueCap \in Nat \ {0}
ASSUME HooksAssumption == HooksOn \in [{"queued", "ended"} -> Nat]
ASSUME FaultsAssumption == Faults \subseteq FaultPoints
ASSUME BoundsAssumption == MaxBatch \in Nat /\ MaxRetries \in Nat /\ MaxRestarts \in Nat

Active == {"queued", "running"}
Terminal == {"completed", "failed", "cancelled"}
Status == {"absent", "deleted"} \cup Active \cup Terminal

\* What the rows of job_items hold, as the set of item states present:
\* done stands for completed and skipped_existing, open for every state an
\* item has before it ends.
ItemStates == {"open", "done", "failed", "cancelled"}

\* The job_events rows the properties tell apart.
EventKinds == {"queued", "started", "ended", "retried", "recovered", "hook", "deleted"}

VARIABLES
    (* the SQLite store, which survives a restart *)
    status,      \* jobs.status; "absent" before the insert, "deleted" after the delete
    items,       \* job_items
    events,      \* job_events, as the number of rows of each kind
    retries,     \* how often a job was retried (only bounds the model)
    (* the manager's memory *)
    queue,       \* m.queue, the admission channel
    recovery,    \* m.recoveryQueue
    cancels,     \* m.cancels: the worker whose run registered the cancel func
    finalizing,  \* m.finalizing: Cancel's queued path is still dispatching
    pending,     \* Dispatcher.pending: hooks of a job that have not ended
    submitMu,    \* the client holding m.submitMu
    (* request threads *)
    cpc,         \* where the handler is
    cjob,        \* the job its current step works on
    batch,       \* candidates of a submit request not yet handled
    queueFull,   \* the request saw a full queue
    (* worker goroutines *)
    wpc, wjob,
    wctx,        \* the run's context: live, or the cause it was cancelled with
    result,      \* what ProcessJob returned
    outcome,     \* the terminal status run() decided on
    (* the process *)
    phase,       \* recovering -> serving -> stopping
    todo,        \* rows RecoverUnfinished has still to enqueue
    restarts

store == <<status, items, events, retries>>
manager == <<queue, recovery, cancels, finalizing, pending, submitMu>>
client == <<cpc, cjob, batch, queueFull>>
worker == <<wpc, wjob, wctx, result, outcome>>
process == <<phase, todo, restarts>>
vars == <<store, manager, client, worker, process>>

ClientSteps == {"idle", "lock", "lookup", "create", "event", "dispatch", "enqueue",
                "cancelHooks", "cancelClear"}
WorkerSteps == {"idle", "claim", "started", "process", "tracks", "closing", "returned",
                "reload", "persist", "hooks", "cleanup"}
\* From the claim to the deferred cleanup a worker owns its job.
RunSteps == WorkerSteps \ {"idle", "claim"}
\* The part of it before the terminal status is written.
BeforePersist == RunSteps \ {"hooks", "cleanup"}

NoEvents == [k \in EventKinds |-> 0]
TypeOK ==
    /\ status \in [Jobs -> Status]
    /\ items \in [Jobs -> SUBSET ItemStates]
    /\ events \in [Jobs -> [EventKinds -> Nat]]
    /\ retries \in [Jobs -> 0 .. MaxRetries]
    /\ queue \in Seq(Jobs)
    /\ recovery \in Seq(Jobs)
    /\ cancels \in [Jobs -> Workers \cup {None}]
    /\ finalizing \in [Jobs -> BOOLEAN]
    /\ pending \in [Jobs -> Nat]
    /\ submitMu \in Clients \cup {None}
    /\ cpc \in [Clients -> ClientSteps]
    /\ cjob \in [Clients -> Jobs \cup {None}]
    /\ batch \in [Clients -> SUBSET Jobs]
    /\ queueFull \in [Clients -> BOOLEAN]
    /\ wpc \in [Workers -> WorkerSteps]
    /\ wjob \in [Workers -> Jobs \cup {None}]
    /\ wctx \in [Workers -> {"live", "cancelled", "shutdown"}]
    /\ result \in [Workers -> {"ok", "error", "panic"}]
    /\ outcome \in [Workers -> {"none"} \cup Terminal]
    /\ phase \in {"recovering", "serving", "stopping"}
    /\ todo \subseteq Jobs
    /\ restarts \in 0 .. MaxRestarts

-----------------------------------------------------------------------------

Init ==
    /\ status = [j \in Jobs |-> "absent"]
    /\ items = [j \in Jobs |-> {}]
    /\ events = [j \in Jobs |-> NoEvents]
    /\ retries = [j \in Jobs |-> 0]
    /\ queue = <<>>
    /\ recovery = <<>>
    /\ cancels = [j \in Jobs |-> None]
    /\ finalizing = [j \in Jobs |-> FALSE]
    /\ pending = [j \in Jobs |-> 0]
    /\ submitMu = None
    /\ cpc = [c \in Clients |-> "idle"]
    /\ cjob = [c \in Clients |-> None]
    /\ batch = [c \in Clients |-> {}]
    /\ queueFull = [c \in Clients |-> FALSE]
    /\ wpc = [w \in Workers |-> "idle"]
    /\ wjob = [w \in Workers |-> None]
    /\ wctx = [w \in Workers |-> "live"]
    /\ result = [w \in Workers |-> "ok"]
    /\ outcome = [w \in Workers |-> "none"]
    /\ phase = "recovering"
    /\ todo = {}
    /\ restarts = 0

\* FindActiveJobByKey: some queued or running row has j's canonical key.
KeyActive(j) == \E k \in Jobs : KeyOf[k] = KeyOf[j] /\ status[k] \in Active

\* Record one event of a kind; best-effort where the caller only logs an error.
Recorded(j, kind) == [events EXCEPT ![j][kind] = @ + 1]
BestEffort(j, kind) ==
    \/ events' = Recorded(j, kind)
    \/ "event" \in Faults /\ UNCHANGED events

\* Dispatcher.Dispatch counts the subscribed hooks as pending before it
\* returns.  During shutdown it may already be closed and drop the delivery.
DispatchHooks(j, kind) ==
    \/ pending' = [pending EXCEPT ![j] = @ + HooksOn[kind]]
    \/ phase = "stopping" /\ UNCHANGED pending

\* m.cancels or m.finalizing still knows the job.
InFlightUnmarked(j) == cancels[j] # None  \* mutant: Cancel's queued path leaves no mark
InFlight(j) == cancels[j] # None \/ finalizing[j]

CancelOpen(s) == IF "open" \in s THEN (s \ {"open"}) \cup {"cancelled"} ELSE s
ResetUnfinished(s) == IF s \subseteq {"done"} THEN s ELSE (s \cap {"done"}) \cup {"open"}

-----------------------------------------------------------------------------
(* SubmitBatch *)

\* Ids are fresh: no other request holds one of these.
Fresh(j) == status[j] = "absent" /\ \A c \in Clients : j \notin batch[c]

\* Validation and the in-request dedup touch no shared state: what is left is
\* a set of candidates with distinct canonical keys.
SubmitBegin(c, urls) ==
    /\ phase = "serving" /\ cpc[c] = "idle"
    /\ urls # {} /\ Cardinality(urls) <= MaxBatch
    /\ \A j \in urls : Fresh(j)
    /\ \A j, k \in urls : KeyOf[j] = KeyOf[k] => j = k
    /\ batch' = [batch EXCEPT ![c] = urls]
    /\ cpc' = [cpc EXCEPT ![c] = "lock"]
    /\ UNCHANGED <<store, manager, cjob, queueFull, worker, process>>

SubmitMayLock(c) == cpc[c] = "lock" /\ submitMu = None

SubmitLock(c) ==
    /\ SubmitMayLock(c)
    /\ submitMu' = c
    /\ cpc' = [cpc EXCEPT ![c] = "lookup"]
    /\ queueFull' = [queueFull EXCEPT ![c] = FALSE]
    /\ UNCHANGED <<store, queue, recovery, cancels, finalizing, pending, cjob, batch,
                   worker, process>>

\* A candidate the lookup lets through.
SubmitAdmit(c, j) ==
    /\ cpc[c] = "lookup" /\ j \in batch[c]
    /\ ~queueFull[c] /\ ~KeyActive(j) /\ Len(queue) < QueueCap
    /\ cjob' = [cjob EXCEPT ![c] = j]
    /\ cpc' = [cpc EXCEPT ![c] = "create"]
    /\ UNCHANGED <<store, manager, batch, queueFull, worker, process>>

\* A candidate it answers with duplicate_active, queue_full or store_error.
SubmitReject(c, j) ==
    /\ cpc[c] = "lookup" /\ j \in batch[c]
    /\ \/ queueFull[c] /\ UNCHANGED queueFull
       \/ ~queueFull[c] /\ (KeyActive(j) \/ "lookup" \in Faults) /\ UNCHANGED queueFull
       \/ /\ ~queueFull[c] /\ ~KeyActive(j) /\ Len(queue) >= QueueCap
          /\ queueFull' = [queueFull EXCEPT ![c] = TRUE]
    /\ batch' = [batch EXCEPT ![c] = @ \ {j}]
    /\ UNCHANGED <<store, manager, cpc, cjob, worker, process>>

\* CreateJob, whose partial unique index refuses a second active row of a key.
SubmitCreate(c) ==
    LET j == cjob[c] IN
    /\ cpc[c] = "create"
    /\ \/ /\ ~KeyActive(j)
          /\ status' = [status EXCEPT ![j] = "queued"]
          /\ cpc' = [cpc EXCEPT ![c] = "event"]
          /\ UNCHANGED <<cjob, batch>>
       \/ /\ KeyActive(j) \/ "create" \in Faults
          /\ cpc' = [cpc EXCEPT ![c] = "lookup"]
          /\ cjob' = [cjob EXCEPT ![c] = None]
          /\ batch' = [batch EXCEPT ![c] = @ \ {j}]
          /\ UNCHANGED status
    /\ UNCHANGED <<items, events, retries, manager, queueFull, worker, process>>

SubmitEvent(c) ==
    /\ cpc[c] = "event"
    /\ BestEffort(cjob[c], "queued")
    /\ cpc' = [cpc EXCEPT ![c] = "dispatch"]
    /\ UNCHANGED <<status, items, retries, manager, cjob, batch, queueFull, worker, process>>

SubmitDispatch(c) ==
    /\ cpc[c] = "dispatch"
    /\ DispatchHooks(cjob[c], "queued")
    /\ cpc' = [cpc EXCEPT ![c] = "enqueue"]
    /\ UNCHANGED <<store, queue, recovery, cancels, finalizing, submitMu, cjob, batch,
                   queueFull, worker, process>>

\* The channel send blocks while the channel is full.
SubmitEnqueue(c) ==
    /\ cpc[c] = "enqueue" /\ Len(queue) < QueueCap
    /\ queue' = Append(queue, cjob[c])
    /\ batch' = [batch EXCEPT ![c] = @ \ {cjob[c]}]
    /\ cjob' = [cjob EXCEPT ![c] = None]
    /\ cpc' = [cpc EXCEPT ![c] = "lookup"]
    /\ UNCHANGED <<store, recovery, cancels, finalizing, pending, submitMu, queueFull,
                   worker, process>>

SubmitDone(c) ==
    /\ cpc[c] = "lookup" /\ batch[c] = {}
    /\ submitMu' = None
    /\ cpc' = [cpc EXCEPT ![c] = "idle"]
    /\ UNCHANGED <<store, queue, recovery, cancels, finalizing, pending, cjob, batch,
                   queueFull, worker, process>>

-----------------------------------------------------------------------------
(* Cancel, Retry, Delete.  The HTTP drain of a shutdown is bounded, so a     *)
(* handler may still run while the workers are being stopped.                *)

Accepting == phase \in {"serving", "stopping"}

\* The cancel func belongs to the context of the run that registered it;
\* calling it again, or after a shutdown, changes nothing.
CancelRunning(j) ==
    /\ Accepting /\ cancels[j] # None
    /\ wctx' = [wctx EXCEPT ![cancels[j]] = IF @ = "live" THEN "cancelled" ELSE @]
    /\ UNCHANGED <<store, manager, client, wpc, wjob, result, outcome, process>>

\* No worker holds the job: its terminal state is written under m.mu.
CancelsAnyRow(j) == status[j] \in Active  \* mutant: m.cancels is not consulted
CancelsRow(j) == cancels[j] = None /\ status[j] \in Active

CancelQueued(c, j) ==
    /\ Accepting /\ cpc[c] = "idle"
    /\ CancelsRow(j)
    /\ \/ /\ status' = [status EXCEPT ![j] = "cancelled"]
          /\ items' = [items EXCEPT ![j] = CancelOpen(@)]
          /\ events' = Recorded(j, "ended")
          /\ finalizing' = [finalizing EXCEPT ![j] = TRUE]
          /\ cjob' = [cjob EXCEPT ![c] = j]
          /\ cpc' = [cpc EXCEPT ![c] = "cancelHooks"]
       \/ /\ "cancelPersist" \in Faults
          /\ items' = [items EXCEPT ![j] = CancelOpen(@)]
          /\ UNCHANGED <<status, events, finalizing, cjob, cpc>>
    /\ UNCHANGED <<retries, queue, recovery, cancels, pending, submitMu, batch, queueFull,
                   worker, process>>

CancelHooks(c) ==
    /\ cpc[c] = "cancelHooks"
    /\ DispatchHooks(cjob[c], "ended")
    /\ cpc' = [cpc EXCEPT ![c] = "cancelClear"]
    /\ UNCHANGED <<store, queue, recovery, cancels, finalizing, submitMu, cjob, batch,
                   queueFull, worker, process>>

CancelClear(c) ==
    /\ cpc[c] = "cancelClear"
    /\ finalizing' = [finalizing EXCEPT ![cjob[c]] = FALSE]
    /\ cjob' = [cjob EXCEPT ![c] = None]
    /\ cpc' = [cpc EXCEPT ![c] = "idle"]
    /\ UNCHANGED <<store, queue, recovery, cancels, pending, submitMu, batch, queueFull,
                   worker, process>>

\* Both locks are held from the status read to the channel send.
MayEnqueueUnlocked == TRUE  \* mutant: Retry does not take submitMu
MayEnqueue == submitMu = None

RetryableTooEarly(j) ==  \* mutant: no look at m.cancels and m.finalizing
    /\ status[j] \in {"failed", "cancelled"} /\ ~KeyActive(j) /\ Len(queue) < QueueCap
Retryable(j) ==
    /\ status[j] \in {"failed", "cancelled"}
    /\ ~InFlight(j) /\ ~KeyActive(j) /\ Len(queue) < QueueCap

\* mutant: the event's error ends the handler before the channel send
RetryStrict(j) ==
    /\ Accepting /\ MayEnqueue /\ Retryable(j) /\ retries[j] < MaxRetries
    /\ status' = [status EXCEPT ![j] = "queued"]
    /\ retries' = [retries EXCEPT ![j] = @ + 1]
    /\ items' = [items EXCEPT ![j] = ResetUnfinished(@)]
    /\ \/ events' = Recorded(j, "retried") /\ queue' = Append(queue, j)
       \/ "event" \in Faults /\ UNCHANGED <<events, queue>>
    /\ UNCHANGED <<recovery, cancels, finalizing, pending, submitMu, client, worker, process>>

Retry(j) ==
    /\ Accepting /\ MayEnqueue /\ Retryable(j)
    /\ retries[j] < MaxRetries
    /\ items' = [items EXCEPT ![j] = ResetUnfinished(@)]
    /\ \/ /\ status' = [status EXCEPT ![j] = "queued"]
          /\ retries' = [retries EXCEPT ![j] = @ + 1]
          /\ BestEffort(j, "retried")
          /\ queue' = Append(queue, j)
       \/ "retryUpdate" \in Faults /\ UNCHANGED <<status, retries, events, queue>>
    /\ UNCHANGED <<recovery, cancels, finalizing, pending, submitMu, client, worker, process>>

DeletableTooEarly(j) == status[j] \in Terminal /\ pending[j] = 0  \* mutant: as in Retry
Deletable(j) == status[j] \in Terminal /\ ~InFlight(j) /\ pending[j] = 0

Delete(j) ==
    /\ Accepting /\ Deletable(j)
    /\ status' = [status EXCEPT ![j] = "deleted"]
    /\ items' = [items EXCEPT ![j] = {}]
    /\ events' = [events EXCEPT ![j] = [NoEvents EXCEPT !["deleted"] = 1]]
    /\ UNCHANGED <<retries, manager, client, worker, process>>

\* A hook of j ends; its last event is recorded before it stops being pending.
HookEnds(j) ==
    /\ pending[j] > 0
    /\ pending' = [pending EXCEPT ![j] = @ - 1]
    /\ events' = Recorded(j, "hook")
    /\ UNCHANGED <<status, items, retries, queue, recovery, cancels, finalizing, submitMu,
                   client, worker, process>>

-----------------------------------------------------------------------------
(* The worker loop and run() *)

\* Startup filled the recovery queue before the workers started; they drain
\* it before waiting on the admission channel.
TakeRecovered(w) ==
    /\ phase = "serving" /\ wpc[w] = "idle" /\ recovery # <<>>
    /\ wjob' = [wjob EXCEPT ![w] = Head(recovery)]
    /\ recovery' = Tail(recovery)
    /\ wpc' = [wpc EXCEPT ![w] = "claim"]
    /\ UNCHANGED <<store, queue, cancels, finalizing, pending, submitMu, client, wctx,
                   result, outcome, process>>

TakeQueued(w) ==
    /\ phase = "serving" /\ wpc[w] = "idle" /\ recovery = <<>> /\ queue # <<>>
    /\ wjob' = [wjob EXCEPT ![w] = Head(queue)]
    /\ queue' = Tail(queue)
    /\ wpc' = [wpc EXCEPT ![w] = "claim"]
    /\ UNCHANGED <<store, recovery, cancels, finalizing, pending, submitMu, client, wctx,
                   result, outcome, process>>

Claimable(j) == status[j] = "queued"

Claim(w) ==
    /\ wpc[w] = "claim" /\ phase = "serving" /\ Claimable(wjob[w])
    /\ status' = [status EXCEPT ![wjob[w]] = "running"]
    /\ cancels' = [cancels EXCEPT ![wjob[w]] = w]
    /\ wctx' = [wctx EXCEPT ![w] = "live"]
    /\ wpc' = [wpc EXCEPT ![w] = "started"]
    /\ UNCHANGED <<items, events, retries, queue, recovery, finalizing, pending, submitMu,
                   client, wjob, result, outcome, process>>

\* A stale delivery, a deleted row, a store failure, or a worker context that
\* shutdown cancelled, under which every store call fails.
ClaimNothing(w) ==
    /\ wpc[w] = "claim"
    /\ \/ ~Claimable(wjob[w])
       \/ "claim" \in Faults
       \/ phase = "stopping"
    /\ wpc' = [wpc EXCEPT ![w] = "idle"]
    /\ wjob' = [wjob EXCEPT ![w] = None]
    /\ UNCHANGED <<store, manager, client, wctx, result, outcome, process>>

\* The job_started event is written under the run's context.
Started(w) ==
    /\ wpc[w] = "started"
    /\ \/ wctx[w] = "live" /\ BestEffort(wjob[w], "started")
       \/ wctx[w] # "live" /\ UNCHANGED events
    /\ wpc' = [wpc EXCEPT ![w] = "process"]
    /\ UNCHANGED <<status, items, retries, manager, client, wjob, wctx, result, outcome, process>>

\* ProcessJob up to syncJobItems: finished items stay, every other track gets
\* a queued row.  A resolved collection has at least one track.
ProcessSync(w) ==
    /\ wpc[w] = "process"
    /\ \E kept \in SUBSET (items[wjob[w]] \cap {"done"}), fresh \in SUBSET {"open"} :
          /\ kept \cup fresh # {}
          /\ items' = [items EXCEPT ![wjob[w]] = kept \cup fresh]
    /\ wpc' = [wpc EXCEPT ![w] = "tracks"]
    /\ UNCHANGED <<status, events, retries, manager, client, wjob, wctx, result, outcome, process>>

\* The tracks end.  Under a live context each one is done or failed; once the
\* context is cancelled any of them may also be left open or marked cancelled.
ProcessTracks(w) ==
    LET j == wjob[w]
        ends == IF "open" \notin items[j] THEN {{}}
                ELSE IF wctx[w] = "live" THEN (SUBSET {"done", "failed"}) \ {{}}
                ELSE IF wctx[w] = "cancelled" THEN (SUBSET ItemStates) \ {{}}
                ELSE (SUBSET {"done", "failed", "open"}) \ {{}}
    IN
    /\ wpc[w] = "tracks"
    /\ \E e \in ends :
          /\ items' = [items EXCEPT ![j] = (@ \ {"open"}) \cup e]
          /\ result' = [result EXCEPT ![w] = IF e \subseteq {"done"} THEN "ok" ELSE "error"]
    /\ wpc' = [wpc EXCEPT ![w] = "closing"]
    /\ UNCHANGED <<status, events, retries, manager, client, wjob, wctx, outcome, process>>

\* ProcessJob gives up before any track: an unusable config, a collection that
\* does not resolve, a store error.
ProcessFails(w) ==
    /\ wpc[w] = "process"
    /\ result' = [result EXCEPT ![w] = "error"]
    /\ wpc' = [wpc EXCEPT ![w] = "closing"]
    /\ UNCHANGED <<store, manager, client, wjob, wctx, outcome, process>>

\* ProcessJob panics; processRecovered turns it into errProcessorPanic.
ProcessPanics(w) ==
    /\ wpc[w] \in {"process", "tracks"}
    /\ result' = [result EXCEPT ![w] = "panic"]
    /\ wpc' = [wpc EXCEPT ![w] = "returned"]
    /\ UNCHANGED <<store, manager, client, wjob, wctx, outcome, process>>

\* ProcessJob's last look at its context ends the items of a cancelled job.
ProcessCloses(w) ==
    /\ wpc[w] = "closing"
    /\ items' = IF wctx[w] = "cancelled" THEN [items EXCEPT ![wjob[w]] = CancelOpen(@)]
                                         ELSE items
    /\ wpc' = [wpc EXCEPT ![w] = "returned"]
    /\ UNCHANGED <<status, events, retries, manager, client, wjob, wctx, result, outcome, process>>

Interrupted(w) == result[w] # "panic" /\ wctx[w] = "shutdown"

CheckShutdown(w) ==
    /\ wpc[w] = "returned"
    /\ wpc' = [wpc EXCEPT ![w] = IF Interrupted(w) THEN "cleanup" ELSE "reload"]
    /\ UNCHANGED <<store, manager, client, wjob, wctx, result, outcome, process>>

\* The reload and the verdict.  ctx.Err() does not tell a shutdown that
\* arrived after CheckShutdown from a user's cancel.
VerdictByCounters(w, loaded) ==  \* mutant: ProcessJob's error is not looked at
    IF result[w] = "panic" THEN "failed"
    ELSE IF wctx[w] # "live" THEN "cancelled"
    ELSE IF ~loaded \/ "failed" \in items[wjob[w]] THEN "failed"
    ELSE "completed"
Verdict(w, loaded) ==
    IF result[w] = "panic" THEN "failed"
    ELSE IF wctx[w] # "live" THEN "cancelled"
    ELSE IF result[w] = "error" \/ ~loaded \/ "failed" \in items[wjob[w]] THEN "failed"
    ELSE "completed"

Decide(w) ==
    /\ wpc[w] = "reload"
    /\ \E loaded \in {TRUE} \cup (IF "reload" \in Faults THEN {FALSE} ELSE {}) :
          outcome' = [outcome EXCEPT ![w] = Verdict(w, loaded)]
    /\ wpc' = [wpc EXCEPT ![w] = "persist"]
    /\ UNCHANGED <<store, manager, client, wjob, wctx, result, process>>

\* FinalizeJob: status and terminal event in one transaction; a failure is
\* logged and no hook fires.
Persist(w) ==
    /\ wpc[w] = "persist"
    /\ \/ /\ status' = [status EXCEPT ![wjob[w]] = outcome[w]]
          /\ events' = Recorded(wjob[w], "ended")
          /\ wpc' = [wpc EXCEPT ![w] = "hooks"]
       \/ /\ "persist" \in Faults
          /\ wpc' = [wpc EXCEPT ![w] = "cleanup"]
          /\ UNCHANGED <<status, events>>
    /\ UNCHANGED <<items, retries, manager, client, wjob, wctx, result, outcome, process>>

RunHooks(w) ==
    /\ wpc[w] = "hooks"
    /\ DispatchHooks(wjob[w], "ended")
    /\ wpc' = [wpc EXCEPT ![w] = "cleanup"]
    /\ UNCHANGED <<store, queue, recovery, cancels, finalizing, submitMu, client, wjob, wctx,
                   result, outcome, process>>

\* The deferred cleanup deletes whatever entry the job has.
Cleanup(w) ==
    /\ wpc[w] = "cleanup"
    /\ cancels' = [cancels EXCEPT ![wjob[w]] = None]
    /\ wpc' = [wpc EXCEPT ![w] = "idle"]
    /\ wjob' = [wjob EXCEPT ![w] = None]
    /\ wctx' = [wctx EXCEPT ![w] = "live"]
    /\ result' = [result EXCEPT ![w] = "ok"]
    /\ outcome' = [outcome EXCEPT ![w] = "none"]
    /\ UNCHANGED <<store, queue, recovery, finalizing, pending, submitMu, client, process>>

-----------------------------------------------------------------------------
(* The process: recovery, shutdown, restart *)

\* RecoverUnfinished puts an interrupted row back to queued ...
RecoverRow(j) ==
    /\ phase = "recovering" /\ j \in todo /\ status[j] = "running"
    /\ status' = [status EXCEPT ![j] = "queued"]
    /\ UNCHANGED <<items, events, retries, manager, client, worker, process>>

\* ... and then records the event and enqueues it.  Any error aborts the
\* startup, which Restart covers.
RecoverEnqueue(j) ==
    /\ phase = "recovering" /\ j \in todo /\ status[j] = "queued"
    /\ events' = Recorded(j, "recovered")
    /\ recovery' = Append(recovery, j)
    /\ todo' = todo \ {j}
    /\ UNCHANGED <<status, items, retries, queue, cancels, finalizing, pending, submitMu,
                   client, worker, phase, restarts>>

\* Manager.Start, then the HTTP server.
Serve ==
    /\ phase = "recovering" /\ todo = {}
    /\ phase' = "serving"
    /\ UNCHANGED <<store, manager, client, worker, todo, restarts>>

\* Manager.Shutdown cancels the workers' context with ErrShutdown; a run the
\* user cancelled first keeps its own cause.
Shutdown ==
    /\ phase = "serving"
    /\ phase' = "stopping"
    /\ wctx' = [w \in Workers |-> IF wpc[w] \in RunSteps /\ wctx[w] = "live"
                                  THEN "shutdown" ELSE wctx[w]]
    /\ UNCHANGED <<store, manager, client, wpc, wjob, result, outcome, todo, restarts>>

\* ListRecoverableJobs
RecoverableRunning == {j \in Jobs : status[j] = "running"}  \* mutant: queued rows are left
Recoverable == {j \in Jobs : status[j] \in Active}

\* The process dies (a kill, or the exit that ends a shutdown) and a new one
\* starts with nothing but the store.
Restart ==
    /\ restarts < MaxRestarts
    /\ restarts' = restarts + 1
    /\ phase' = "recovering"
    /\ todo' = Recoverable
    /\ queue' = <<>> /\ recovery' = <<>>
    /\ cancels' = [j \in Jobs |-> None]
    /\ finalizing' = [j \in Jobs |-> FALSE]
    /\ pending' = [j \in Jobs |-> 0]
    /\ submitMu' = None
    /\ cpc' = [c \in Clients |-> "idle"]
    /\ cjob' = [c \in Clients |-> None]
    /\ batch' = [c \in Clients |-> {}]
    /\ queueFull' = [c \in Clients |-> FALSE]
    /\ wpc' = [w \in Workers |-> "idle"]
    /\ wjob' = [w \in Workers |-> None]
    /\ wctx' = [w \in Workers |-> "live"]
    /\ result' = [w \in Workers |-> "ok"]
    /\ outcome' = [w \in Workers |-> "none"]
    /\ UNCHANGED store

-----------------------------------------------------------------------------

SubmitStep(c) ==
    \/ SubmitLock(c)
    \/ \E j \in Jobs : SubmitAdmit(c, j) \/ SubmitReject(c, j)
    \/ SubmitCreate(c) \/ SubmitEvent(c) \/ SubmitDispatch(c)
    \/ SubmitEnqueue(c) \/ SubmitDone(c)

CancelStep(c) == CancelHooks(c) \/ CancelClear(c)

WorkerStep(w) ==
    \/ TakeRecovered(w) \/ TakeQueued(w)
    \/ Claim(w) \/ ClaimNothing(w) \/ Started(w)
    \/ ProcessSync(w) \/ ProcessTracks(w) \/ ProcessFails(w) \/ ProcessPanics(w)
    \/ ProcessCloses(w) \/ CheckShutdown(w) \/ Decide(w)
    \/ Persist(w) \/ RunHooks(w) \/ Cleanup(w)

Request ==
    \/ \E c \in Clients, urls \in SUBSET Jobs : SubmitBegin(c, urls)
    \/ \E c \in Clients, j \in Jobs : CancelQueued(c, j)
    \/ \E j \in Jobs : CancelRunning(j) \/ Retry(j) \/ Delete(j)

Startup == \/ \E j \in Jobs : RecoverRow(j) \/ RecoverEnqueue(j)
           \/ Serve

Next ==
    \/ Request
    \/ \E c \in Clients : SubmitStep(c) \/ CancelStep(c)
    \/ \E w \in Workers : WorkerStep(w)
    \/ \E j \in Jobs : HookEnds(j)
    \/ Startup
    \/ Shutdown
    \/ Restart

Spec == Init /\ [][Next]_vars

\* Goroutines keep running: a handler that was accepted, a worker with work, a
\* hook and the startup sequence take their next step.  Nobody has to send a
\* request, stop the process or start it again.
Fairness ==
    /\ \A c \in Clients : WF_vars(SubmitStep(c)) /\ WF_vars(CancelStep(c))
    /\ \A w \in Workers : WF_vars(WorkerStep(w))
    /\ \A j \in Jobs : WF_vars(HookEnds(j))
    /\ WF_vars(Startup)

FairSpec == Spec /\ Fairness
-----------------------------------------------------------------------------
(* Properties *)

\* No job is run by two workers at once, although a job cancelled while queued
\* keeps its id in the channel and a retry delivers it a second time (run(),
\* finalize.go:162-171).
SingleRunner ==
    \A v, w \in Workers :
        v # w /\ wpc[v] \in RunSteps /\ wpc[w] \in RunSteps => wjob[v] # wjob[w]

\* From claim to cleanup the job's cancel entry is the one its own worker
\* registered, so Cancel reaches the run and Delete and Retry see it.  A retry
\* let in too early would have the old worker's deferred delete remove the new
\* run's entry (submit.go:167-172).
CancelReachesRun == \A w \in Workers : wpc[w] \in RunSteps => cancels[wjob[w]] = w

\* Between a terminal write and the end of its hook dispatch nobody moves the
\* row: hooks never report a verdict the store no longer holds.
FinalizeWindowStable ==
    /\ \A w \in Workers : wpc[w] = "hooks" => status[wjob[w]] = outcome[w]
    /\ \A c \in Clients :
          cpc[c] \in {"cancelHooks", "cancelClear"} => status[cjob[c]] = "cancelled"

\* A deleted job has no run and no queued cancel still winding down, so nothing
\* of theirs writes to it after its tombstone (Delete, finalize.go:107-118).
DeletedIsQuiet ==
    \A j \in Jobs : status[j] = "deleted" =>
        /\ ~InFlight(j)
        /\ \A w \in Workers : wpc[w] \in RunSteps => wjob[w] # j
        /\ \A c \in Clients : cpc[c] \in {"cancelHooks", "cancelClear"} => cjob[c] # j

\* Something will hand a queued job to a worker: its id is in a queue, a worker
\* is about to claim it, or its submitter is about to enqueue it.  Stale
\* deliveries, a cancel followed by a retry and recovery must not lose it.
InQueue(q, j) == \E i \in DOMAIN q : q[i] = j
Delivered(j) ==
    \/ InQueue(queue, j) \/ InQueue(recovery, j)
    \/ \E w \in Workers : wpc[w] = "claim" /\ wjob[w] = j
    \/ \E c \in Clients : cpc[c] \in {"event", "dispatch", "enqueue"} /\ cjob[c] = j
QueuedIsDelivered ==
    phase = "serving" => \A j \in Jobs : status[j] = "queued" => Delivered(j)

\* The channel send under submitMu (and, in Retry, under m.mu as well) finds
\* room: the slot seen free by the capacity check is still free, because
\* recovery has a queue of its own and every other sender needs submitMu.
EnqueueNeverBlocks ==
    \A c \in Clients : cpc[c] \in {"create", "event", "dispatch", "enqueue"} =>
        Len(queue) < QueueCap

\* submitMu closes the race between the dedup lookup and the insert: the
\* unique index is never what refuses a submission (submit.go:76-78, 145-149).
IndexNeverHit == \A c \in Clients : cpc[c] = "create" => ~KeyActive(cjob[c])

\* What an admission looked at still holds when it acts on it.
AdmissionStands == EnqueueNeverBlocks /\ IndexNeverHit

\* A completed job has nothing but finished items, also after retries, resumed
\* runs and cancels that arrive late.
CompletedIsDone == \A j \in Jobs : status[j] = "completed" => items[j] = {"done"}

\* ErrShutdown's promise (manager.go:15): a job that a shutdown interrupted is
\* not cancelled, it stays running for the next start.
InterruptedStaysRunning == \A w \in Workers : outcome[w] = "cancelled" => wctx[w] # "shutdown"

\* A job that is queued or running ends, unless the process is told to stop.
\* Needs weak fairness of the goroutines only, a processor that returns, and a
\* store that takes claims and terminal writes.
ActiveJobEnds ==
    \A j \in Jobs : (status[j] \in Active) ~> (status[j] \notin Active \/ phase = "stopping")

\* The manager implements the life of a job its clients are promised.
Lifecycle == INSTANCE JobLifecycle WITH ended <- [j \in Jobs |-> events[j]["ended"]]
ImplementsLifecycle == Lifecycle!Spec

=============================================================================

--------------------------- MODULE HookDispatcher ---------------------------
(***************************************************************************)
(* The post-download hooks (src/internal/hooks/dispatcher.go): an event of *)
(* a job starts one execution per matching entry on a goroutine of its     *)
(* own, at most MaxConcurrent at a time, each with bounded attempts and an *)
(* outcome recorded in the job's event log; and the end of it all at       *)
(* shutdown (src/internal/server/shutdown.go, step 5).                     *)
(***************************************************************************)
EXTENDS Integers, FiniteSets

CONSTANTS
    Hooks,         \* executions: one per event and matching entry
    Jobs,
    NoJob,         \* the job of an execution not dispatched yet
    MaxConcurrent, \* maxConcurrent, the size of the slot channel
    MaxAttempts    \* max_attempts of every entry

ASSUME DispatcherAssumption ==
    /\ MaxConcurrent \in Nat \ {0} /\ MaxAttempts \in Nat \ {0}
    /\ IsFiniteSet(Hooks) /\ NoJob \notin Jobs

\* Where an execution is.  From "record" on it has its outcome; "slot",
\* "pending", "wake" and "leave" are execute's deferred calls.
Ran == {"record", "slot", "pending", "wake", "leave", "over"}
Running == {"started", "attempt", "backoff", "again"}
Places == {"none", "queued"} \cup Running \cup Ran

VARIABLES
    pc,       \* where each execution is
    job,      \* its job
    attempt,  \* attempts it has begun
    outcome,  \* what it is to record
    slots,    \* slots of the channel in use
    unfinished,  \* per job: executions that have not ended
    wg,       \* the wait group's count
    closed,   \* no dispatch any more
    stopped,  \* retryCtx is cancelled
    aborted,  \* runCtx is cancelled
    done,     \* Wait's goroutine has seen the wait group at zero
    spc,      \* where the process's shutdown is
    \* History, for the properties only
    recorded, \* outcomes recorded per execution
    told      \* per job: the pending count its streams found when last woken

hookVars == <<pc, job, attempt, outcome>>
stopVars == <<closed, stopped, aborted, done, spc>>
hooksVars == <<hookVars, slots, unfinished, wg, stopVars, recorded, told>>

HooksInit ==
    /\ pc = [h \in Hooks |-> "none"] /\ job = [h \in Hooks |-> NoJob]
    /\ attempt = [h \in Hooks |-> 0] /\ outcome = [h \in Hooks |-> "none"]
    /\ slots = 0 /\ unfinished = [j \in Jobs |-> 0] /\ wg = 0
    /\ closed = FALSE /\ stopped = FALSE /\ aborted = FALSE /\ done = FALSE
    /\ spc = "up"
    /\ recorded = [h \in Hooks |-> 0]
    /\ told = [j \in Jobs |-> 0]

Goes(h, from, to) == pc[h] = from /\ pc' = [pc EXCEPT ![h] = to]

\* The recorder files the outcome and wakes the job's streams.
Recorded(h) ==
    /\ recorded' = [recorded EXCEPT ![h] = @ + 1]
    /\ told' = [told EXCEPT ![job[h]] = unfinished[job[h]]]

-----------------------------------------------------------------------------

\* An event of j matches some entries; after the cutover it is dropped.
Dispatch(j, hs) ==
    /\ hs # {} /\ \A h \in hs : pc[h] = "none"
    /\ ~closed
    /\ pc' = [h \in Hooks |-> IF h \in hs THEN "queued" ELSE pc[h]]
    /\ job' = [h \in Hooks |-> IF h \in hs THEN j ELSE job[h]]
    /\ wg' = wg + Cardinality(hs)
    /\ unfinished' = [unfinished EXCEPT ![j] = @ + Cardinality(hs)]
    /\ UNCHANGED <<attempt, outcome, slots, stopVars, recorded, told>>

\* execute takes a slot; with the run context over it may still win one.
TakeSlot(h) ==
    /\ slots < MaxConcurrent
    /\ Goes(h, "queued", "started") /\ slots' = slots + 1
    /\ UNCHANGED <<job, attempt, outcome, unfinished, wg, stopVars, recorded, told>>

\* The backend shut down before the execution got a slot: it records
\* hook_failed and returns.
NotRun(h) ==
    /\ aborted /\ Goes(h, "queued", "pending")
    /\ outcome' = [outcome EXCEPT ![h] = "failed"]
    /\ Recorded(h)
    /\ UNCHANGED <<job, attempt, slots, unfinished, wg, stopVars>>

\* The runner starts on a context of its own, under the run context.
Attempt(h) ==
    /\ \/ Goes(h, "started", "attempt") \* hook_started is recorded first
       \/ Goes(h, "again", "attempt")
    /\ attempt' = [attempt EXCEPT ![h] = @ + 1]
    /\ UNCHANGED <<job, outcome, slots, unfinished, wg, stopVars, recorded, told>>

Succeed(h) ==
    /\ Goes(h, "attempt", "record")
    /\ outcome' = [outcome EXCEPT ![h] = "succeeded"]
    /\ UNCHANGED <<job, attempt, slots, unfinished, wg, stopVars, recorded, told>>

\* A failed attempt, one past its timeout or one cut by the run context.
Fail(h) ==
    /\ IF attempt[h] < MaxAttempts
       THEN Goes(h, "attempt", "backoff") /\ UNCHANGED outcome
       ELSE Goes(h, "attempt", "record") /\ outcome' = [outcome EXCEPT ![h] = "failed"]
    /\ UNCHANGED <<job, attempt, slots, unfinished, wg, stopVars, recorded, told>>

\* waitRetry, the delay over: another attempt only while retries go on.
WaitRetry(h) ==
    /\ \/ /\ ~stopped
          /\ Goes(h, "backoff", "again") /\ UNCHANGED outcome
       \/ /\ stopped
          /\ Goes(h, "backoff", "record") /\ outcome' = [outcome EXCEPT ![h] = "failed"]
    /\ UNCHANGED <<job, attempt, slots, unfinished, wg, stopVars, recorded, told>>

\* Mutant: the count drops before the outcome is recorded.
RecordAfterPending(h) ==
    /\ Goes(h, "record", "slot")
    /\ unfinished' = [unfinished EXCEPT ![job[h]] = @ - 1]
    /\ UNCHANGED <<job, attempt, outcome, slots, wg, stopVars, recorded, told>>

\* hook_succeeded or hook_failed, on a context that outlives the attempt.
RecordOutcome(h) ==
    /\ Goes(h, "record", "slot")
    /\ Recorded(h)
    /\ UNCHANGED <<job, attempt, outcome, slots, unfinished, wg, stopVars>>

ReleaseSlot(h) ==
    /\ Goes(h, "slot", "pending") /\ slots' = slots - 1
    /\ UNCHANGED <<job, attempt, outcome, unfinished, wg, stopVars, recorded, told>>

\* Mutant: the streams hear of the last outcome only.
DonePendingQuietly(h) ==
    /\ Goes(h, "pending", "leave")
    /\ unfinished' = [unfinished EXCEPT ![job[h]] = @ - 1]
    /\ UNCHANGED <<job, attempt, outcome, slots, wg, stopVars, recorded, told>>

\* donePending: the last execution of a job goes on to wake its streams.
DonePending(h) ==
    /\ Goes(h, "pending", IF unfinished[job[h]] = 1 THEN "wake" ELSE "leave")
    /\ unfinished' = [unfinished EXCEPT ![job[h]] = @ - 1]
    /\ UNCHANGED <<job, attempt, outcome, slots, wg, stopVars, recorded, told>>

\* onIdle, outside the mutex: a stream then finds the count as it is.
OnIdle(h) ==
    /\ Goes(h, "wake", "leave")
    /\ told' = [told EXCEPT ![job[h]] = unfinished[job[h]]]
    /\ UNCHANGED <<job, attempt, outcome, slots, unfinished, wg, stopVars, recorded>>

\* Mutant: the wait group is left by the attempts that succeed only.
LeaveOnSuccess(h) ==
    /\ Goes(h, "leave", "over") /\ wg' = IF outcome[h] = "succeeded" THEN wg - 1 ELSE wg
    /\ UNCHANGED <<job, attempt, outcome, slots, unfinished, stopVars, recorded, told>>

Leave(h) ==
    /\ Goes(h, "leave", "over") /\ wg' = wg - 1
    /\ UNCHANGED <<job, attempt, outcome, slots, unfinished, stopVars, recorded, told>>

-----------------------------------------------------------------------------
\* Shutdown, and the second wait.

SGoes(from, to) == spc = from /\ spc' = to
HooksUnchanged == UNCHANGED <<hookVars, slots, unfinished, wg, recorded, told>>

Close ==
    /\ SGoes("up", "closed") /\ closed' = TRUE
    /\ HooksUnchanged /\ UNCHANGED <<stopped, aborted, done>>

StopRetries ==
    /\ SGoes("closed", "drain") /\ stopped' = TRUE
    /\ HooksUnchanged /\ UNCHANGED <<closed, aborted, done>>

\* The goroutine Wait starts once: wg.Wait(), then close(done).
WaitGroupEmpty ==
    /\ spc \in {"drain", "cut"} /\ ~done /\ wg = 0 /\ done' = TRUE
    /\ HooksUnchanged /\ UNCHANGED <<closed, stopped, aborted, spc>>

\* The drain's deadline expires: every attempt is cut short.
AbortRuns ==
    /\ SGoes("drain", "cut") /\ aborted' = TRUE
    /\ HooksUnchanged /\ UNCHANGED <<closed, stopped, done>>

\* Wait returns nil; the store is closed next.
ShutdownReturns ==
    /\ done /\ spc \in {"drain", "cut"} /\ spc' = "over"
    /\ HooksUnchanged /\ UNCHANGED <<closed, stopped, aborted, done>>

-----------------------------------------------------------------------------
ExecuteStep(h) ==
    \/ TakeSlot(h) \/ NotRun(h) \/ Attempt(h) \/ Succeed(h) \/ Fail(h)
    \/ WaitRetry(h) \/ RecordOutcome(h) \/ ReleaseSlot(h) \/ DonePending(h)
    \/ OnIdle(h) \/ Leave(h)

ShutdownStep == Close \/ StopRetries \/ WaitGroupEmpty \/ AbortRuns \/ ShutdownReturns

HooksNext ==
    \/ \E j \in Jobs, hs \in SUBSET Hooks : Dispatch(j, hs)
    \/ \E h \in Hooks : ExecuteStep(h)
    \/ ShutdownStep

HooksSpec == HooksInit /\ [][HooksNext]_hooksVars

\* An execution's own steps go on: an attempt ends by its timeout, a slot is
\* given to whoever asks for it (Go's channels queue their senders).
HooksFairSpec ==
    /\ HooksSpec
    /\ \A h \in Hooks : /\ WF_hooksVars(ExecuteStep(h)) /\ SF_hooksVars(TakeSlot(h))
    /\ WF_hooksVars(StopRetries \/ WaitGroupEmpty \/ ShutdownReturns)

-----------------------------------------------------------------------------
\* Every variable has its type.
HooksTypeOK ==
    /\ pc \in [Hooks -> Places] /\ job \in [Hooks -> Jobs \cup {NoJob}]
    /\ attempt \in [Hooks -> 0 .. MaxAttempts]
    /\ outcome \in [Hooks -> {"none", "succeeded", "failed"}]
    /\ slots \in 0 .. MaxConcurrent
    /\ unfinished \in [Jobs -> Nat] /\ wg \in Nat
    /\ closed \in BOOLEAN /\ stopped \in BOOLEAN /\ aborted \in BOOLEAN
    /\ done \in BOOLEAN /\ spc \in {"up", "closed", "drain", "cut", "over"}
    /\ recorded \in [Hooks -> Nat] /\ told \in [Jobs -> Nat]

\* A job whose hooks no longer count as pending has every outcome in its log:
\* a stream that ends, or a delete that goes ahead, on Pending misses none.
PendingCoversOutcomes ==
    \A h \in Hooks : pc[h] # "none" /\ recorded[h] = 0 => unfinished[job[h]] > 0

\* A job without pending hooks whose executions are past their last step has
\* had its streams woken while the count already was zero.
LastWakeFindsIdle ==
    \A j \in Jobs :
      (\A h \in Hooks : job[h] = j => pc[h] \in {"leave", "over"}) => told[j] = 0

\* Between the count and the wake no stream loses a hook's outcome: it neither
\* ends before one is recorded, nor waits on a count that reached zero unseen.
OutcomesArrive == PendingCoversOutcomes /\ LastWakeFindsIdle

\* A shutdown that has begun comes to its end.
ShutdownEnds == closed ~> spc = "over"
=============================================================================

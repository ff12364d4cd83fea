-------------------------- MODULE JobManagerProofs --------------------------
(***************************************************************************)
(* Theorems about JobManager for any number of jobs, keys, workers and     *)
(* clients, any queue capacity, hook configuration and set of store faults.*)
(***************************************************************************)
EXTENDS JobManager, SequenceTheorems, TLAPS

\* A thread in the middle of an operation works on a job, and a worker about to
\* write a terminal status has decided on one.
ThreadsReady ==
    /\ \A c \in Clients :
          cpc[c] \in {"create", "event", "dispatch", "enqueue", "cancelHooks", "cancelClear"}
             => cjob[c] \in Jobs
    /\ \A w \in Workers : wpc[w] # "idle" => wjob[w] \in Jobs
    /\ \A w \in Workers : wpc[w] \in {"persist", "hooks"} => outcome[w] \in Terminal

Typed == TypeOK /\ ThreadsReady

\* Recording an event keeps the event table typed.
LEMMA RecordedType ==
    ASSUME events \in [Jobs -> [EventKinds -> Nat]], NEW j \in Jobs, NEW k \in EventKinds
    PROVE  Recorded(j, k) \in [Jobs -> [EventKinds -> Nat]]
  BY DEF Recorded

\* Dispatching hooks keeps the pending counts natural.
LEMMA DispatchType ==
    ASSUME pending \in [Jobs -> Nat], NEW j \in Jobs, NEW k \in {"queued", "ended"},
           DispatchHooks(j, k)
    PROVE  pending' \in [Jobs -> Nat]
  BY HooksAssumption DEF DispatchHooks

LEMMA TypedInit == Init => Typed
  BY ThreadsAssumption, BoundsAssumption
  DEF Init, Typed, TypeOK, ThreadsReady, NoEvents, EventKinds, Status, ClientSteps, WorkerSteps

\* Every step of the manager keeps its state typed.
LEMMA TypedStep == Typed /\ [Next]_vars => Typed'
<1> SUFFICES ASSUME Typed, [Next]_vars PROVE Typed'
  OBVIOUS
<1> USE ThreadsAssumption, BoundsAssumption, HooksAssumption DEF Typed, TypeOK, ThreadsReady
<1>1. ASSUME NEW c \in Clients, NEW urls \in SUBSET Jobs, SubmitBegin(c, urls) PROVE Typed'
  BY <1>1 DEF SubmitBegin, store, manager, worker, process, ClientSteps
<1>2. ASSUME NEW c \in Clients, SubmitLock(c) PROVE Typed'
  BY <1>2 DEF SubmitLock, SubmitMayLock, store, worker, process, ClientSteps
<1>3. ASSUME NEW c \in Clients, NEW j \in Jobs, SubmitAdmit(c, j) PROVE Typed'
  BY <1>3 DEF SubmitAdmit, store, manager, worker, process, ClientSteps
<1>4. ASSUME NEW c \in Clients, NEW j \in Jobs, SubmitReject(c, j) PROVE Typed'
  BY <1>4 DEF SubmitReject, store, manager, worker, process
<1>5. ASSUME NEW c \in Clients, SubmitCreate(c) PROVE Typed'
  <2>1. cjob[c] \in Jobs
    BY <1>5 DEF SubmitCreate
  <2>2. status' \in [Jobs -> Status]
    BY <1>5, <2>1 DEF SubmitCreate, Status, Active
  <2>3. cpc' \in [Clients -> ClientSteps] /\ cjob' \in [Clients -> Jobs \cup {None}]
    BY <1>5, <2>1 DEF SubmitCreate, ClientSteps
  <2>4. batch' \in [Clients -> SUBSET Jobs]
    <3>1. batch[c] \ {cjob[c]} \in SUBSET Jobs
      OBVIOUS
    <3>2. batch' = batch \/ batch' = [batch EXCEPT ![c] = batch[c] \ {cjob[c]}]
      BY <1>5 DEF SubmitCreate
    <3> QED
      BY <3>1, <3>2
  <2>5. ThreadsReady'
    BY <1>5, <2>1 DEF SubmitCreate, worker
  <2> QED
    BY <1>5, <2>2, <2>3, <2>4, <2>5 DEF SubmitCreate, manager, worker, process
<1>6. ASSUME NEW c \in Clients, SubmitEvent(c) PROVE Typed'
  <2>1. events' \in [Jobs -> [EventKinds -> Nat]]
    <3>1. "queued" \in EventKinds
      BY DEF EventKinds
    <3> QED
      BY <1>6, <3>1, RecordedType DEF SubmitEvent, BestEffort
  <2> QED
    BY <1>6, <2>1 DEF SubmitEvent, manager, worker, process, ClientSteps
<1>7. ASSUME NEW c \in Clients, SubmitDispatch(c) PROVE Typed'
  <2>1. pending' \in [Jobs -> Nat]
    BY <1>7, DispatchType DEF SubmitDispatch
  <2> QED
    BY <1>7, <2>1 DEF SubmitDispatch, store, worker, process, ClientSteps
<1>8. ASSUME NEW c \in Clients, SubmitEnqueue(c) PROVE Typed'
  BY <1>8 DEF SubmitEnqueue, store, worker, process, ClientSteps
<1>9. ASSUME NEW c \in Clients, SubmitDone(c) PROVE Typed'
  BY <1>9 DEF SubmitDone, store, worker, process, ClientSteps
<1>10. ASSUME NEW j \in Jobs, CancelRunning(j) PROVE Typed'
  BY <1>10 DEF CancelRunning, store, manager, client, process
<1>11. ASSUME NEW c \in Clients, NEW j \in Jobs, CancelQueued(c, j) PROVE Typed'
  <2>1. CancelOpen(items[j]) \in SUBSET ItemStates
    BY DEF CancelOpen, ItemStates
  <2>2. items' \in [Jobs -> SUBSET ItemStates]
    BY <1>11, <2>1 DEF CancelQueued
  <2>3. events' \in [Jobs -> [EventKinds -> Nat]]
    <3>1. "ended" \in EventKinds
      BY DEF EventKinds
    <3> QED
      BY <1>11, <3>1, RecordedType DEF CancelQueued
  <2>4. status' \in [Jobs -> Status] /\ finalizing' \in [Jobs -> BOOLEAN]
    BY <1>11 DEF CancelQueued, Status, Terminal
  <2>5. cpc' \in [Clients -> ClientSteps] /\ cjob' \in [Clients -> Jobs \cup {None}]
    <3>1. \/ cpc' = [cpc EXCEPT ![c] = "cancelHooks"] /\ cjob' = [cjob EXCEPT ![c] = j]
          \/ cpc' = cpc /\ cjob' = cjob
      BY <1>11 DEF CancelQueued
    <3>2. CASE cpc' = [cpc EXCEPT ![c] = "cancelHooks"] /\ cjob' = [cjob EXCEPT ![c] = j]
      BY <3>2 DEF ClientSteps
    <3>3. CASE cpc' = cpc /\ cjob' = cjob
      BY <3>3
    <3> QED
      BY <3>1, <3>2, <3>3
  <2>6. ThreadsReady'
    BY <1>11 DEF CancelQueued, worker
  <2> QED
    BY <1>11, <2>2, <2>3, <2>4, <2>5, <2>6 DEF CancelQueued, worker, process
<1>12. ASSUME NEW c \in Clients, CancelHooks(c) PROVE Typed'
  <2>1. pending' \in [Jobs -> Nat]
    BY <1>12, DispatchType DEF CancelHooks
  <2> QED
    BY <1>12, <2>1 DEF CancelHooks, store, worker, process, ClientSteps
<1>13. ASSUME NEW c \in Clients, CancelClear(c) PROVE Typed'
  BY <1>13 DEF CancelClear, store, worker, process, ClientSteps
<1>14. ASSUME NEW j \in Jobs, Retry(j) PROVE Typed'
  <2>1. items' \in [Jobs -> SUBSET ItemStates]
    BY <1>14 DEF Retry, ResetUnfinished, ItemStates
  <2>2. events' \in [Jobs -> [EventKinds -> Nat]]
    <3>1. "retried" \in EventKinds
      BY DEF EventKinds
    <3> QED
      BY <1>14, <3>1, RecordedType DEF Retry, BestEffort
  <2>3. status' \in [Jobs -> Status] /\ retries' \in [Jobs -> 0 .. MaxRetries]
    <3>1. \/ /\ status' = [status EXCEPT ![j] = "queued"]
             /\ retries' = [retries EXCEPT ![j] = retries[j] + 1]
          \/ status' = status /\ retries' = retries
      BY <1>14 DEF Retry
    <3>2. retries[j] < MaxRetries
      BY <1>14 DEF Retry
    <3>3. CASE /\ status' = [status EXCEPT ![j] = "queued"]
               /\ retries' = [retries EXCEPT ![j] = retries[j] + 1]
      <4>1. retries[j] + 1 \in 0 .. MaxRetries
        BY <3>2
      <4> QED
        BY <3>3, <4>1 DEF Status, Active
    <3>4. CASE status' = status /\ retries' = retries
      BY <3>4
    <3> QED
      BY <3>1, <3>3, <3>4
  <2>4. queue' \in Seq(Jobs)
    <3>1. queue' = Append(queue, j) \/ queue' = queue
      BY <1>14 DEF Retry
    <3>2. CASE queue' = Append(queue, j)
      BY <3>2
    <3>3. CASE queue' = queue
      BY <3>3
    <3> QED
      BY <3>1, <3>2, <3>3
  <2> QED
    BY <1>14, <2>1, <2>2, <2>3, <2>4 DEF Retry, client, worker, process
<1>15. ASSUME NEW j \in Jobs, Delete(j) PROVE Typed'
  BY <1>15 DEF Delete, NoEvents, EventKinds, manager, client, worker, process, Status
<1>16. ASSUME NEW j \in Jobs, HookEnds(j) PROVE Typed'
  <2>1. events' \in [Jobs -> [EventKinds -> Nat]]
    <3>1. "hook" \in EventKinds
      BY DEF EventKinds
    <3> QED
      BY <1>16, <3>1, RecordedType DEF HookEnds
  <2> QED
    BY <1>16, <2>1 DEF HookEnds, client, worker, process
<1>17. ASSUME NEW w \in Workers, TakeRecovered(w) PROVE Typed'
  BY <1>17 DEF TakeRecovered, store, client, process, WorkerSteps
<1>18. ASSUME NEW w \in Workers, TakeQueued(w) PROVE Typed'
  BY <1>18 DEF TakeQueued, store, client, process, WorkerSteps
<1>19. ASSUME NEW w \in Workers, Claim(w) PROVE Typed'
  BY <1>19 DEF Claim, client, process, WorkerSteps, Status, Active
<1>20. ASSUME NEW w \in Workers, ClaimNothing(w) PROVE Typed'
  BY <1>20 DEF ClaimNothing, store, manager, client, process, WorkerSteps
<1>21. ASSUME NEW w \in Workers, Started(w) PROVE Typed'
  <2>1. events' \in [Jobs -> [EventKinds -> Nat]]
    <3>1. "started" \in EventKinds
      BY DEF EventKinds
    <3> QED
      <4>1. wjob[w] \in Jobs
        BY <1>21 DEF Started
      <4>2. events' = Recorded(wjob[w], "started") \/ events' = events
        BY <1>21 DEF Started, BestEffort
      <4> QED
        BY <4>1, <4>2, <3>1, RecordedType
  <2> QED
    BY <1>21, <2>1 DEF Started, manager, client, process, WorkerSteps
<1>22. ASSUME NEW w \in Workers, ProcessSync(w) PROVE Typed'
  BY <1>22 DEF ProcessSync, ItemStates, manager, client, process, WorkerSteps
<1>23. ASSUME NEW w \in Workers, ProcessTracks(w) PROVE Typed'
  BY <1>23 DEF ProcessTracks, ItemStates, manager, client, process, WorkerSteps
<1>24. ASSUME NEW w \in Workers, ProcessFails(w) PROVE Typed'
  BY <1>24 DEF ProcessFails, store, manager, client, process, WorkerSteps
<1>25. ASSUME NEW w \in Workers, ProcessPanics(w) PROVE Typed'
  BY <1>25 DEF ProcessPanics, store, manager, client, process, WorkerSteps
<1>26. ASSUME NEW w \in Workers, ProcessCloses(w) PROVE Typed'
  BY <1>26 DEF ProcessCloses, CancelOpen, ItemStates, manager, client, process, WorkerSteps
<1>27. ASSUME NEW w \in Workers, CheckShutdown(w) PROVE Typed'
  BY <1>27 DEF CheckShutdown, store, manager, client, process, WorkerSteps
<1>28. ASSUME NEW w \in Workers, Decide(w) PROVE Typed'
  BY <1>28 DEF Decide, Verdict, Terminal, store, manager, client, process, WorkerSteps
<1>29. ASSUME NEW w \in Workers, Persist(w) PROVE Typed'
  <2>1. events' \in [Jobs -> [EventKinds -> Nat]]
    <3>1. "ended" \in EventKinds
      BY DEF EventKinds
    <3> QED
      BY <1>29, <3>1, RecordedType DEF Persist
  <2>2. status' \in [Jobs -> Status]
    BY <1>29 DEF Persist, Status
  <2> QED
    BY <1>29, <2>1, <2>2 DEF Persist, manager, client, process, WorkerSteps
<1>30. ASSUME NEW w \in Workers, RunHooks(w) PROVE Typed'
  <2>1. pending' \in [Jobs -> Nat]
    BY <1>30, DispatchType DEF RunHooks
  <2> QED
    BY <1>30, <2>1 DEF RunHooks, store, client, process, WorkerSteps
<1>31. ASSUME NEW w \in Workers, Cleanup(w) PROVE Typed'
  BY <1>31 DEF Cleanup, store, client, process, WorkerSteps
<1>32. ASSUME NEW j \in Jobs, RecoverRow(j) PROVE Typed'
  BY <1>32 DEF RecoverRow, manager, client, worker, process, Status, Active
<1>33. ASSUME NEW j \in Jobs, RecoverEnqueue(j) PROVE Typed'
  <2>1. events' \in [Jobs -> [EventKinds -> Nat]]
    <3>1. "recovered" \in EventKinds
      BY DEF EventKinds
    <3> QED
      BY <1>33, <3>1, RecordedType DEF RecoverEnqueue
  <2> QED
    BY <1>33, <2>1 DEF RecoverEnqueue, client, worker
<1>34. CASE Serve
  BY <1>34 DEF Serve, store, manager, client, worker
<1>35. CASE Shutdown
  BY <1>35 DEF Shutdown, store, manager, client
<1>36. CASE Restart
  BY <1>36 DEF Restart, Recoverable, store, ClientSteps, WorkerSteps
<1>37. CASE UNCHANGED vars
  BY <1>37 DEF vars, store, manager, client, worker, process
<1>99. QED
  BY <1>1, <1>2, <1>3, <1>4, <1>5, <1>6, <1>7, <1>8, <1>9, <1>10, <1>11, <1>12, <1>13, <1>14,
     <1>15, <1>16, <1>17, <1>18, <1>19, <1>20, <1>21, <1>22, <1>23, <1>24, <1>25, <1>26, <1>27,
     <1>28, <1>29, <1>30, <1>31, <1>32, <1>33, <1>34, <1>35, <1>36, <1>37
  DEF Next, Request, SubmitStep, CancelStep, WorkerStep, Startup

\* The manager's state keeps its types: threads in the middle of an operation
\* hold a job, queues hold job ids, no counter of pending hooks goes negative.
THEOREM TypeCorrect == Spec => []TypeOK
<1>1. Init => Typed
  BY TypedInit
<1>2. Typed /\ [Next]_vars => Typed'
  BY TypedStep
<1>3. Typed => TypeOK
  BY DEF Typed
<1> QED
  BY <1>1, <1>2, <1>3, PTL DEF Spec
-----------------------------------------------------------------------------
(* Who owns a job.  The invariants below are inductive only together: the   *)
(* cancel map and the finalizing marks say which rows a thread may move,    *)
(* and the rows say which entries those maps may hold.                      *)

Cancelling(c) == cpc[c] \in {"cancelHooks", "cancelClear"}
Creating(c) == cpc[c] \in {"create", "event", "dispatch", "enqueue"}
Created(c) == cpc[c] \in {"event", "dispatch", "enqueue"}

\* A cancel entry is held by a worker running that job.
EntryHasRun ==
    \A j \in Jobs : cancels[j] # None =>
        wpc[cancels[j]] \in RunSteps /\ wjob[cancels[j]] = j

\* What the row of a job says while a worker owns it.
RunRows ==
    \A w \in Workers :
        /\ wpc[w] \in BeforePersist => status[wjob[w]] = "running"
        /\ wpc[w] = "hooks" => status[wjob[w]] = outcome[w]
        /\ wpc[w] = "cleanup" => status[wjob[w]] \in {"running"} \cup Terminal

\* What it says while Cancel's queued path owns it; no two cancels do.
CancelRows ==
    /\ \A c \in Clients : Cancelling(c) => status[cjob[c]] = "cancelled" /\ finalizing[cjob[c]]
    /\ \A c, d \in Clients : c # d /\ Cancelling(c) /\ Cancelling(d) => cjob[c] # cjob[d]
    /\ \A j \in Jobs : finalizing[j] => status[j] = "cancelled"

\* A submission's candidates have no row until it creates one, and no two
\* submissions share a candidate.
SubmitRows ==
    /\ \A c \in Clients : Creating(c) => cjob[c] \in batch[c]
    /\ \A c \in Clients : \A j \in batch[c] :
          status[j] = "absent" \/ (Created(c) /\ cjob[c] = j)
    /\ \A c, d \in Clients : c # d => batch[c] \cap batch[d] = {}

\* Recovery runs before any other thread.
RecoveryAlone ==
    phase = "recovering" => /\ \A w \in Workers : wpc[w] = "idle"
                            /\ \A c \in Clients : cpc[c] = "idle"

Owned == /\ CancelReachesRun /\ EntryHasRun /\ RunRows /\ CancelRows
         /\ SubmitRows /\ RecoveryAlone

LEMMA OwnedInit == Init => Owned
  BY DEF Init, Owned, CancelReachesRun, EntryHasRun, RunRows, CancelRows, SubmitRows,
         RecoveryAlone, Cancelling, Creating, Created, RunSteps, BeforePersist, WorkerSteps

\* Every step keeps the ownership of jobs.
LEMMA OwnedStep == Typed /\ Owned /\ [Next]_vars => Owned'
<1> SUFFICES ASSUME Typed, Owned, [Next]_vars PROVE Owned'
  OBVIOUS
<1> USE ThreadsAssumption DEF Typed, TypeOK, ThreadsReady, Owned, CancelReachesRun, EntryHasRun,
        RunRows, CancelRows, SubmitRows, RecoveryAlone, Cancelling, Creating, Created,
        RunSteps, BeforePersist, WorkerSteps
<1>1. ASSUME NEW c \in Clients, NEW urls \in SUBSET Jobs, SubmitBegin(c, urls) PROVE Owned'
  BY <1>1 DEF SubmitBegin, Fresh, store, manager, worker, process
<1>2. ASSUME NEW c \in Clients, SubmitLock(c) PROVE Owned'
  BY <1>2 DEF SubmitLock, SubmitMayLock, store, worker, process
<1>3. ASSUME NEW c \in Clients, NEW j \in Jobs, SubmitAdmit(c, j) PROVE Owned'
  BY <1>3 DEF SubmitAdmit, store, manager, worker, process
<1>4. ASSUME NEW c \in Clients, NEW j \in Jobs, SubmitReject(c, j) PROVE Owned'
  BY <1>4 DEF SubmitReject, store, manager, worker, process
<1>5. ASSUME NEW c \in Clients, SubmitCreate(c) PROVE Owned'
  <2>1. cjob[c] \in Jobs /\ cjob[c] \in batch[c] /\ status[cjob[c]] = "absent"
    BY <1>5 DEF SubmitCreate
  <2>2. UNCHANGED <<cancels, finalizing, wpc, wjob, outcome, phase>>
    BY <1>5 DEF SubmitCreate, manager, worker, process
  <2>3. ASSUME NEW v \in Workers, wpc[v] \in RunSteps
        PROVE  wjob[v] \in Jobs /\ status'[wjob[v]] = status[wjob[v]]
    <3>1. wjob[v] \in Jobs /\ status[wjob[v]] # "absent"
      BY <2>3 DEF Terminal
    <3>2. \/ status' = status
          \/ status' = [status EXCEPT ![cjob[c]] = "queued"]
      BY <1>5 DEF SubmitCreate
    <3> QED
      BY <2>1, <3>1, <3>2
  <2>4. RunRows'
    BY <2>2, <2>3
  <2>5. CancelReachesRun' /\ EntryHasRun' /\ RecoveryAlone'
    BY <1>5, <2>2 DEF SubmitCreate
  <2>6. CASE /\ status' = [status EXCEPT ![cjob[c]] = "queued"]
             /\ cpc' = [cpc EXCEPT ![c] = "event"] /\ UNCHANGED <<cjob, batch>>
    <3>1. CancelRows'
      BY <2>1, <2>2, <2>6
    <3>2. SubmitRows'
      BY <2>1, <2>2, <2>6
    <3> QED
      BY <2>4, <2>5, <3>1, <3>2
  <2>7. CASE /\ cpc' = [cpc EXCEPT ![c] = "lookup"] /\ cjob' = [cjob EXCEPT ![c] = None]
             /\ batch' = [batch EXCEPT ![c] = batch[c] \ {cjob[c]}] /\ status' = status
    <3>1. CancelRows'
      BY <2>1, <2>2, <2>7
    <3>2. SubmitRows'
      BY <2>1, <2>2, <2>7
    <3> QED
      BY <2>4, <2>5, <3>1, <3>2
  <2> QED
    BY <1>5, <2>6, <2>7 DEF SubmitCreate
<1>6. ASSUME NEW c \in Clients, SubmitEvent(c) PROVE Owned'
  BY <1>6 DEF SubmitEvent, BestEffort, manager, worker, process
<1>7. ASSUME NEW c \in Clients, SubmitDispatch(c) PROVE Owned'
  BY <1>7 DEF SubmitDispatch, DispatchHooks, store, worker, process
<1>8. ASSUME NEW c \in Clients, SubmitEnqueue(c) PROVE Owned'
  BY <1>8 DEF SubmitEnqueue, store, worker, process
<1>9. ASSUME NEW c \in Clients, SubmitDone(c) PROVE Owned'
  BY <1>9 DEF SubmitDone, store, worker, process
<1>10. ASSUME NEW j \in Jobs, CancelRunning(j) PROVE Owned'
  BY <1>10 DEF CancelRunning, store, manager, client, process
<1>11. ASSUME NEW c \in Clients, NEW j \in Jobs, CancelQueued(c, j) PROVE Owned'
  <2>1. /\ cpc[c] = "idle" /\ cancels[j] = None /\ status[j] \in Active
        /\ phase # "recovering"
    BY <1>11 DEF CancelQueued, CancelsRow, Accepting
  <2>2. UNCHANGED <<cancels, wpc, wjob, outcome, batch, phase>>
    BY <1>11 DEF CancelQueued, worker, process
  <2>3. CASE UNCHANGED <<status, finalizing, cjob, cpc>>
    BY <2>2, <2>3
  <2>4. CASE /\ status' = [status EXCEPT ![j] = "cancelled"]
             /\ finalizing' = [finalizing EXCEPT ![j] = TRUE]
             /\ cjob' = [cjob EXCEPT ![c] = j]
             /\ cpc' = [cpc EXCEPT ![c] = "cancelHooks"]
    <3>1. CancelReachesRun' /\ EntryHasRun' /\ RecoveryAlone'
      BY <2>1, <2>2, <2>4
    <3>2. ASSUME NEW v \in Workers, wpc[v] \in RunSteps
          PROVE  wjob[v] \in Jobs /\ status'[wjob[v]] = status[wjob[v]]
      BY <2>1, <2>4, <3>2
    <3>3. RunRows'
      BY <2>2, <3>2
    <3>4. \A d \in Clients : Cancelling(d) => cjob[d] # j
      BY <2>1 DEF Active
    <3>5. CancelRows'
      BY <2>1, <2>4, <3>4
    <3>6. status[j] # "absent"
      BY <2>1 DEF Active
    <3>7. SubmitRows'
      BY <2>1, <2>2, <2>4, <3>6
    <3> QED
      BY <3>1, <3>3, <3>5, <3>7
  <2> QED
    BY <1>11, <2>3, <2>4 DEF CancelQueued
<1>12. ASSUME NEW c \in Clients, CancelHooks(c) PROVE Owned'
  BY <1>12 DEF CancelHooks, DispatchHooks, store, worker, process
<1>13. ASSUME NEW c \in Clients, CancelClear(c) PROVE Owned'
  BY <1>13 DEF CancelClear, store, worker, process
<1>14. ASSUME NEW j \in Jobs, Retry(j) PROVE Owned'
  BY <1>14 DEF Retry, Retryable, InFlight, client, worker, process
<1>15. ASSUME NEW j \in Jobs, Delete(j) PROVE Owned'
  BY <1>15 DEF Delete, Deletable, InFlight, Terminal, manager, client, worker, process
<1>16. ASSUME NEW j \in Jobs, HookEnds(j) PROVE Owned'
  BY <1>16 DEF HookEnds, client, worker, process
<1>17. ASSUME NEW w \in Workers, TakeRecovered(w) PROVE Owned'
  BY <1>17 DEF TakeRecovered, store, client, process
<1>18. ASSUME NEW w \in Workers, TakeQueued(w) PROVE Owned'
  BY <1>18 DEF TakeQueued, store, client, process
<1>19. ASSUME NEW w \in Workers, Claim(w) PROVE Owned'
  <2>1. /\ wjob[w] \in Jobs /\ status[wjob[w]] = "queued" /\ wpc[w] = "claim"
        /\ phase = "serving"
    BY <1>19 DEF Claim, Claimable
  <2>2. ASSUME NEW v \in Workers, wpc[v] \in RunSteps PROVE wjob[v] # wjob[w]
    <3>1. wpc[v] \in BeforePersist \/ wpc[v] \in {"hooks", "cleanup"}
      BY <2>2
    <3>2. status[wjob[v]] \in {"running"} \cup Terminal
      BY <3>1
    <3> QED
      BY <2>1, <3>2 DEF Terminal
  <2>3. cancels[wjob[w]] = None
    BY <2>1, <2>2
  <2>4. /\ status' = [status EXCEPT ![wjob[w]] = "running"]
        /\ cancels' = [cancels EXCEPT ![wjob[w]] = w]
        /\ wpc' = [wpc EXCEPT ![w] = "started"]
        /\ UNCHANGED <<finalizing, cpc, cjob, batch, wjob, outcome, phase>>
    BY <1>19 DEF Claim, client, process
  <2>5. CancelReachesRun' /\ EntryHasRun' /\ RecoveryAlone'
    BY <2>1, <2>2, <2>3, <2>4
  <2>6. RunRows'
    BY <2>1, <2>2, <2>4
  <2>7. CancelRows'
    BY <2>1, <2>4
  <2>8. SubmitRows'
    BY <2>1, <2>4
  <2> QED
    BY <2>5, <2>6, <2>7, <2>8
<1>20. ASSUME NEW w \in Workers, ClaimNothing(w) PROVE Owned'
  BY <1>20 DEF ClaimNothing, store, manager, client, process
<1>21. ASSUME NEW w \in Workers, Started(w) PROVE Owned'
  BY <1>21 DEF Started, manager, client, process
<1>22. ASSUME NEW w \in Workers, ProcessSync(w) PROVE Owned'
  BY <1>22 DEF ProcessSync, manager, client, process
<1>23. ASSUME NEW w \in Workers, ProcessTracks(w) PROVE Owned'
  BY <1>23 DEF ProcessTracks, manager, client, process
<1>24. ASSUME NEW w \in Workers, ProcessFails(w) PROVE Owned'
  BY <1>24 DEF ProcessFails, store, manager, client, process
<1>25. ASSUME NEW w \in Workers, ProcessPanics(w) PROVE Owned'
  BY <1>25 DEF ProcessPanics, store, manager, client, process
<1>26. ASSUME NEW w \in Workers, ProcessCloses(w) PROVE Owned'
  BY <1>26 DEF ProcessCloses, manager, client, process
<1>27. ASSUME NEW w \in Workers, CheckShutdown(w) PROVE Owned'
  BY <1>27 DEF CheckShutdown, store, manager, client, process
<1>28. ASSUME NEW w \in Workers, Decide(w) PROVE Owned'
  BY <1>28 DEF Decide, store, manager, client, process
<1>29. ASSUME NEW w \in Workers, Persist(w) PROVE Owned'
  <2>1. /\ wjob[w] \in Jobs /\ outcome[w] \in Terminal /\ cancels[wjob[w]] = w
        /\ wpc[w] = "persist" /\ status[wjob[w]] = "running"
    BY <1>29 DEF Persist
  <2>2. UNCHANGED <<cancels, finalizing, cpc, cjob, batch, wjob, outcome, phase>>
    BY <1>29 DEF Persist, manager, client, process
  <2>3. CASE wpc' = [wpc EXCEPT ![w] = "cleanup"] /\ status' = status
    BY <2>1, <2>2, <2>3
  <2>4. CASE /\ status' = [status EXCEPT ![wjob[w]] = outcome[w]]
             /\ wpc' = [wpc EXCEPT ![w] = "hooks"]
    <3>1. CancelReachesRun' /\ EntryHasRun' /\ RecoveryAlone'
      BY <2>1, <2>2, <2>4
    <3>2. ASSUME NEW v \in Workers, v # w, wpc[v] \in RunSteps
          PROVE  wjob[v] \in Jobs /\ status'[wjob[v]] = status[wjob[v]]
      BY <2>1, <2>4, <3>2
    <3>3. RunRows'
      BY <2>1, <2>2, <2>4, <3>2
    <3>4. CancelRows'
      BY <2>1, <2>2, <2>4
    <3>5. SubmitRows'
      BY <2>1, <2>2, <2>4
    <3> QED
      BY <3>1, <3>3, <3>4, <3>5
  <2> QED
    BY <1>29, <2>3, <2>4 DEF Persist
<1>30. ASSUME NEW w \in Workers, RunHooks(w) PROVE Owned'
  BY <1>30 DEF RunHooks, store, client, process
<1>31. ASSUME NEW w \in Workers, Cleanup(w) PROVE Owned'
  BY <1>31 DEF Cleanup, store, client, process
<1>32. ASSUME NEW j \in Jobs, RecoverRow(j) PROVE Owned'
  BY <1>32 DEF RecoverRow, manager, client, worker, process
<1>33. ASSUME NEW j \in Jobs, RecoverEnqueue(j) PROVE Owned'
  BY <1>33 DEF RecoverEnqueue, client, worker
<1>34. CASE Serve
  BY <1>34 DEF Serve, store, manager, client, worker
<1>35. CASE Shutdown
  BY <1>35 DEF Shutdown, store, manager, client
<1>36. CASE Restart
  BY <1>36 DEF Restart, store
<1>37. CASE UNCHANGED vars
  BY <1>37 DEF vars, store, manager, client, worker, process
<1>99. QED
  BY <1>1, <1>2, <1>3, <1>4, <1>5, <1>6, <1>7, <1>8, <1>9, <1>10, <1>11, <1>12, <1>13,
     <1>14, <1>15, <1>16, <1>17, <1>18, <1>19, <1>20, <1>21, <1>22, <1>23, <1>24, <1>25,
     <1>26, <1>27, <1>28, <1>29, <1>30, <1>31, <1>32, <1>33, <1>34, <1>35, <1>36, <1>37
  DEF Next, Request, SubmitStep, CancelStep, WorkerStep, Startup

\* The invariant the ownership theorems rest on.
LEMMA OwnedAlways == Spec => [](Typed /\ Owned)
<1>1. Init => Typed /\ Owned
  BY TypedInit, OwnedInit
<1>2. Typed /\ Owned /\ [Next]_vars => (Typed /\ Owned)'
  BY TypedStep, OwnedStep
<1> QED
  BY <1>1, <1>2, PTL DEF Spec

\* No two workers run the same job, and the cancel entry of a running job is
\* its own worker's: a cancel reaches the run, a retry or delete sees it.
THEOREM OneRunPerJob == Spec => [](SingleRunner /\ CancelReachesRun)
<1>1. Typed /\ Owned => SingleRunner /\ CancelReachesRun
  BY DEF Owned, CancelReachesRun, SingleRunner
<1> QED
  BY <1>1, OwnedAlways, PTL

\* While hooks are being dispatched for a terminal status the row keeps it.
THEOREM VerdictStands == Spec => []FinalizeWindowStable
<1>1. Typed /\ Owned => FinalizeWindowStable
  BY DEF Owned, RunRows, CancelRows, Cancelling, FinalizeWindowStable
<1> QED
  BY <1>1, OwnedAlways, PTL

\* A deleted job has no run and no cancel still winding down.
THEOREM DeletedStaysQuiet == Spec => []DeletedIsQuiet
<1>1. ASSUME Typed, Owned, NEW w \in Workers, wpc[w] \in RunSteps
      PROVE  status[wjob[w]] # "deleted"
  <2>1. wpc[w] \in BeforePersist \/ wpc[w] \in {"hooks", "cleanup"}
    BY <1>1 DEF BeforePersist
  <2>2. wpc[w] = "hooks" => outcome[w] \in Terminal
    BY <1>1 DEF Typed, ThreadsReady
  <2> QED
    BY <1>1, <2>1, <2>2 DEF Owned, RunRows, Terminal
<1>2. Typed /\ Owned => DeletedIsQuiet
  <2> SUFFICES ASSUME Typed, Owned, NEW j \in Jobs, status[j] = "deleted"
               PROVE  /\ ~InFlight(j)
                      /\ \A w \in Workers : wpc[w] \in RunSteps => wjob[w] # j
                      /\ \A c \in Clients : Cancelling(c) => cjob[c] # j
    BY DEF DeletedIsQuiet, Cancelling
  <2>1. \A w \in Workers : wpc[w] \in RunSteps => wjob[w] # j
    BY <1>1
  <2>2. cancels[j] = None
    BY <2>1 DEF Typed, TypeOK, Owned, EntryHasRun
  <2>3. ~finalizing[j] /\ \A c \in Clients : Cancelling(c) => cjob[c] # j
    BY DEF Owned, CancelRows, Typed, TypeOK
  <2> QED
    BY <2>1, <2>2, <2>3 DEF InFlight
<1> QED
  BY <1>2, OwnedAlways, PTL

-----------------------------------------------------------------------------
(* submitMu: what the capacity check and the dedup lookup saw still holds    *)
(* when the submission inserts its row and sends its id.                     *)

SubmitHolds ==
    \A c \in Clients : cpc[c] \in {"lookup", "create", "event", "dispatch", "enqueue"} => submitMu = c

Admitted == SubmitHolds /\ EnqueueNeverBlocks /\ IndexNeverHit

LEMMA AdmittedInit == Init => Admitted
  BY DEF Init, Admitted, SubmitHolds, EnqueueNeverBlocks, IndexNeverHit

\* Every step keeps what an admitted submission relies on.
LEMMA AdmittedStep == Typed /\ Owned /\ Admitted /\ [Next]_vars => Admitted'
<1> SUFFICES ASSUME Typed, Owned, Admitted, [Next]_vars PROVE Admitted'
  OBVIOUS
<1> USE ThreadsAssumption, QueueAssumption
    DEF Typed, TypeOK, ThreadsReady, Owned, RecoveryAlone, Admitted, SubmitHolds, EnqueueNeverBlocks,
        IndexNeverHit, KeyActive, Active
<1>1. ASSUME NEW c \in Clients, NEW urls \in SUBSET Jobs, SubmitBegin(c, urls) PROVE Admitted'
  BY <1>1 DEF SubmitBegin, store, manager, worker, process
<1>2. ASSUME NEW c \in Clients, SubmitLock(c) PROVE Admitted'
  BY <1>2 DEF SubmitLock, SubmitMayLock, store, worker, process
<1>3. ASSUME NEW c \in Clients, NEW j \in Jobs, SubmitAdmit(c, j) PROVE Admitted'
  BY <1>3 DEF SubmitAdmit, store, manager, worker, process
<1>4. ASSUME NEW c \in Clients, NEW j \in Jobs, SubmitReject(c, j) PROVE Admitted'
  BY <1>4 DEF SubmitReject, store, manager, worker, process
<1>5. ASSUME NEW c \in Clients, SubmitCreate(c) PROVE Admitted'
  <2>1. submitMu = c /\ submitMu' = c
    BY <1>5 DEF SubmitCreate, manager
  <2>2. UNCHANGED queue
    BY <1>5 DEF SubmitCreate, manager
  <2>3. \A d \in Clients \ {c} :
            cpc'[d] \notin {"lookup", "create", "event", "dispatch", "enqueue"}
    BY <1>5, <2>1 DEF SubmitCreate
  <2>4. cpc'[c] \in {"event", "lookup"} /\ Len(queue) < QueueCap
    BY <1>5 DEF SubmitCreate
  <2> QED
    BY <2>1, <2>2, <2>3, <2>4
<1>6. ASSUME NEW c \in Clients, SubmitEvent(c) PROVE Admitted'
  BY <1>6 DEF SubmitEvent, manager, worker, process
<1>7. ASSUME NEW c \in Clients, SubmitDispatch(c) PROVE Admitted'
  BY <1>7 DEF SubmitDispatch, DispatchHooks, store, worker, process
<1>8. ASSUME NEW c \in Clients, SubmitEnqueue(c) PROVE Admitted'
  BY <1>8 DEF SubmitEnqueue, store, worker, process
<1>9. ASSUME NEW c \in Clients, SubmitDone(c) PROVE Admitted'
  BY <1>9 DEF SubmitDone, store, worker, process
<1>10. ASSUME NEW j \in Jobs, CancelRunning(j) PROVE Admitted'
  BY <1>10 DEF CancelRunning, store, manager, client, process
<1>11. ASSUME NEW c \in Clients, NEW j \in Jobs, CancelQueued(c, j) PROVE Admitted'
  BY <1>11 DEF CancelQueued, CancelsRow, Active, worker, process
<1>12. ASSUME NEW c \in Clients, CancelHooks(c) PROVE Admitted'
  BY <1>12 DEF CancelHooks, store, worker, process
<1>13. ASSUME NEW c \in Clients, CancelClear(c) PROVE Admitted'
  BY <1>13 DEF CancelClear, store, worker, process
<1>14. ASSUME NEW j \in Jobs, Retry(j) PROVE Admitted'
  BY <1>14 DEF Retry, Retryable, MayEnqueue, client, worker, process
<1>15. ASSUME NEW j \in Jobs, Delete(j) PROVE Admitted'
  BY <1>15 DEF Delete, Deletable, Terminal, manager, client, worker, process
<1>16. ASSUME NEW j \in Jobs, HookEnds(j) PROVE Admitted'
  BY <1>16 DEF HookEnds, client, worker, process
<1>17. ASSUME NEW w \in Workers, TakeRecovered(w) PROVE Admitted'
  BY <1>17 DEF TakeRecovered, store, client, process
<1>18. ASSUME NEW w \in Workers, TakeQueued(w) PROVE Admitted'
  BY <1>18 DEF TakeQueued, store, client, process
<1>19. ASSUME NEW w \in Workers, Claim(w) PROVE Admitted'
  BY <1>19 DEF Claim, Claimable, client, process
<1>20. ASSUME NEW w \in Workers, ClaimNothing(w) PROVE Admitted'
  BY <1>20 DEF ClaimNothing, Claimable, store, manager, client, process
<1>21. ASSUME NEW w \in Workers, Started(w) PROVE Admitted'
  BY <1>21 DEF Started, manager, client, process
<1>22. ASSUME NEW w \in Workers, ProcessSync(w) PROVE Admitted'
  BY <1>22 DEF ProcessSync, manager, client, process
<1>23. ASSUME NEW w \in Workers, ProcessTracks(w) PROVE Admitted'
  BY <1>23 DEF ProcessTracks, manager, client, process
<1>24. ASSUME NEW w \in Workers, ProcessFails(w) PROVE Admitted'
  BY <1>24 DEF ProcessFails, store, manager, client, process
<1>25. ASSUME NEW w \in Workers, ProcessPanics(w) PROVE Admitted'
  BY <1>25 DEF ProcessPanics, store, manager, client, process
<1>26. ASSUME NEW w \in Workers, ProcessCloses(w) PROVE Admitted'
  BY <1>26 DEF ProcessCloses, manager, client, process
<1>27. ASSUME NEW w \in Workers, CheckShutdown(w) PROVE Admitted'
  BY <1>27 DEF CheckShutdown, store, manager, client, process
<1>28. ASSUME NEW w \in Workers, Decide(w) PROVE Admitted'
  BY <1>28 DEF Decide, store, manager, client, process
<1>29. ASSUME NEW w \in Workers, Persist(w) PROVE Admitted'
  BY <1>29 DEF Persist, Terminal, manager, client, process
<1>30. ASSUME NEW w \in Workers, RunHooks(w) PROVE Admitted'
  BY <1>30 DEF RunHooks, store, client, process
<1>31. ASSUME NEW w \in Workers, Cleanup(w) PROVE Admitted'
  BY <1>31 DEF Cleanup, store, client, process
<1>32. ASSUME NEW j \in Jobs, RecoverRow(j) PROVE Admitted'
  BY <1>32 DEF RecoverRow, manager, client, worker, process
<1>33. ASSUME NEW j \in Jobs, RecoverEnqueue(j) PROVE Admitted'
  BY <1>33 DEF RecoverEnqueue, client, worker
<1>34. CASE Serve
  BY <1>34 DEF Serve, store, manager, client, worker
<1>35. CASE Shutdown
  BY <1>35 DEF Shutdown, store, manager, client
<1>36. CASE Restart
  BY <1>36 DEF Restart, Recoverable, store
<1>37. CASE UNCHANGED vars
  BY <1>37 DEF vars, store, manager, client, worker, process
<1>99. QED
  BY <1>1, <1>2, <1>3, <1>4, <1>5, <1>6, <1>7, <1>8, <1>9, <1>10, <1>11, <1>12, <1>13,
     <1>14, <1>15, <1>16, <1>17, <1>18, <1>19, <1>20, <1>21, <1>22, <1>23, <1>24, <1>25,
     <1>26, <1>27, <1>28, <1>29, <1>30, <1>31, <1>32, <1>33, <1>34, <1>35, <1>36, <1>37
  DEF Next, Request, SubmitStep, CancelStep, WorkerStep, Startup

\* The send to the admission channel never blocks its caller, and the unique
\* index is never what refuses a submission.
THEOREM AdmissionHolds == Spec => []AdmissionStands
<1>1. Init => Admitted
  BY AdmittedInit
<1>2. Typed /\ Owned /\ Admitted /\ [Next]_vars => Admitted'
  BY AdmittedStep
<1>3. Admitted => AdmissionStands
  BY DEF Admitted, AdmissionStands, EnqueueNeverBlocks, IndexNeverHit
<1> QED
  BY <1>1, <1>2, <1>3, OwnedAlways, PTL DEF Spec

-----------------------------------------------------------------------------
(* Deliveries: who will bring a queued job to a worker. *)

LEMMA InQueueAppend ==
    ASSUME NEW q \in Seq(Jobs), NEW j \in Jobs, NEW k \in Jobs
    PROVE  InQueue(Append(q, k), j) <=> (InQueue(q, j) \/ j = k)
<1>1. /\ Len(Append(q, k)) = Len(q) + 1
      /\ \A i \in 1 .. Len(q) : Append(q, k)[i] = q[i]
      /\ Append(q, k)[Len(q) + 1] = k
  OBVIOUS
<1>2. DOMAIN q = 1 .. Len(q) /\ DOMAIN Append(q, k) = 1 .. (Len(q) + 1)
  OBVIOUS
<1>3. Len(q) \in Nat
  OBVIOUS
<1> QED
  BY <1>1, <1>2, <1>3 DEF InQueue

LEMMA InQueueTail ==
    ASSUME NEW q \in Seq(Jobs), q # <<>>, NEW j \in Jobs, InQueue(q, j), j # Head(q)
    PROVE  InQueue(Tail(q), j)
<1>1. PICK i \in 1 .. Len(q) : q[i] = j
  BY DEF InQueue
<1>2. i # 1 /\ Len(q) \in Nat
  BY <1>1
<1>3. i - 1 \in 1 .. Len(Tail(q)) /\ Tail(q)[i - 1] = j
  BY <1>1, <1>2
<1>4. DOMAIN Tail(q) = 1 .. Len(Tail(q))
  BY <1>1
<1> QED
  BY <1>3, <1>4 DEF InQueue

\* Until recovery is over every active row is on its list or already enqueued.
RecoveryComplete ==
    phase = "recovering" => \A j \in Jobs : status[j] \in Active =>
        j \in todo \/ (status[j] = "queued" /\ InQueue(recovery, j))

Deliveries == RecoveryComplete /\ QueuedIsDelivered

LEMMA DeliveriesInit == Init => Deliveries
  BY DEF Init, Deliveries, RecoveryComplete, QueuedIsDelivered, Active

\* Threads that carry a job to its claim or to the queue go on doing so.
CarriersStay ==
    /\ \A w \in Workers : wpc[w] = "claim" => wpc'[w] = "claim" /\ wjob'[w] = wjob[w]
    /\ \A c \in Clients : cpc[c] \in {"event", "dispatch", "enqueue"} =>
          cpc'[c] \in {"event", "dispatch", "enqueue"} /\ cjob'[c] = cjob[c]

\* A step that queues no job, moves neither queue and leaves the carriers alone
\* loses no delivery.
LEMMA DeliveriesFrame ==
    ASSUME Deliveries, phase # "recovering", phase' = phase,
           queue' = queue, recovery' = recovery, CarriersStay,
           \A j \in Jobs : status'[j] = "queued" => status[j] = "queued"
    PROVE  Deliveries'
<1>1. RecoveryComplete'
  BY DEF RecoveryComplete
<1>2. ASSUME phase = "serving", NEW j \in Jobs, status'[j] = "queued" PROVE Delivered(j)'
  <2>1. Delivered(j)
    BY <1>2 DEF Deliveries, QueuedIsDelivered
  <2>2. CASE InQueue(queue, j) \/ InQueue(recovery, j)
    BY <2>2 DEF Delivered, InQueue
  <2>3. CASE \E w \in Workers : wpc[w] = "claim" /\ wjob[w] = j
    BY <2>3 DEF Delivered, CarriersStay
  <2>4. CASE \E c \in Clients : cpc[c] \in {"event", "dispatch", "enqueue"} /\ cjob[c] = j
    BY <2>4 DEF Delivered, CarriersStay
  <2> QED
    BY <2>1, <2>2, <2>3, <2>4 DEF Delivered
<1> QED
  BY <1>1, <1>2 DEF Deliveries, QueuedIsDelivered

\* A step that touches no row's status, queue, thread or phase loses none either.
LEMMA DeliveriesSame ==
    ASSUME Deliveries, UNCHANGED <<phase, todo, status, queue, recovery>>,
           UNCHANGED <<wpc, wjob, cpc, cjob>>
    PROVE  Deliveries'
  BY DEF Deliveries, RecoveryComplete, QueuedIsDelivered, Delivered, InQueue

\* Once the process serves, the deliveries are a matter of each queued job.
LEMMA DeliveriesByJob ==
    ASSUME phase' = phase, phase # "recovering", Deliveries,
           \A k \in Jobs : status'[k] = "queued" =>
              (status[k] = "queued" /\ Delivered(k) => Delivered(k)')
              /\ (status[k] # "queued" => Delivered(k)')
    PROVE  Deliveries'
  BY DEF Deliveries, RecoveryComplete, QueuedIsDelivered

\* A job stays delivered if each way it was delivered leads to some way it is.
LEMMA DeliveredCases ==
    ASSUME NEW j \in Jobs, Delivered(j),
           InQueue(queue, j) => Delivered(j)',
           InQueue(recovery, j) => Delivered(j)',
           \A w \in Workers : wpc[w] = "claim" /\ wjob[w] = j => Delivered(j)',
           \A c \in Clients : Created(c) /\ cjob[c] = j => Delivered(j)'
    PROVE  Delivered(j)'
  BY DEF Delivered, Created

\* No step loses the delivery of a queued job, as long as a worker's claim
\* does not fail in the store.
LEMMA DeliveriesStep ==
    ASSUME "claim" \notin Faults
    PROVE  Typed /\ Owned /\ Deliveries /\ [Next]_vars => Deliveries'
<1> SUFFICES ASSUME Typed, Owned, Deliveries, [Next]_vars PROVE Deliveries'
  OBVIOUS
<1> USE DEF Typed, TypeOK, ThreadsReady, Owned, RecoveryAlone, RunRows, SubmitRows, CancelRows
<1>1. ASSUME NEW c \in Clients, NEW urls \in SUBSET Jobs, SubmitBegin(c, urls) PROVE Deliveries'
  BY <1>1, DeliveriesFrame DEF SubmitBegin, store, manager, worker, process, CarriersStay
<1>2. ASSUME NEW c \in Clients, SubmitLock(c) PROVE Deliveries'
  BY <1>2, DeliveriesFrame DEF SubmitLock, SubmitMayLock, store, worker, process, CarriersStay
<1>3. ASSUME NEW c \in Clients, NEW j \in Jobs, SubmitAdmit(c, j) PROVE Deliveries'
  BY <1>3, DeliveriesFrame DEF SubmitAdmit, store, manager, worker, process, CarriersStay
<1>4. ASSUME NEW c \in Clients, NEW j \in Jobs, SubmitReject(c, j) PROVE Deliveries'
  BY <1>4, DeliveriesFrame DEF SubmitReject, store, manager, worker, process, CarriersStay
<1>5. ASSUME NEW c \in Clients, SubmitCreate(c) PROVE Deliveries'
  <2>1. cjob[c] \in Jobs /\ phase # "recovering" /\ phase' = phase
    BY <1>5 DEF SubmitCreate, process
  <2>2. CASE status' = status
    BY <1>5, <2>1, <2>2, DeliveriesFrame DEF SubmitCreate, manager, worker, CarriersStay
  <2>3. CASE /\ status' = [status EXCEPT ![cjob[c]] = "queued"]
             /\ cpc' = [cpc EXCEPT ![c] = "event"]
             /\ cjob' = cjob
    <3>1. ASSUME NEW k \in Jobs, status'[k] = "queued", k = cjob[c] PROVE Delivered(k)'
      BY <2>3, <3>1 DEF Delivered
    <3>2. ASSUME NEW k \in Jobs, status[k] = "queued", Delivered(k) PROVE Delivered(k)'
      <4>1. queue' = queue /\ recovery' = recovery /\ wpc' = wpc /\ wjob' = wjob
        BY <1>5 DEF SubmitCreate, manager, worker
      <4>2. \A d \in Clients : Created(d) /\ cjob[d] = k => Created(d)' /\ cjob'[d] = k
        BY <2>3 DEF Created
      <4> QED
        BY <3>2, <4>1, <4>2, DeliveredCases DEF Delivered, InQueue, Created
    <3> QED
      BY <2>1, <2>3, <3>1, <3>2, DeliveriesByJob
  <2> QED
    BY <1>5, <2>2, <2>3 DEF SubmitCreate
<1>6. ASSUME NEW c \in Clients, SubmitEvent(c) PROVE Deliveries'
  BY <1>6, DeliveriesFrame DEF SubmitEvent, manager, worker, process, CarriersStay
<1>7. ASSUME NEW c \in Clients, SubmitDispatch(c) PROVE Deliveries'
  BY <1>7, DeliveriesFrame DEF SubmitDispatch, DispatchHooks, store, worker, process, CarriersStay
<1>8. ASSUME NEW c \in Clients, SubmitEnqueue(c) PROVE Deliveries'
  <2>1. /\ cjob[c] \in Jobs /\ phase # "recovering" /\ phase' = phase
        /\ status' = status /\ recovery' = recovery /\ wpc' = wpc /\ wjob' = wjob
        /\ queue' = Append(queue, cjob[c])
    BY <1>8 DEF SubmitEnqueue, store, worker, process
  <2>2. ASSUME NEW k \in Jobs, Delivered(k) PROVE Delivered(k)'
    <3>1. InQueue(queue', k) <=> (InQueue(queue, k) \/ k = cjob[c])
      BY <2>1, InQueueAppend
    <3>2. \A d \in Clients : Created(d) /\ cjob[d] = k =>
             k = cjob[c] \/ (Created(d)' /\ cjob'[d] = k)
      BY <1>8 DEF SubmitEnqueue, Created
    <3> QED
      BY <2>1, <2>2, <3>1, <3>2, DeliveredCases DEF Delivered, InQueue, Created
  <2> QED
    BY <2>1, <2>2, DeliveriesByJob
<1>9. ASSUME NEW c \in Clients, SubmitDone(c) PROVE Deliveries'
  BY <1>9, DeliveriesFrame DEF SubmitDone, store, worker, process, CarriersStay
<1>10. ASSUME NEW j \in Jobs, CancelRunning(j) PROVE Deliveries'
  BY <1>10, DeliveriesFrame DEF CancelRunning, Accepting, store, manager, client, process, CarriersStay
<1>11. ASSUME NEW c \in Clients, NEW j \in Jobs, CancelQueued(c, j) PROVE Deliveries'
  BY <1>11, DeliveriesFrame DEF CancelQueued, Accepting, worker, process, CarriersStay
<1>12. ASSUME NEW c \in Clients, CancelHooks(c) PROVE Deliveries'
  BY <1>12, DeliveriesFrame DEF CancelHooks, store, worker, process, CarriersStay
<1>13. ASSUME NEW c \in Clients, CancelClear(c) PROVE Deliveries'
  BY <1>13, DeliveriesFrame DEF CancelClear, store, worker, process, CarriersStay
<1>14. ASSUME NEW j \in Jobs, Retry(j) PROVE Deliveries'
  <2>1. phase # "recovering" /\ phase' = phase
    BY <1>14 DEF Retry, Accepting, process
  <2>2. UNCHANGED <<recovery, wpc, wjob, cpc, cjob>>
    BY <1>14 DEF Retry, client, worker
  <2>3. CASE status' = status /\ queue' = queue
    BY <2>1, <2>2, <2>3, DeliveriesFrame DEF CarriersStay
  <2>4. CASE status' = [status EXCEPT ![j] = "queued"] /\ queue' = Append(queue, j)
    <3>1. \A k \in Jobs : InQueue(queue', k) <=> (InQueue(queue, k) \/ k = j)
      BY <2>4, InQueueAppend
    <3>2. Delivered(j)'
      BY <3>1 DEF Delivered, InQueue
    <3>3. ASSUME NEW k \in Jobs, Delivered(k) PROVE Delivered(k)'
      BY <2>2, <3>1, <3>3, DeliveredCases DEF Delivered, InQueue, Created
    <3> QED
      BY <2>1, <2>4, <3>2, <3>3, DeliveriesByJob
  <2> QED
    BY <1>14, <2>3, <2>4 DEF Retry
<1>15. ASSUME NEW j \in Jobs, Delete(j) PROVE Deliveries'
  BY <1>15, DeliveriesFrame DEF Delete, Accepting, manager, client, worker, process, CarriersStay
<1>16. ASSUME NEW j \in Jobs, HookEnds(j) PROVE Deliveries'
  BY <1>16, DeliveriesSame DEF HookEnds, client, worker, process
<1>17. ASSUME NEW w \in Workers, TakeRecovered(w) PROVE Deliveries'
  <2>1. /\ phase # "recovering" /\ phase' = phase
        /\ status' = status /\ queue' = queue /\ cpc' = cpc /\ cjob' = cjob
        /\ wpc' = [wpc EXCEPT ![w] = "claim"] /\ wjob' = [wjob EXCEPT ![w] = Head(recovery)]
        /\ recovery # <<>> /\ recovery' = Tail(recovery) /\ wpc[w] = "idle"
    BY <1>17 DEF TakeRecovered, store, client, process
  <2>2. ASSUME NEW k \in Jobs, Delivered(k) PROVE Delivered(k)'
    <3>1. k = Head(recovery) => Delivered(k)'
      BY <2>1 DEF Delivered
    <3>2. k # Head(recovery) /\ InQueue(recovery, k) => InQueue(recovery', k)
      BY <2>1, InQueueTail
    <3>3. \A v \in Workers : wpc[v] = "claim" /\ wjob[v] = k => wpc'[v] = "claim" /\ wjob'[v] = k
      BY <2>1
    <3> QED
      BY <2>1, <2>2, <3>1, <3>2, <3>3, DeliveredCases DEF Delivered, InQueue, Created
  <2> QED
    BY <2>1, <2>2, DeliveriesByJob
<1>18. ASSUME NEW w \in Workers, TakeQueued(w) PROVE Deliveries'
  <2>1. /\ phase # "recovering" /\ phase' = phase
        /\ status' = status /\ recovery' = recovery /\ cpc' = cpc /\ cjob' = cjob
        /\ wpc' = [wpc EXCEPT ![w] = "claim"] /\ wjob' = [wjob EXCEPT ![w] = Head(queue)]
        /\ queue # <<>> /\ queue' = Tail(queue) /\ wpc[w] = "idle"
    BY <1>18 DEF TakeQueued, store, client, process
  <2>2. ASSUME NEW k \in Jobs, Delivered(k) PROVE Delivered(k)'
    <3>1. k = Head(queue) => Delivered(k)'
      BY <2>1 DEF Delivered
    <3>2. k # Head(queue) /\ InQueue(queue, k) => InQueue(queue', k)
      BY <2>1, InQueueTail
    <3>3. \A v \in Workers : wpc[v] = "claim" /\ wjob[v] = k => wpc'[v] = "claim" /\ wjob'[v] = k
      BY <2>1
    <3> QED
      BY <2>1, <2>2, <3>1, <3>2, <3>3, DeliveredCases DEF Delivered, InQueue, Created
  <2> QED
    BY <2>1, <2>2, DeliveriesByJob
<1>19. ASSUME NEW w \in Workers, Claim(w) PROVE Deliveries'
  <2>1. /\ phase # "recovering" /\ phase' = phase /\ wjob[w] \in Jobs
        /\ status' = [status EXCEPT ![wjob[w]] = "running"]
        /\ UNCHANGED <<queue, recovery, cpc, cjob, wjob>>
        /\ wpc' = [wpc EXCEPT ![w] = "started"]
    BY <1>19 DEF Claim, client, process
  <2>2. ASSUME NEW k \in Jobs, status'[k] = "queued", Delivered(k) PROVE Delivered(k)'
    <3>1. k # wjob[w]
      BY <2>1, <2>2
    <3>2. \A v \in Workers : wpc[v] = "claim" /\ wjob[v] = k => wpc'[v] = "claim" /\ wjob'[v] = k
      BY <2>1, <3>1
    <3> QED
      BY <2>1, <2>2, <3>2, DeliveredCases DEF Delivered, InQueue, Created
  <2> QED
    BY <2>1, <2>2, DeliveriesByJob
<1>20. ASSUME NEW w \in Workers, ClaimNothing(w) PROVE Deliveries'
  <2>1. /\ phase # "recovering" /\ phase' = phase
        /\ UNCHANGED <<status, queue, recovery, cpc, cjob>>
        /\ wpc' = [wpc EXCEPT ![w] = "idle"] /\ wjob' = [wjob EXCEPT ![w] = None]
        /\ wpc[w] = "claim" /\ wjob[w] \in Jobs
    BY <1>20 DEF ClaimNothing, store, manager, client, process
  <2>2. CASE phase = "stopping"
    BY <2>1, <2>2 DEF Deliveries, RecoveryComplete, QueuedIsDelivered
  <2>3. CASE ~Claimable(wjob[w])
    <3>1. ASSUME NEW k \in Jobs, status'[k] = "queued", Delivered(k) PROVE Delivered(k)'
      <4>1. k # wjob[w]
        BY <2>1, <2>3, <3>1 DEF Claimable
      <4>2. \A v \in Workers : wpc[v] = "claim" /\ wjob[v] = k => wpc'[v] = "claim" /\ wjob'[v] = k
        BY <2>1, <4>1
      <4> QED
        BY <2>1, <3>1, <4>2, DeliveredCases DEF Delivered, InQueue, Created
    <3> QED
      BY <2>1, <3>1, DeliveriesByJob
  <2> QED
    BY <1>20, <2>2, <2>3 DEF ClaimNothing
<1>21. ASSUME NEW w \in Workers, Started(w) PROVE Deliveries'
  BY <1>21, DeliveriesFrame DEF Started, manager, client, process, CarriersStay
<1>22. ASSUME NEW w \in Workers, ProcessSync(w) PROVE Deliveries'
  BY <1>22, DeliveriesFrame DEF ProcessSync, manager, client, process, CarriersStay
<1>23. ASSUME NEW w \in Workers, ProcessTracks(w) PROVE Deliveries'
  BY <1>23, DeliveriesFrame DEF ProcessTracks, manager, client, process, CarriersStay
<1>24. ASSUME NEW w \in Workers, ProcessFails(w) PROVE Deliveries'
  BY <1>24, DeliveriesFrame DEF ProcessFails, store, manager, client, process, CarriersStay
<1>25. ASSUME NEW w \in Workers, ProcessPanics(w) PROVE Deliveries'
  BY <1>25, DeliveriesFrame DEF ProcessPanics, store, manager, client, process, CarriersStay
<1>26. ASSUME NEW w \in Workers, ProcessCloses(w) PROVE Deliveries'
  BY <1>26, DeliveriesFrame DEF ProcessCloses, manager, client, process, CarriersStay
<1>27. ASSUME NEW w \in Workers, CheckShutdown(w) PROVE Deliveries'
  BY <1>27, DeliveriesFrame DEF CheckShutdown, store, manager, client, process, CarriersStay
<1>28. ASSUME NEW w \in Workers, Decide(w) PROVE Deliveries'
  BY <1>28, DeliveriesFrame DEF Decide, store, manager, client, process, CarriersStay
<1>29. ASSUME NEW w \in Workers, Persist(w) PROVE Deliveries'
  <2>1. phase # "recovering" /\ outcome[w] \in Terminal /\ CarriersStay
    BY <1>29 DEF Persist, manager, client, process, CarriersStay
  <2>2. \A j \in Jobs : status'[j] = "queued" => status[j] = "queued"
    BY <1>29, <2>1 DEF Persist, Terminal
  <2> QED
    BY <1>29, <2>1, <2>2, DeliveriesFrame DEF Persist, manager, process
<1>30. ASSUME NEW w \in Workers, RunHooks(w) PROVE Deliveries'
  BY <1>30, DeliveriesFrame DEF RunHooks, store, client, process, CarriersStay
<1>31. ASSUME NEW w \in Workers, Cleanup(w) PROVE Deliveries'
  BY <1>31, DeliveriesFrame DEF Cleanup, store, client, process, CarriersStay
<1>32. ASSUME NEW j \in Jobs, RecoverRow(j) PROVE Deliveries'
  <2>1. /\ phase' = phase /\ phase = "recovering" /\ j \in todo
        /\ status' = [status EXCEPT ![j] = "queued"]
        /\ todo' = todo /\ recovery' = recovery
    BY <1>32 DEF RecoverRow, manager, process
  <2> QED
    BY <2>1 DEF Deliveries, RecoveryComplete, QueuedIsDelivered, InQueue, Active
<1>33. ASSUME NEW j \in Jobs, RecoverEnqueue(j) PROVE Deliveries'
  <2>1. /\ phase' = phase /\ phase = "recovering" /\ status[j] = "queued" /\ status' = status
        /\ recovery' = Append(recovery, j) /\ todo' = todo \ {j}
    BY <1>33 DEF RecoverEnqueue
  <2>2. \A k \in Jobs : InQueue(recovery', k) <=> (InQueue(recovery, k) \/ k = j)
    BY <2>1, InQueueAppend
  <2>3. RecoveryComplete'
    BY <2>1, <2>2 DEF Deliveries, RecoveryComplete, InQueue
  <2> QED
    BY <2>1, <2>3 DEF Deliveries, QueuedIsDelivered
<1>34. CASE Serve
  <2>1. /\ phase = "recovering" /\ phase' = "serving" /\ todo = {}
        /\ status' = status /\ recovery' = recovery
    BY <1>34 DEF Serve, store, manager
  <2>2. \A k \in Jobs : status'[k] = "queued" => InQueue(recovery', k)
    BY <2>1 DEF Deliveries, RecoveryComplete, Active, InQueue
  <2> QED
    BY <2>1, <2>2 DEF Deliveries, RecoveryComplete, QueuedIsDelivered, Delivered, InQueue
<1>35. CASE Shutdown
  BY <1>35 DEF Shutdown, Deliveries, RecoveryComplete, QueuedIsDelivered
<1>36. CASE Restart
  BY <1>36 DEF Restart, Recoverable, store, Deliveries, RecoveryComplete, QueuedIsDelivered
<1>37. CASE UNCHANGED vars
  BY <1>37, DeliveriesSame DEF vars, store, manager, client, worker, process
<1>99. QED
  BY <1>1, <1>2, <1>3, <1>4, <1>5, <1>6, <1>7, <1>8, <1>9, <1>10, <1>11, <1>12, <1>13,
     <1>14, <1>15, <1>16, <1>17, <1>18, <1>19, <1>20, <1>21, <1>22, <1>23, <1>24, <1>25,
     <1>26, <1>27, <1>28, <1>29, <1>30, <1>31, <1>32, <1>33, <1>34, <1>35, <1>36, <1>37
  DEF Next, Request, SubmitStep, CancelStep, WorkerStep, Startup

\* A queued job is never lost: its id is in a queue, or in the hands of a thread
\* that brings it there or claims it.
THEOREM NoJobLost == ASSUME "claim" \notin Faults PROVE Spec => []QueuedIsDelivered
<1>1. Init => Deliveries
  BY DeliveriesInit
<1>2. Typed /\ Owned /\ Deliveries /\ [Next]_vars => Deliveries'
  BY DeliveriesStep
<1>3. Deliveries => QueuedIsDelivered
  BY DEF Deliveries
<1> QED
  BY <1>1, <1>2, <1>3, OwnedAlways, PTL DEF Spec

-----------------------------------------------------------------------------
(* The life of a job that clients are promised *)

\* What the abstract specification sees of the events.
Endings == [j \in Jobs |-> events[j]["ended"]]

\* The events of other kinds leave the count of endings.
LEMMA OtherEvents ==
    ASSUME TypeOK, NEW j \in Jobs, NEW kind \in EventKinds \ {"ended"},
           events' = Recorded(j, kind) \/ events' = events
    PROVE  Endings' = Endings
<1>1. ASSUME NEW k \in Jobs PROVE events'[k]["ended"] = events[k]["ended"]
  <2>1. CASE events' = events
    BY <2>1
  <2>2. CASE events' = Recorded(j, kind) /\ k # j
    BY <2>2 DEF TypeOK, Recorded
  <2>3. CASE events' = Recorded(j, kind) /\ k = j
    <3>1. kind # "ended" /\ "ended" \in EventKinds /\ events[j] \in [EventKinds -> Nat]
      BY DEF TypeOK, EventKinds
    <3>2. events'[j] = [events[j] EXCEPT ![kind] = events[j][kind] + 1]
      BY <2>3 DEF TypeOK, Recorded
    <3> QED BY <2>3, <3>1, <3>2
  <2> QED BY <2>1, <2>2, <2>3
<1> QED BY <1>1 DEF Endings

\* An ending counts once.
LEMMA OneEnding ==
    ASSUME TypeOK, NEW j \in Jobs, events' = Recorded(j, "ended")
    PROVE  Endings' = [Endings EXCEPT ![j] = Endings[j] + 1]
<1>1. /\ events'[j]["ended"] = events[j]["ended"] + 1
      /\ \A k \in Jobs \ {j} : events'[k]["ended"] = events[k]["ended"]
  BY DEF TypeOK, Recorded, EventKinds
<1> QED BY <1>1 DEF Endings

\* The steps that move a row, each the step of the abstract job it stands for.
LEMMA LifecycleStep ==
    Typed /\ Owned /\ [Next]_vars => [Lifecycle!Next]_<<status, Endings>>
<1> SUFFICES ASSUME Typed, Owned, [Next]_vars
             PROVE  Lifecycle!Next \/ UNCHANGED <<status, Endings>>
  OBVIOUS
<1> USE DEF Typed
<1>ty. /\ status \in [Jobs -> Status] /\ \A w \in Workers : wpc[w] # "idle" => wjob[w] \in Jobs
       /\ wpc \in [Workers -> WorkerSteps]
  BY DEF TypeOK, ThreadsReady
<1>kinds. {"queued", "started", "retried", "recovered", "hook"} \subseteq EventKinds \ {"ended"}
  BY DEF EventKinds
<1>free. ASSUME NEW j \in Jobs, ~KeyActive(j) PROVE Lifecycle!KeyFree(j)
  BY <1>free DEF KeyActive, Active, Lifecycle!KeyFree, Lifecycle!Active
<1>same. ASSUME UNCHANGED <<status, events>> PROVE UNCHANGED <<status, Endings>>
  BY <1>same DEF Endings
<1>1. ASSUME NEW c \in Clients, NEW urls \in SUBSET Jobs, SubmitBegin(c, urls)
      PROVE  UNCHANGED <<status, Endings>>
  BY <1>1, <1>same DEF SubmitBegin, store
<1>2. ASSUME NEW c \in Clients, SubmitLock(c) \/ SubmitDispatch(c) \/ SubmitEnqueue(c) \/ SubmitDone(c)
      PROVE  UNCHANGED <<status, Endings>>
  BY <1>2, <1>same DEF SubmitLock, SubmitDispatch, SubmitEnqueue, SubmitDone, store
<1>3. ASSUME NEW c \in Clients, NEW j \in Jobs, SubmitAdmit(c, j) \/ SubmitReject(c, j)
      PROVE  UNCHANGED <<status, Endings>>
  BY <1>3, <1>same DEF SubmitAdmit, SubmitReject, store
<1>4. ASSUME NEW c \in Clients, SubmitCreate(c)
      PROVE  Lifecycle!Next \/ UNCHANGED <<status, Endings>>
  <2>1. /\ cjob[c] \in Jobs /\ status[cjob[c]] = "absent" /\ UNCHANGED Endings
    BY <1>4 DEF SubmitCreate, Owned, SubmitRows, Creating, Created, ThreadsReady, Endings
  <2>2. CASE UNCHANGED status
    BY <2>1, <2>2
  <2>3. CASE ~KeyActive(cjob[c]) /\ status' = [status EXCEPT ![cjob[c]] = "queued"]
    <3>1. Lifecycle!Submit(cjob[c])
      BY <2>1, <2>3, <1>free DEF Lifecycle!Submit, Lifecycle!To, Endings
    <3> QED BY <2>1, <3>1 DEF Lifecycle!Next
  <2> QED BY <1>4, <2>2, <2>3 DEF SubmitCreate
<1>5. ASSUME NEW c \in Clients, SubmitEvent(c) PROVE UNCHANGED <<status, Endings>>
  <2>1. cjob[c] \in Jobs BY <1>5 DEF SubmitEvent, ThreadsReady
  <2> QED BY <1>5, <1>kinds, <2>1, OtherEvents DEF SubmitEvent, BestEffort
<1>6. ASSUME NEW c \in Clients, CancelHooks(c) \/ CancelClear(c) PROVE UNCHANGED <<status, Endings>>
  BY <1>6, <1>same DEF CancelHooks, CancelClear, store
<1>7. ASSUME NEW j \in Jobs, CancelRunning(j) PROVE UNCHANGED <<status, Endings>>
  BY <1>7, <1>same DEF CancelRunning, store
<1>8. ASSUME NEW c \in Clients, NEW j \in Jobs, CancelQueued(c, j)
      PROVE  Lifecycle!Next \/ UNCHANGED <<status, Endings>>
  <2>1. CASE UNCHANGED <<status, events>>
    BY <2>1, <1>same
  <2>2. CASE status' = [status EXCEPT ![j] = "cancelled"] /\ events' = Recorded(j, "ended")
    <3>1. status[j] \in Active
      BY <1>8 DEF CancelQueued, CancelsRow
    <3>2. Endings' = [Endings EXCEPT ![j] = Endings[j] + 1]
      BY <2>2, OneEnding
    <3>3. Lifecycle!End(j)
      BY <2>2, <3>1, <3>2 DEF Active, Endings, Lifecycle!End, Lifecycle!To, Lifecycle!Terminal
    <3> QED BY <3>3 DEF Lifecycle!Next
  <2> QED BY <1>8, <2>1, <2>2 DEF CancelQueued
<1>9. ASSUME NEW j \in Jobs, Retry(j) PROVE Lifecycle!Next \/ UNCHANGED <<status, Endings>>
  <2>1. UNCHANGED Endings
    BY <1>9, <1>kinds, OtherEvents DEF Retry, BestEffort
  <2>2. status[j] \in {"failed", "cancelled"} /\ ~KeyActive(j)
    BY <1>9 DEF Retry, Retryable
  <2>3. status' = status \/ status' = [status EXCEPT ![j] = "queued"]
    BY <1>9 DEF Retry
  <2>4. CASE status' = [status EXCEPT ![j] = "queued"]
    <3>1. Lifecycle!Retry(j)
      BY <2>1, <2>2, <2>4, <1>free DEF Lifecycle!Retry, Lifecycle!To, Endings
    <3> QED BY <3>1 DEF Lifecycle!Next
  <2> QED BY <2>1, <2>3, <2>4
<1>10. ASSUME NEW j \in Jobs, Delete(j) PROVE Lifecycle!Next
  <2>1. Endings' = [Endings EXCEPT ![j] = 0]
    BY <1>10 DEF Delete, Endings, NoEvents, EventKinds, TypeOK
  <2>2. Lifecycle!Delete(j)
    BY <1>10, <2>1 DEF Delete, Deletable, Terminal, Endings, Lifecycle!Delete, Lifecycle!To, Lifecycle!Terminal
  <2> QED BY <2>2 DEF Lifecycle!Next
<1>11. ASSUME NEW j \in Jobs, HookEnds(j) PROVE UNCHANGED <<status, Endings>>
  BY <1>11, <1>kinds, OtherEvents DEF HookEnds
<1>12. ASSUME NEW w \in Workers,
              \/ TakeRecovered(w) \/ TakeQueued(w) \/ ClaimNothing(w) \/ ProcessSync(w) \/ ProcessTracks(w)
       PROVE  UNCHANGED <<status, Endings>>
  BY <1>12, <1>same DEF TakeRecovered, TakeQueued, ClaimNothing, ProcessSync, ProcessTracks, store
<1>13. ASSUME NEW w \in Workers,
              \/ ProcessFails(w) \/ ProcessPanics(w) \/ ProcessCloses(w) \/ CheckShutdown(w)
              \/ Decide(w) \/ RunHooks(w) \/ Cleanup(w)
       PROVE  UNCHANGED <<status, Endings>>
  BY <1>13, <1>same DEF ProcessFails, ProcessPanics, ProcessCloses, CheckShutdown, Decide, RunHooks,
     Cleanup, store
<1>14. ASSUME NEW w \in Workers, Claim(w) PROVE Lifecycle!Next
  <2>1. wjob[w] \in Jobs /\ status[wjob[w]] = "queued" /\ UNCHANGED Endings
    BY <1>14, <1>ty DEF Claim, Claimable, Endings
  <2>2. Lifecycle!Start(wjob[w])
    BY <1>14, <2>1 DEF Claim, Lifecycle!Start, Lifecycle!To, Endings
  <2> QED BY <2>1, <2>2 DEF Lifecycle!Next
<1>15. ASSUME NEW w \in Workers, Started(w) PROVE UNCHANGED <<status, Endings>>
  <2>1. wjob[w] \in Jobs BY <1>15, <1>ty DEF Started
  <2> QED BY <1>15, <1>kinds, <2>1, OtherEvents DEF Started, BestEffort
<1>16. ASSUME NEW w \in Workers, Persist(w) PROVE Lifecycle!Next \/ UNCHANGED <<status, Endings>>
  <2>1. /\ wjob[w] \in Jobs /\ outcome[w] \in Terminal /\ status[wjob[w]] = "running"
    BY <1>16, <1>ty DEF Persist, ThreadsReady, Owned, RunRows, BeforePersist, RunSteps, WorkerSteps
  <2>2. CASE UNCHANGED <<status, events>>
    BY <2>2, <1>same
  <2>3. CASE status' = [status EXCEPT ![wjob[w]] = outcome[w]] /\ events' = Recorded(wjob[w], "ended")
    <3>1. Endings' = [Endings EXCEPT ![wjob[w]] = Endings[wjob[w]] + 1]
      BY <2>1, <2>3, OneEnding
    <3>2. ASSUME NEW j \in Jobs, j = wjob[w] PROVE Lifecycle!End(j)
      <4>1. status[j] = "running" /\ outcome[w] \in Lifecycle!Terminal
        BY <2>1, <3>2 DEF Terminal, Lifecycle!Terminal
      <4>2. status' = [status EXCEPT ![j] = outcome[w]]
        BY <2>3, <3>2
      <4>3. Endings' = [Endings EXCEPT ![j] = Endings[j] + 1]
        BY <3>1, <3>2
      <4> QED BY <4>1, <4>2, <4>3 DEF Lifecycle!End, Lifecycle!To, Endings
    <3>3. \E j \in Jobs : Lifecycle!End(j)
      BY <2>1, <3>2
    <3> QED BY <3>3 DEF Lifecycle!Next
  <2> QED BY <1>16, <2>2, <2>3 DEF Persist
<1>17. ASSUME NEW j \in Jobs, RecoverRow(j) PROVE Lifecycle!Next
  <2>1. Lifecycle!Requeue(j)
    BY <1>17 DEF RecoverRow, Endings, Lifecycle!Requeue, Lifecycle!To
  <2> QED BY <2>1 DEF Lifecycle!Next
<1>18. ASSUME NEW j \in Jobs, RecoverEnqueue(j) PROVE UNCHANGED <<status, Endings>>
  BY <1>18, <1>kinds, OtherEvents DEF RecoverEnqueue
<1>19. CASE Serve \/ Shutdown \/ Restart \/ UNCHANGED vars
  BY <1>19, <1>same DEF Serve, Shutdown, Restart, vars, store
<1> QED
  BY <1>1, <1>2, <1>3, <1>4, <1>5, <1>6, <1>7, <1>8, <1>9, <1>10, <1>11, <1>12, <1>13,
     <1>14, <1>15, <1>16, <1>17, <1>18, <1>19
  DEF Next, Request, SubmitStep, CancelStep, WorkerStep, Startup

\* The manager, with its threads, locks, queues and faults, implements the life
\* of a job that its clients are promised: one terminal event for every run that
\* ends and no step of a row that JobLifecycle does not have.
THEOREM RefinesLifecycle == Spec => ImplementsLifecycle
<1>1. Init => Lifecycle!Init
  BY DEF Init, NoEvents, EventKinds, Lifecycle!Init
<1>2. Typed /\ Owned /\ [Next]_vars => [Lifecycle!Next]_(Lifecycle!vars)
  BY LifecycleStep DEF Endings, Lifecycle!vars
<1> QED
  BY <1>1, <1>2, OwnedAlways, PTL DEF Spec, ImplementsLifecycle, Lifecycle!Spec

\* The abstract job keeps to one active job per key with every step it has.
LEMMA LifecycleKeepsKeys ==
    ASSUME status \in [Jobs -> Status], Lifecycle!OneActivePerKey, [Lifecycle!Next]_<<status, Endings>>
    PROVE  Lifecycle!OneActivePerKey'
<1> USE DEF Lifecycle!OneActivePerKey, Lifecycle!Active, Lifecycle!To
<1>1. CASE UNCHANGED status
  BY <1>1
<1>2. ASSUME NEW j \in Jobs, NEW s \in Status, status' = [status EXCEPT ![j] = s],
             s \in Lifecycle!Active => status[j] \in Lifecycle!Active \/ Lifecycle!KeyFree(j)
      PROVE  Lifecycle!OneActivePerKey'
  BY <1>2 DEF Lifecycle!KeyFree
<1>3. ASSUME NEW j \in Jobs, Lifecycle!Submit(j) \/ Lifecycle!Retry(j)
      PROVE  Lifecycle!OneActivePerKey'
  <2>1. "queued" \in Status /\ status' = [status EXCEPT ![j] = "queued"] /\ Lifecycle!KeyFree(j)
    BY <1>3 DEF Lifecycle!Submit, Lifecycle!Retry, Status, Active
  <2> QED BY <2>1, <1>2
<1>4. ASSUME NEW j \in Jobs, Lifecycle!Start(j) \/ Lifecycle!Requeue(j)
      PROVE  Lifecycle!OneActivePerKey'
  <2>1. PICK s \in {"queued", "running"} : status' = [status EXCEPT ![j] = s] /\ status[j] \in {"queued", "running"}
    BY <1>4 DEF Lifecycle!Start, Lifecycle!Requeue
  <2> QED BY <2>1, <1>2 DEF Status, Active
<1>5. ASSUME NEW j \in Jobs, Lifecycle!End(j) \/ Lifecycle!Delete(j)
      PROVE  Lifecycle!OneActivePerKey'
  <2>1. PICK s \in {"completed", "failed", "cancelled", "deleted"} : status' = [status EXCEPT ![j] = s]
    BY <1>5 DEF Lifecycle!End, Lifecycle!Delete, Lifecycle!Terminal
  <2> QED BY <2>1, <1>2 DEF Status, Terminal
<1> QED
  BY <1>1, <1>3, <1>4, <1>5 DEF Lifecycle!Next

\* What the refinement is good for: since the manager takes the abstract steps
\* only, no race of submissions, retries and recovery makes two jobs of one
\* canonical key active (submit.go's dedup, db's unique index).
THEOREM OneJobPerKey == Spec => []Lifecycle!OneActivePerKey
<1>1. Init => Lifecycle!OneActivePerKey
  BY DEF Init, Lifecycle!OneActivePerKey, Lifecycle!Active
<1>2. Typed /\ Owned /\ Lifecycle!OneActivePerKey /\ [Next]_vars => Lifecycle!OneActivePerKey'
  <2>1. Typed => status \in [Jobs -> Status]
    BY DEF Typed, TypeOK
  <2> QED BY <2>1, LifecycleStep, LifecycleKeepsKeys
<1> QED
  BY <1>1, <1>2, OwnedAlways, PTL DEF Spec

-----------------------------------------------------------------------------
(* What a completed job holds *)

\* From the tracks on a run that reports no error has finished everything it
\* synced, and a verdict of completed is over finished items alone.
RunItems ==
    \A w \in Workers :
        /\ wpc[w] = "tracks" => items[wjob[w]] \subseteq {"open", "done"} /\ items[wjob[w]] # {}
        /\ wpc[w] \in {"closing", "returned", "reload"} /\ result[w] = "ok" => items[wjob[w]] = {"done"}
        /\ wpc[w] = "persist" /\ outcome[w] = "completed" => items[wjob[w]] = {"done"}
Finished == RunItems /\ CompletedIsDone

LEMMA FinishedInit == Init => Finished
  BY DEF Init, Finished, RunItems, CompletedIsDone

AtWork == {"tracks", "closing", "returned", "reload", "persist"}

\* A step that leaves the items and the runs at work alone and completes nothing.
LEMMA FinishedFrame ==
    ASSUME Typed, Finished, items' = items,
           \A w \in Workers : wpc'[w] \in AtWork =>
               /\ wpc'[w] = wpc[w] /\ wjob'[w] = wjob[w]
               /\ result'[w] = result[w] /\ outcome'[w] = outcome[w],
           \A j \in Jobs : status'[j] = "completed" => status[j] = "completed"
    PROVE  Finished'
  BY DEF Finished, RunItems, CompletedIsDone, AtWork

\* A step that changes the items of a job nobody runs, and does not complete it.
LEMMA FinishedElsewhere ==
    ASSUME Typed, Finished, NEW j \in Jobs, NEW new,
           items' = [items EXCEPT ![j] = new], UNCHANGED worker,
           \A w \in Workers : wpc[w] \in AtWork => wjob[w] # j,
           \A k \in Jobs \ {j} : status'[k] = status[k],
           status'[j] # "completed"
    PROVE  Finished'
  BY DEF Finished, RunItems, CompletedIsDone, AtWork, Typed, TypeOK, ThreadsReady, worker

\* A run moves on, its row still running, the other runs being of other jobs.
LEMMA FinishedRuns ==
    ASSUME Typed, Owned, Finished, NEW w \in Workers, wpc[w] \in BeforePersist,
           \A v \in Workers \ {w} : /\ wpc'[v] = wpc[v] /\ wjob'[v] = wjob[v]
                                    /\ result'[v] = result[v] /\ outcome'[v] = outcome[v],
           \A k \in Jobs \ {wjob[w]} : items'[k] = items[k],
           wjob' = wjob, UNCHANGED status,
           RunItems => /\ wpc'[w] = "tracks" => items'[wjob[w]] \subseteq {"open", "done"} /\ items'[wjob[w]] # {}
                       /\ wpc'[w] \in {"closing", "returned", "reload"} /\ result'[w] = "ok"
                             => items'[wjob[w]] = {"done"}
                       /\ wpc'[w] = "persist" /\ outcome'[w] = "completed" => items'[wjob[w]] = {"done"}
    PROVE  Finished'
<1>1. status[wjob[w]] = "running" /\ wjob[w] \in Jobs
  BY DEF Owned, RunRows, Typed, TypeOK, ThreadsReady, BeforePersist, RunSteps
<1>2. \A v \in Workers \ {w} : wpc[v] \in AtWork => wjob[v] \in Jobs \ {wjob[w]}
  BY DEF Owned, CancelReachesRun, Typed, ThreadsReady, BeforePersist, RunSteps, WorkerSteps, AtWork
<1>3. RunItems'
  BY <1>2 DEF Finished, RunItems, AtWork
<1>4. CompletedIsDone'
  BY <1>1 DEF Finished, CompletedIsDone
<1> QED BY <1>3, <1>4 DEF Finished

\* Every step keeps what completed jobs, and runs about to complete one, hold.
LEMMA FinishedStep == Typed /\ Owned /\ Finished /\ [Next]_vars => Finished'
<1> SUFFICES ASSUME Typed, Owned, Finished, [Next]_vars PROVE Finished'
  OBVIOUS
<1>ty. /\ status \in [Jobs -> Status] /\ items \in [Jobs -> SUBSET ItemStates]
       /\ wpc \in [Workers -> WorkerSteps] /\ result \in [Workers -> {"ok", "error", "panic"}]
       /\ outcome \in [Workers -> {"none"} \cup Terminal]
       /\ wjob \in [Workers -> Jobs \cup {None}] /\ wctx \in [Workers -> {"live", "cancelled", "shutdown"}]
       /\ \A w \in Workers : wpc[w] # "idle" => wjob[w] \in Jobs
  BY DEF Typed, TypeOK, ThreadsReady
\* A run at work has a running row and a cancel entry.
<1>at. \A w \in Workers : wpc[w] \in AtWork =>
           wpc[w] \in BeforePersist /\ status[wjob[w]] = "running" /\ cancels[wjob[w]] # None
  BY ThreadsAssumption DEF Owned, RunRows, CancelReachesRun, AtWork, BeforePersist, RunSteps, WorkerSteps
<1>1. ASSUME NEW c \in Clients, NEW urls \in SUBSET Jobs, SubmitBegin(c, urls) PROVE Finished'
  BY <1>1, FinishedFrame DEF SubmitBegin, store, worker
<1>2. ASSUME NEW c \in Clients, SubmitLock(c) \/ SubmitDispatch(c) \/ SubmitEnqueue(c) \/ SubmitDone(c)
      PROVE  Finished'
  BY <1>2, FinishedFrame DEF SubmitLock, SubmitDispatch, SubmitEnqueue, SubmitDone, store, worker
<1>3. ASSUME NEW c \in Clients, NEW j \in Jobs, SubmitAdmit(c, j) \/ SubmitReject(c, j) PROVE Finished'
  BY <1>3, FinishedFrame DEF SubmitAdmit, SubmitReject, store, worker
<1>4. ASSUME NEW c \in Clients, SubmitCreate(c) PROVE Finished'
  <2>1. \A j \in Jobs : status'[j] = "completed" => status[j] = "completed"
    BY <1>4, <1>ty DEF SubmitCreate
  <2> QED BY <1>4, <2>1, FinishedFrame DEF SubmitCreate, worker
<1>5. ASSUME NEW c \in Clients, SubmitEvent(c) \/ CancelHooks(c) \/ CancelClear(c) PROVE Finished'
  BY <1>5, FinishedFrame DEF SubmitEvent, CancelHooks, CancelClear, store, worker
<1>6. ASSUME NEW j \in Jobs, CancelRunning(j) \/ HookEnds(j) PROVE Finished'
  BY <1>6, FinishedFrame DEF CancelRunning, HookEnds, store, worker
<1>7. ASSUME NEW c \in Clients, NEW j \in Jobs, CancelQueued(c, j) PROVE Finished'
  <2>1. cancels[j] = None /\ status[j] \in Active /\ items' = [items EXCEPT ![j] = CancelOpen(items[j])]
    BY <1>7 DEF CancelQueued, CancelsRow
  <2>2. status' = status \/ status' = [status EXCEPT ![j] = "cancelled"]
    BY <1>7 DEF CancelQueued
  <2>3. UNCHANGED worker
    BY <1>7 DEF CancelQueued
  <2>4. (\A k \in Jobs \ {j} : status'[k] = status[k]) /\ status'[j] # "completed"
    BY <2>1, <2>2, <1>ty DEF Active
  <2>5. \A w \in Workers : wpc[w] \in AtWork => wjob[w] # j
    BY <2>1, <1>at
  <2> QED BY <2>1, <2>3, <2>4, <2>5, FinishedElsewhere
<1>8. ASSUME NEW j \in Jobs, Retry(j) PROVE Finished'
  <2>1. status[j] \in {"failed", "cancelled"} /\ items' = [items EXCEPT ![j] = ResetUnfinished(items[j])]
    BY <1>8 DEF Retry, Retryable
  <2>2. status' = status \/ status' = [status EXCEPT ![j] = "queued"]
    BY <1>8 DEF Retry
  <2>3. UNCHANGED worker
    BY <1>8 DEF Retry
  <2>4. (\A k \in Jobs \ {j} : status'[k] = status[k]) /\ status'[j] # "completed"
    BY <2>1, <2>2, <1>ty
  <2>5. \A w \in Workers : wpc[w] \in AtWork => wjob[w] # j
    BY <2>1, <1>at
  <2> QED BY <2>1, <2>3, <2>4, <2>5, FinishedElsewhere
<1>9. ASSUME NEW j \in Jobs, Delete(j) PROVE Finished'
  <2>1. status[j] \in Terminal /\ items' = [items EXCEPT ![j] = {}] /\ UNCHANGED worker
    BY <1>9 DEF Delete, Deletable
  <2>2. (\A k \in Jobs \ {j} : status'[k] = status[k]) /\ status'[j] # "completed"
    BY <1>9, <1>ty DEF Delete
  <2>3. \A w \in Workers : wpc[w] \in AtWork => wjob[w] # j
    BY <2>1, <1>at DEF Terminal
  <2> QED BY <2>1, <2>2, <2>3, FinishedElsewhere
<1>10. ASSUME NEW w \in Workers, TakeRecovered(w) \/ TakeQueued(w) \/ ClaimNothing(w) PROVE Finished'
  BY <1>10, <1>ty, FinishedFrame DEF TakeRecovered, TakeQueued, ClaimNothing, AtWork, store
<1>11. ASSUME NEW w \in Workers, Claim(w) PROVE Finished'
  BY <1>11, <1>ty, FinishedFrame DEF Claim, AtWork
<1>12. ASSUME NEW w \in Workers, Started(w) \/ RunHooks(w) PROVE Finished'
  BY <1>12, <1>ty, FinishedFrame DEF Started, RunHooks, AtWork, store
<1>13. ASSUME NEW w \in Workers, Cleanup(w) PROVE Finished'
  BY <1>13, <1>ty, FinishedFrame DEF Cleanup, AtWork, store
<1> USE DEF BeforePersist, RunSteps, WorkerSteps
<1>14. ASSUME NEW w \in Workers, ProcessSync(w) PROVE Finished'
  <2>1. PICK kept \in SUBSET (items[wjob[w]] \cap {"done"}), fresh \in SUBSET {"open"} :
            kept \cup fresh # {} /\ items' = [items EXCEPT ![wjob[w]] = kept \cup fresh]
    BY <1>14 DEF ProcessSync
  <2>2. wpc[w] = "process" /\ wpc' = [wpc EXCEPT ![w] = "tracks"] /\ UNCHANGED <<status, wjob, result, outcome>>
    BY <1>14 DEF ProcessSync
  <2>3. items'[wjob[w]] = kept \cup fresh /\ \A k \in Jobs \ {wjob[w]} : items'[k] = items[k]
    BY <2>1, <2>2, <1>ty
  <2>4. items'[wjob[w]] \subseteq {"open", "done"} /\ items'[wjob[w]] # {}
    BY <2>1, <2>3
  <2>5. wpc'[w] = "tracks" /\ wpc[w] \in BeforePersist /\ \A v \in Workers \ {w} : wpc'[v] = wpc[v]
    BY <2>2, <1>ty
  <2> QED BY <2>2, <2>3, <2>4, <2>5, FinishedRuns
<1>15. ASSUME NEW w \in Workers, ProcessTracks(w) PROVE Finished'
  <2>1. /\ wpc[w] = "tracks" /\ wpc' = [wpc EXCEPT ![w] = "closing"] /\ UNCHANGED <<status, wjob, outcome>>
        /\ wjob[w] \in Jobs
    BY <1>15, <1>ty DEF ProcessTracks
  <2>2. items[wjob[w]] \subseteq {"open", "done"} /\ items[wjob[w]] # {}
    BY <2>1 DEF Finished, RunItems
  <2>3. PICK e \in SUBSET ItemStates :
           /\ e = {} => "open" \notin items[wjob[w]]
           /\ items' = [items EXCEPT ![wjob[w]] = (items[wjob[w]] \ {"open"}) \cup e]
           /\ result' = [result EXCEPT ![w] = IF e \subseteq {"done"} THEN "ok" ELSE "error"]
    BY <1>15 DEF ProcessTracks, ItemStates
  <2>4. items'[wjob[w]] = (items[wjob[w]] \ {"open"}) \cup e /\ \A k \in Jobs \ {wjob[w]} : items'[k] = items[k]
    BY <2>1, <2>3, <1>ty
  <2>5. result'[w] = "ok" => e \subseteq {"done"}
    BY <2>3, <1>ty
  <2>6. result'[w] = "ok" => items'[wjob[w]] = {"done"}
    BY <2>2, <2>3, <2>4, <2>5
  <2>7. \A v \in Workers \ {w} : result'[v] = result[v]
    BY <2>3, <1>ty
  <2> QED BY <2>1, <2>4, <2>6, <2>7, <1>ty, FinishedRuns
<1>16. ASSUME NEW w \in Workers, ProcessFails(w) \/ ProcessPanics(w) PROVE Finished'
  <2>1. /\ wpc[w] \in {"process", "tracks"} /\ wpc'[w] \in {"closing", "returned"} /\ result'[w] # "ok"
        /\ \A v \in Workers \ {w} : wpc'[v] = wpc[v] /\ result'[v] = result[v]
        /\ UNCHANGED <<items, status, wjob, outcome>>
    BY <1>16, <1>ty DEF ProcessFails, ProcessPanics, store
  <2> QED BY <2>1, FinishedRuns
<1>17. ASSUME NEW w \in Workers, ProcessCloses(w) PROVE Finished'
  <2>1. /\ wpc[w] = "closing" /\ wpc' = [wpc EXCEPT ![w] = "returned"] /\ UNCHANGED <<status, wjob, result, outcome>>
        /\ wjob[w] \in Jobs
        /\ items' = items \/ items' = [items EXCEPT ![wjob[w]] = CancelOpen(items[wjob[w]])]
    BY <1>17, <1>ty DEF ProcessCloses
  <2>2. \A k \in Jobs \ {wjob[w]} : items'[k] = items[k]
    BY <2>1, <1>ty
  <2>3. RunItems /\ result[w] = "ok" => items'[wjob[w]] = {"done"}
    BY <2>1, <1>ty DEF RunItems, CancelOpen
  <2> QED BY <2>1, <2>2, <2>3, <1>ty, FinishedRuns
<1>18. ASSUME NEW w \in Workers, CheckShutdown(w) PROVE Finished'
  <2>1. /\ wpc[w] = "returned" /\ wpc'[w] \in {"cleanup", "reload"}
        /\ \A v \in Workers \ {w} : wpc'[v] = wpc[v]
        /\ UNCHANGED <<items, status, wjob, result, outcome>>
    BY <1>18, <1>ty DEF CheckShutdown, store
  <2> QED BY <2>1, FinishedRuns DEF RunItems
<1>19. ASSUME NEW w \in Workers, Decide(w) PROVE Finished'
  <2>1. /\ wpc[w] = "reload" /\ wpc' = [wpc EXCEPT ![w] = "persist"]
        /\ UNCHANGED <<items, status, wjob, result>>
    BY <1>19 DEF Decide, store
  <2>2. /\ outcome'[w] = "completed" => result[w] = "ok"
        /\ \A v \in Workers \ {w} : outcome'[v] = outcome[v]
    BY <1>19, <1>ty DEF Decide, Verdict
  <2> QED BY <2>1, <2>2, <1>ty, FinishedRuns DEF RunItems
<1>20. ASSUME NEW w \in Workers, Persist(w) PROVE Finished'
  <2>1. /\ wpc[w] = "persist" /\ wjob[w] \in Jobs /\ wpc'[w] \notin AtWork
        /\ \A v \in Workers \ {w} : wpc'[v] = wpc[v]
        /\ UNCHANGED <<items, wjob, result, outcome>>
        /\ status' = status \/ status' = [status EXCEPT ![wjob[w]] = outcome[w]]
    BY <1>20, <1>ty DEF Persist, AtWork
  <2>2. RunItems'
    BY <2>1 DEF Finished, RunItems, AtWork
  <2>3. CompletedIsDone'
    BY <2>1, <1>ty DEF Finished, RunItems, CompletedIsDone
  <2> QED BY <2>2, <2>3 DEF Finished
<1>21. ASSUME NEW j \in Jobs, RecoverRow(j) PROVE Finished'
  <2>1. \A k \in Jobs : status'[k] = "completed" => status[k] = "completed"
    BY <1>21, <1>ty DEF RecoverRow
  <2> QED BY <1>21, <2>1, FinishedFrame DEF RecoverRow, worker
<1>22. ASSUME NEW j \in Jobs, RecoverEnqueue(j) PROVE Finished'
  BY <1>22, FinishedFrame DEF RecoverEnqueue, worker
<1>23. CASE Serve \/ Shutdown \/ UNCHANGED vars
  BY <1>23, FinishedFrame DEF Serve, Shutdown, vars, store, worker
<1>24. CASE Restart
  BY <1>24, FinishedFrame DEF Restart, store, AtWork
<1> QED
  BY <1>1, <1>2, <1>3, <1>4, <1>5, <1>6, <1>7, <1>8, <1>9, <1>10, <1>11, <1>12, <1>13,
     <1>14, <1>15, <1>16, <1>17, <1>18, <1>19, <1>20, <1>21, <1>22, <1>23, <1>24
  DEF Next, Request, SubmitStep, CancelStep, WorkerStep, Startup

\* A completed job holds finished items only, for any tracks, cancels, retries,
\* resumed runs and faults.
THEOREM CompletedJobsAreDone == Spec => []CompletedIsDone
<1>1. Init => Finished
  BY FinishedInit
<1>2. Typed /\ Owned /\ Finished /\ [Next]_vars => Finished'
  BY FinishedStep
<1>3. Finished => CompletedIsDone
  BY DEF Finished
<1> QED
  BY <1>1, <1>2, <1>3, OwnedAlways, PTL DEF Spec

=============================================================================

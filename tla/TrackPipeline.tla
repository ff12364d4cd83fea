--------------------------- MODULE TrackPipeline ---------------------------
(***************************************************************************)
(* The tracks of the running jobs (src/internal/media): each goes through  *)
(* its codecs, a fetch phase and a decrypt phase with retries of their own *)
(* for each, under the process-wide lock of its output path and the        *)
(* permits of the in-flight, download and decrypt pools, while jobs are    *)
(* cancelled and the process stops and starts again.                       *)
(*                                                                         *)
(* A semaphore is what PrioritySemaphore promises of it; metadata, covers  *)
(* and lyrics are steps that end or fail without a permit of their own and *)
(* are part of the step that follows them.                                 *)
(***************************************************************************)
EXTENDS Integers, FiniteSets

CONSTANTS
    Tracks,    \* the tracks of all jobs
    Jobs,
    JobOf,     \* [Tracks -> Jobs]
    Outputs,   \* canonical output paths
    None,
    Downloads, \* permits of downloadLimit
    Decrypts,  \* permits of decryptLimit
    Setups     \* bound: the settings to look at, see setup

ASSUME TracksAssumption == IsFiniteSet(Tracks) /\ JobOf \in [Tracks -> Jobs]
ASSUME PermitsAssumption == Downloads \in Nat \ {0} /\ Decrypts \in Nat \ {0}
ASSUME NoneAssumption == None \notin Outputs \cup Tracks

Codecs == {1, 2}
Steps == {"idle", "select", "enter", "wait", "claim", "flight", "slot", "transfer",
          "ready", "decrypt", "finalize", "commit", "copy", "chmod", "over"}
Pools == {"flight", "download", "decrypt"}
\* Entries of outputLockTable; one has a reference, so no more exist than tracks.
Entries == 1 .. Cardinality(Tracks)

SetupOK(s) ==
    /\ s.tracks \subseteq Tracks     \* the tracks there are
    /\ s.forced \subseteq Jobs       \* the jobs with force_overwrite
    /\ s.paths \in [Tracks -> [Codecs -> SUBSET Outputs]] \* by the quality the stream turns out to have
    /\ s.codecs \in Codecs           \* how many codecs are configured
    /\ s.attempts \in Nat \ {0}      \* download.max_attempts
    /\ s.hung \subseteq Tracks       \* tracks whose transfer may never end
    /\ s.panics \subseteq Steps      \* where a panic may strike
    /\ s.stops \subseteq {"cancel", "shutdown"}
    /\ s.restarts \in Nat            \* bound: restarts of the process
ASSUME SetupsAssumption == \A s \in Setups : SetupOK(s)

VARIABLES
    setup,   \* the settings of this behaviour, which nothing changes
    pc, codec, attempt, \* where each track is
    path,    \* codecAttempt.outPath, later the item's output path
    lease,   \* outputLease.key: the path whose lock the track holds, or None
    entry,   \* the lock entry the track holds or waits for, or 0
    table,   \* outputLockTable.entries: a path's entry, or 0
    token,   \* the entries whose token is in its channel
    refs,    \* outputLockEntry.refs
    permits, \* who holds a permit of each pool
    file,    \* the track whose complete, tagged audio is at a path, or None
    parts,   \* the tracks that have a staging file beside a path
    item,    \* the status of each track's item
    stop,    \* why each job's context ended: "none", "cancel" or "shutdown"
    cleared, \* paths a forced run has cleared and no run has completed since
    starts   \* starts of the process

lock == <<lease, entry, table, token, refs>>
disk == <<file, parts, cleared>>
world == <<setup, stop, starts>>
vars == <<setup, pc, codec, attempt, path, lease, entry, table, token, refs,
          permits, file, parts, item, stop, cleared, starts>>

TypeOK ==
    /\ setup \in Setups
    /\ pc \in [Tracks -> Steps] /\ codec \in [Tracks -> Codecs]
    /\ attempt \in [Tracks -> 1 .. setup.attempts]
    /\ path \in [Tracks -> Outputs \cup {None}] /\ lease \in [Tracks -> Outputs \cup {None}]
    /\ entry \in [Tracks -> Entries \cup {0}] /\ table \in [Outputs -> Entries \cup {0}]
    /\ token \subseteq Entries /\ refs \in [Entries -> 0 .. Cardinality(Tracks)]
    /\ permits \in [Pools -> SUBSET Tracks]
    /\ file \in [Outputs -> Tracks \cup {None}] /\ parts \in [Outputs -> SUBSET Tracks]
    /\ item \in [Tracks -> {"open", "completed", "skipped", "failed", "cancelled"}]
    /\ stop \in [Jobs -> {"none", "cancel", "shutdown"}]
    /\ cleared \subseteq Outputs /\ starts \in 0 .. setup.restarts

Init ==
    /\ setup \in Setups
    /\ pc = [t \in Tracks |-> IF t \in setup.tracks THEN "idle" ELSE "over"]
    /\ codec = [t \in Tracks |-> 1] /\ attempt = [t \in Tracks |-> 1]
    /\ path = [t \in Tracks |-> None] /\ lease = [t \in Tracks |-> None]
    /\ entry = [t \in Tracks |-> 0] /\ table = [p \in Outputs |-> 0]
    /\ token = {} /\ refs = [e \in Entries |-> 0]
    /\ permits = [l \in Pools |-> {}]
    /\ file = [p \in Outputs |-> None] /\ parts = [p \in Outputs |-> {}]
    /\ item = [t \in Tracks |-> IF t \in setup.tracks THEN "open" ELSE "cancelled"]
    /\ stop = [j \in Jobs |-> "none"] /\ cleared = {} /\ starts = 0

-----------------------------------------------------------------------------
(* The lock table and the pools *)

Stopped(t) == stop[JobOf[t]] # "none"
Forced(t) == JobOf[t] \in setup.forced
Goto(t, from, to) == pc[t] = from /\ pc' = [pc EXCEPT ![t] = to]

\* Mutant: whoever leaves takes the entry out of the table.
DropRefForAll(t) ==
    LET e == entry[t] IN
    /\ refs' = [refs EXCEPT ![e] = @ - 1]
    /\ table' = [p \in Outputs |-> IF table[p] = e THEN 0 ELSE table[p]]
    /\ entry' = [entry EXCEPT ![t] = 0]
\* dropRef: an entry nobody holds or waits for leaves the table.
DropRef(t) ==
    LET e == entry[t] IN
    /\ refs' = [refs EXCEPT ![e] = @ - 1]
    /\ table' = [p \in Outputs |-> IF table[p] = e /\ refs[e] = 1 THEN 0 ELSE table[p]]
    /\ entry' = [entry EXCEPT ![t] = 0]

\* outputLease.release, of a track that may also hold nothing, or only wait.
ReleaseLock(t) ==
    /\ IF entry[t] = 0 THEN UNCHANGED <<entry, table, refs>> ELSE DropRef(t)
    /\ token' = IF lease[t] = None THEN token ELSE token \cup {entry[t]}
    /\ lease' = [lease EXCEPT ![t] = None]

\* The in-flight ceiling is the sum of the two other pools.
Limit(l) == CASE l = "flight" -> Downloads + Decrypts
              [] l = "download" -> Downloads
              [] l = "decrypt" -> Decrypts
Acquire(t, l) ==
    /\ Cardinality(permits[l]) < Limit(l)
    /\ permits' = [permits EXCEPT ![l] = @ \cup {t}]
Release(t, ls) == permits' = [l \in Pools |-> IF l \in ls THEN permits[l] \ {t} ELSE permits[l]]

\* cleanupFailedOutput: the output, its staging files and its sidecars.
Discard(p) == file' = [file EXCEPT ![p] = None] /\ parts' = [parts EXCEPT ![p] = {}]

-----------------------------------------------------------------------------
(* The fetch phase *)

\* runTrackTasks starts no track once the job's context has ended.
Start(t) ==
    /\ ~Stopped(t) /\ Goto(t, "idle", "select")
    /\ UNCHANGED <<world, codec, attempt, path, lock, permits, disk, item>>

\* The stream is chosen and with it the output path; a lock held on this path
\* is kept, one held on another is given back first.
Select(t) ==
    \E p \in setup.paths[t][codec[t]] :
      /\ path' = [path EXCEPT ![t] = p]
      /\ \/ lease[t] = p /\ Goto(t, "select", "claim") /\ UNCHANGED lock
         \/ lease[t] # p /\ Goto(t, "select", "enter") /\ ReleaseLock(t)
      /\ UNCHANGED <<world, codec, attempt, permits, disk, item>>

\* acquireContext: join the path's entry, or make one with its token in it.
Enter(t) ==
    LET known == table[path[t]]
        e == IF known # 0 THEN known ELSE CHOOSE new \in Entries : refs[new] = 0
    IN  /\ Goto(t, "enter", "wait")
        /\ entry' = [entry EXCEPT ![t] = e]
        /\ table' = [table EXCEPT ![path[t]] = e]
        /\ refs' = [refs EXCEPT ![e] = @ + 1]
        /\ token' = IF known # 0 THEN token ELSE token \cup {e}
        /\ UNCHANGED <<world, codec, attempt, path, lease, permits, disk, item>>

TakeToken(t) ==
    /\ ~Stopped(t) /\ Goto(t, "wait", "claim")
    /\ entry[t] \in token /\ token' = token \ {entry[t]}
    /\ lease' = [lease EXCEPT ![t] = path[t]]
    /\ UNCHANGED <<world, codec, attempt, path, entry, table, refs, permits, disk, item>>

\* handleExistingOutput: whatever is at the path counts as done, unless the job
\* overwrites.
Skip(t) ==
    /\ Goto(t, "claim", "over")
    /\ ~Forced(t) /\ file[path[t]] # None
    /\ item' = [item EXCEPT ![t] = "skipped"]
    /\ ReleaseLock(t)
    /\ UNCHANGED <<world, codec, attempt, path, permits, disk>>
\* Mutant: the path is looked at before its lock is taken, when it was free.
ClaimUnseen(t) ==
    /\ Goto(t, "claim", "flight") /\ ~Forced(t)
    /\ UNCHANGED <<world, codec, attempt, path, lock, permits, disk, item>>
Claim(t) ==
    /\ Goto(t, "claim", "flight")
    /\ \/ /\ Forced(t) /\ Discard(path[t])
          /\ cleared' = cleared \cup {path[t]}
       \/ /\ ~Forced(t) /\ file[path[t]] = None
          /\ UNCHANGED disk
    /\ UNCHANGED <<world, codec, attempt, path, lock, permits, item>>

TakeFlight(t) ==
    /\ Goto(t, "flight", "slot") /\ Acquire(t, "flight")
    /\ UNCHANGED <<world, codec, attempt, path, lock, disk, item>>
TakeSlot(t) ==
    /\ Goto(t, "slot", "transfer") /\ Acquire(t, "download")
    /\ UNCHANGED <<world, codec, attempt, path, lock, disk, item>>
\* The media is in; the in-flight permit stays until it is decrypted.
Fetched(t) ==
    /\ Goto(t, "transfer", "ready") /\ Release(t, {"download"})
    /\ attempt' = [attempt EXCEPT ![t] = 1]
    /\ UNCHANGED <<world, codec, path, lock, disk, item>>

-----------------------------------------------------------------------------
(* The decrypt phase *)

TakeDecrypt(t) ==
    /\ Goto(t, "ready", "decrypt") /\ Acquire(t, "decrypt")
    /\ UNCHANGED <<world, codec, attempt, path, lock, disk, item>>
Decrypted(t) ==
    /\ Goto(t, "decrypt", "finalize") /\ Release(t, {"flight", "decrypt"})
    /\ UNCHANGED <<world, codec, attempt, path, lock, disk, item>>
\* Verified, its sidecars written, tagged.
Finalized(t) ==
    /\ Goto(t, "finalize", "commit")
    /\ UNCHANGED <<world, codec, attempt, path, lock, permits, disk, item>>

\* finalizeToOutput: a rename, or a copy through a staging file on the other
\* file system; then the mode.
Placed(t) == file' = [file EXCEPT ![path[t]] = t] /\ UNCHANGED cleared
Rename(t) ==
    /\ Goto(t, "commit", "chmod") /\ Placed(t)
    /\ UNCHANGED <<world, codec, attempt, path, lock, permits, parts, item>>
CopyStarts(t) ==
    /\ Goto(t, "commit", "copy")
    /\ parts' = [parts EXCEPT ![path[t]] = @ \cup {t}]
    /\ UNCHANGED <<world, codec, attempt, path, lock, permits, file, cleared, item>>
CopyEnds(t) ==
    /\ Goto(t, "copy", "chmod") /\ Placed(t)
    /\ parts' = [parts EXCEPT ![path[t]] = @ \ {t}]
    /\ UNCHANGED <<world, codec, attempt, path, lock, permits, item>>

\* The item's terminal state, written even when the context has ended, and
\* after it the lock.
Complete(t) ==
    /\ Goto(t, "chmod", "over")
    /\ item' = [item EXCEPT ![t] = "completed"]
    /\ cleared' = cleared \ {path[t]}
    /\ ReleaseLock(t) /\ Release(t, Pools)
    /\ UNCHANGED <<world, codec, attempt, path, file, parts>>

-----------------------------------------------------------------------------
(* Failures *)

Waits == {"enter", "wait", "flight", "slot"}
Fetches == {"select", "claim", "flight", "transfer"}
Decrypting == {"ready", "decrypt", "finalize", "commit", "copy", "chmod"}

\* What the track's own status says of a run that ends without an output.
Ended(t) == IF stop[JobOf[t]] = "none" THEN "failed"
            ELSE IF stop[JobOf[t]] = "cancel" THEN "cancelled" ELSE item[t]

\* Mutant: the wait for the token of a lock does not look at the context.
HaltButForLock(t) ==
    /\ Stopped(t) /\ pc[t] \in (Waits \cup Fetches \cup Decrypting) \ {"claim", "wait"}
    /\ pc' = [pc EXCEPT ![t] = "over"]
    /\ item' = [item EXCEPT ![t] = Ended(t)]
    /\ parts' = IF pc[t] = "copy" THEN [parts EXCEPT ![path[t]] = @ \ {t}] ELSE parts
    /\ ReleaseLock(t) /\ Release(t, Pools)
    /\ UNCHANGED <<world, codec, attempt, path, file, cleared>>
\* A dead context ends the wait or the operation, the codec and the run, and
\* nothing is cleaned up but copyIntoPlace's own staging file.
Halt(t) ==
    /\ Stopped(t) /\ pc[t] \in (Waits \cup Fetches \cup Decrypting) \ {"claim"}
    /\ pc' = [pc EXCEPT ![t] = "over"]
    /\ item' = [item EXCEPT ![t] = Ended(t)]
    /\ parts' = IF pc[t] = "copy" THEN [parts EXCEPT ![path[t]] = @ \ {t}] ELSE parts
    /\ ReleaseLock(t) /\ Release(t, Pools)
    /\ UNCHANGED <<world, codec, attempt, path, file, cleared>>

\* discardFailedOutput, under the lock, of the path the attempt got as far as.
DiscardFailed(t) ==
    /\ UNCHANGED cleared
    /\ IF lease[t] # None /\ path[t] # None THEN Discard(path[t]) ELSE UNCHANGED <<file, parts>>

\* An attempt fails and its phase is tried again: the fetch phase from the
\* choice of the stream, the decrypt phase with the media it has.
Retry(t) ==
    /\ ~Stopped(t) /\ pc[t] \in (Fetches \ {"claim", "flight"}) \cup Decrypting
    /\ attempt[t] < setup.attempts /\ attempt' = [attempt EXCEPT ![t] = @ + 1]
    /\ pc' = [pc EXCEPT ![t] = IF @ \in Decrypting THEN "ready" ELSE "select"]
    /\ Release(t, IF pc[t] \in Decrypting THEN {"decrypt"} ELSE Pools)
    /\ DiscardFailed(t)
    /\ UNCHANGED <<world, codec, path, lock, item>>

\* Attempts are exhausted or the error allows no other: the codec is given up,
\* the next one starts, and after the last the item has failed.
GiveUp(t) ==
    /\ ~Stopped(t) /\ pc[t] \in (Fetches \ {"claim", "flight"}) \cup Decrypting
    /\ DiscardFailed(t)
    /\ ReleaseLock(t) /\ Release(t, Pools)
    /\ attempt' = [attempt EXCEPT ![t] = 1]
    /\ \/ /\ codec[t] < setup.codecs /\ codec' = [codec EXCEPT ![t] = @ + 1]
          /\ pc' = [pc EXCEPT ![t] = "select"] /\ path' = [path EXCEPT ![t] = None]
          /\ UNCHANGED item
       \/ /\ codec[t] = setup.codecs /\ pc' = [pc EXCEPT ![t] = "over"]
          /\ item' = [item EXCEPT ![t] = Ended(t)]
          /\ UNCHANGED <<codec, path>>
    /\ UNCHANGED world

\* A panic fails the item. What is deferred is released on the way up: the lock,
\* the download and decrypt permits, and the in-flight permit once the attempt
\* has it, which is when the transfer has returned.
Panic(t) ==
    /\ pc[t] \in setup.panics /\ pc' = [pc EXCEPT ![t] = "over"]
    /\ item' = [item EXCEPT ![t] = Ended(t)]
    /\ ReleaseLock(t)
    /\ Release(t, IF pc[t] = "transfer" THEN {"download"} ELSE Pools)
    /\ UNCHANGED <<world, codec, attempt, path, disk>>

-----------------------------------------------------------------------------
(* Jobs and the process *)

\* A job's context ends when it is cancelled, every job's when the process stops.
Cancel(j) ==
    /\ "cancel" \in setup.stops /\ stop[j] = "none"
    /\ stop' = [stop EXCEPT ![j] = "cancel"]
    /\ UNCHANGED <<setup, starts, pc, codec, attempt, path, lock, permits, disk, item>>
Shutdown ==
    /\ "shutdown" \in setup.stops /\ \E j \in Jobs : stop[j] = "none"
    /\ stop' = [j \in Jobs |-> IF stop[j] = "none" THEN "shutdown" ELSE stop[j]]
    /\ UNCHANGED <<setup, starts, pc, codec, attempt, path, lock, permits, disk, item>>

\* ProcessJob closes the items a cancelled job left, when its runs have ended.
CloseJob(j) ==
    /\ stop[j] = "cancel"
    /\ \A t \in Tracks : JobOf[t] = j => pc[t] \in {"idle", "over"}
    /\ \E t \in Tracks : JobOf[t] = j /\ item[t] = "open"
    /\ item' = [t \in Tracks |-> IF JobOf[t] = j /\ item[t] = "open" THEN "cancelled" ELSE item[t]]
    /\ pc' = [t \in Tracks |-> IF JobOf[t] = j THEN "over" ELSE pc[t]]
    /\ UNCHANGED <<world, codec, attempt, path, lock, permits, disk>>

\* The process dies, or has stopped, and starts again: recovery runs the items
\* that have no terminal state, of the jobs whose rows are still running.
Restart ==
    /\ starts < setup.restarts /\ starts' = starts + 1
    /\ pc' = [t \in Tracks |-> IF item[t] = "open" THEN "idle" ELSE "over"]
    /\ codec' = [t \in Tracks |-> IF item[t] = "open" THEN 1 ELSE codec[t]]
    /\ path' = [t \in Tracks |-> IF item[t] = "open" THEN None ELSE path[t]]
    /\ attempt' = [t \in Tracks |-> 1]
    /\ lease' = [t \in Tracks |-> None] /\ entry' = [t \in Tracks |-> 0]
    /\ table' = [p \in Outputs |-> 0] /\ token' = {} /\ refs' = [e \in Entries |-> 0]
    /\ permits' = [l \in Pools |-> {}]
    /\ stop' = [j \in Jobs |-> "none"]
    /\ UNCHANGED <<setup, disk, item>>

Moves(t) ==
    \/ Start(t) \/ Select(t) \/ Enter(t) \/ TakeToken(t) \/ Skip(t) \/ Claim(t)
    \/ TakeFlight(t) \/ TakeSlot(t) \/ TakeDecrypt(t) \/ Decrypted(t) \/ Finalized(t)
    \/ Rename(t) \/ CopyStarts(t) \/ CopyEnds(t) \/ Complete(t) \/ Halt(t)
Fails(t) == Retry(t) \/ GiveUp(t) \/ Panic(t)
Next ==
    \/ \E t \in Tracks : Moves(t) \/ Fetched(t) \/ Fails(t)
    \/ \E j \in Jobs : Cancel(j) \/ CloseJob(j)
    \/ Shutdown \/ Restart

Spec == Init /\ [][Next]_vars
\* Every goroutine goes on, and a transfer that does not hang ends.
Fairness ==
    /\ \A t \in Tracks : WF_vars(Moves(t)) /\ WF_vars(t \notin setup.hung /\ Fetched(t))
    /\ \A j \in Jobs : WF_vars(CloseJob(j))
FairSpec == Spec /\ Fairness

-----------------------------------------------------------------------------
(* Properties *)

\* Between its claim and its end a track holds the lock of the path it checks,
\* clears and writes, and nobody else does: an entry never leaves the table
\* while somebody holds it or waits for it, a path never has two, and one that
\* nobody needs is gone.
OutputsSerialized ==
    /\ \A t \in Tracks :
         pc[t] \notin {"idle", "select", "enter", "wait", "over"} => lease[t] = path[t] /\ path[t] # None
    /\ \A t, u \in Tracks : lease[t] # None /\ lease[t] = lease[u] => t = u
    /\ \A t \in Tracks : pc[t] = "wait" => table[path[t]] = entry[t]
    /\ \A p \in Outputs : table[p] # 0 => \E t \in Tracks : entry[t] = table[p]

\* An item that says completed or skipped has its file, whoever else aimed at
\* the path, whatever failed, was cancelled or restarted since, unless a job
\* that overwrites has cleared the path.
DoneKeepsFile ==
    \A t \in setup.tracks : item[t] \in {"completed", "skipped"} =>
        file[path[t]] # None \/ path[t] \in cleared

\* What the output locks are for: one writer at a time, and no file lost.
OutputsHold == OutputsSerialized /\ DoneKeepsFile

\* A run that is over holds no permit of a pool that other jobs need.
PermitsReturned ==
    \A t \in Tracks, l \in Pools : pc[t] = "over" => t \notin permits[l]

\* A track whose job is cancelled ends, even behind a track that hangs with the
\* lock or the last permit it waits for; and where no transfer hangs every
\* track ends, so no order of locks and permits makes tracks wait for each
\* other.
TracksEnd ==
    \A t \in Tracks :
      /\ (stop[JobOf[t]] = "cancel") ~> (pc[t] = "over" \/ stop[JobOf[t]] = "none")
      /\ (setup.hung = {} /\ pc[t] # "idle") ~> (pc[t] = "over" \/ Stopped(t))

\* The tracks use each pool as PrioritySemaphore implements one (ImplementsPool),
\* so that its queue and its ranks are left out of this module.
Pool(l) == INSTANCE PermitPool WITH Users <- Tracks, Permits <- Limit(l), held <- permits[l]
=============================================================================

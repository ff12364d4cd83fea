-------------------------- MODULE MCJobEventStream --------------------------
(* Instances of JobEventStream and HookDispatcher for TLC: what follows a job, *)
(* and the hooks of it. They share no state: a behaviour is of one of them.    *)
EXTENDS JobEventStream, HookDispatcher
CONSTANTS f1, h1, h2, j1, j2

NoHooks == [queued |-> 0, ended |-> 0]
QueuedHook == [queued |-> 1, ended |-> 0]
EndedHook == [queued |-> 0, ended |-> 1]

\* The job is retried, its submission still under way.
Retried == [fromStart |-> {}, stopAtTerminal |-> {}, hooksOn |-> NoHooks, faults |-> {},
            fromInsert |-> TRUE, retries |-> 1, cuts |-> 0]
\* A hook outlasts the run, and the connection breaks or the server ends the stream.
Outlasted == [Retried EXCEPT !.hooksOn = EndedHook, !.fromInsert = FALSE, !.retries = 0,
                             !.cuts = 1]
\* A cancel may overtake the submission and its hooks, whose events may be lost.
Cancelled == [Retried EXCEPT !.hooksOn = QueuedHook, !.faults = {"record"}, !.retries = 0]
\* The follower replays the history and stops at the terminal event, over
\* reads that fail: of a retried job, and of one with a hook, where the server
\* may end the stream in the middle of the replay.
Replayed == [Retried EXCEPT !.fromStart = {f1}, !.stopAtTerminal = {f1}, !.faults = {"read"},
                            !.fromInsert = FALSE]
ReplayedHook == [Replayed EXCEPT !.hooksOn = EndedHook, !.retries = 0, !.cuts = 1]
MCSetups == {Retried, Outlasted, Cancelled, Replayed, ReplayedHook}

VARIABLE part

all == <<part, vars, hooksVars>>
FollowStep(A) == part = "follow" /\ A /\ UNCHANGED <<part, hooksVars>>
HooksStep(A) == part = "hooks" /\ A /\ UNCHANGED <<part, vars>>

\* The part that does not move has one initial state.
StreamsInit ==
    /\ part \in {"follow", "hooks"} /\ Init /\ HooksInit
    /\ part = "follow" \/ setup = Retried
StreamsNext == FollowStep(Next) \/ HooksStep(HooksNext)
\* The fairness of the two modules' FairSpec and HooksFairSpec.
StreamsFairness ==
    /\ WF_all(FollowStep(Submit)) /\ WF_all(FollowStep(Claim)) /\ WF_all(FollowStep(Owner))
    /\ WF_all(FollowStep(LateWake)) /\ WF_all(FollowStep(RetryEvent \/ RetryPublish))
    /\ \A k \in {"queued", "ended"} : WF_all(FollowStep(Hook(k)))
    /\ \A f \in Followers : WF_all(FollowStep(Detail(f))) /\ WF_all(FollowStep(Handler(f)))
    /\ \A h \in Hooks : WF_all(HooksStep(ExecuteStep(h))) /\ SF_all(HooksStep(TakeSlot(h)))
    /\ WF_all(HooksStep(StopRetries \/ WaitGroupEmpty \/ ShutdownReturns))
StreamsSpec == StreamsInit /\ [][StreamsNext]_all /\ StreamsFairness

\* Whoever waits for the end of something gets it: every follower returns, and a
\* shutdown of the hooks is over.
WaitsEnd == FollowEnds /\ ShutdownEnds
=============================================================================

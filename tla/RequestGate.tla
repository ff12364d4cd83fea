---------------------------- MODULE RequestGate ----------------------------
(***************************************************************************)
(* limits.RequestGate (src/internal/limits/request_gate.go): every request *)
(* to Apple passes a shared cooldown, a permit of the ranked semaphore     *)
(* and, for the rate-limited endpoints, a token bucket; a 429 pauses every *)
(* caller and is retried once. The permit stays with the response until    *)
(* its body is closed.                                                     *)
(*                                                                         *)
(* The permits are those of PrioritySemaphore, whose actions the gate's    *)
(* actions conjoin: a caller at "slot" is inside the semaphore's Acquire,  *)
(* and past its admission once the semaphore says "held". Time is counted  *)
(* in ticks and kept as what is left of each timer.                        *)
(***************************************************************************)
EXTENDS PrioritySemaphore

CONSTANTS
    RateLimited, \* the callers of a rate-limited endpoint
    Impatient,   \* the callers whose context may end
    Burst,       \* size of the token bucket, refilled by one each tick
    MaxCooldown, \* ticks, 60 s in the code
    Throttled,   \* the callers Apple may answer with a 429
    Delays       \* what its Retry-After may ask for, in ticks

ASSUME GateCallersAssumption == RateLimited \cup Impatient \cup Throttled \subseteq Callers
ASSUME GateLimitsAssumption == Burst \in Nat \ {0} /\ MaxCooldown \in Nat
ASSUME DelaysAssumption == Delays \subseteq Nat

VARIABLES
    at,       \* where each DoWith429Retry call is
    attempt,  \* the attempt of its loop
    tokens,   \* the token bucket
    cooldown, \* ticks until cooldownUntil
    timer,    \* ticks until a sleeping caller's timer fires
    owed,     \* history: ticks left of the delay each caller's own 429 asked for
    escaped   \* history: the callers whose requests started during this cooldown

history == <<owed, escaped>>
gateVars == <<at, attempt, tokens, cooldown, timer, history, vars>>

GateSteps == {"look", "sleep", "slot", "token", "admitToken", "start",
              "request", "answer429", "close", "body", "done"}
\* The steps at which a caller has been handed its permit and kept it.
Holding == {"token", "admitToken", "start", "request", "answer429", "close", "body"}

GateTypeOK ==
    /\ TypeOK
    /\ at \in [Callers -> GateSteps] /\ attempt \in [Callers -> {0, 1}]
    /\ tokens \in 0 .. Burst /\ cooldown \in 0 .. MaxCooldown
    /\ timer \in [Callers -> 0 .. MaxCooldown] /\ owed \in [Callers -> 0 .. MaxCooldown]
    /\ escaped \subseteq Callers

GateInit ==
    /\ Init
    /\ at = [c \in Callers |-> "look"] /\ attempt = [c \in Callers |-> 0]
    /\ tokens = Burst /\ cooldown = 0 /\ timer = [c \in Callers |-> 0]
    /\ owed = [c \in Callers |-> 0] /\ escaped = {}

Goto(c, from, to) == at[c] = from /\ at' = [at EXCEPT ![c] = to]
CoolingDown == cooldown > 0

\* waitCooldown reads the deadline, then sleeps without looking at it again
\* until the timer fires or the context ends.
CooldownOver(c) ==
    /\ ~CoolingDown /\ Goto(c, "look", "slot")
    /\ UNCHANGED <<attempt, tokens, cooldown, timer, history, vars>>
Sleep(c) ==
    /\ CoolingDown /\ Goto(c, "look", "sleep")
    /\ timer' = [timer EXCEPT ![c] = cooldown]
    /\ UNCHANGED <<attempt, tokens, cooldown, history, vars>>
Wake(c) ==
    /\ \/ timer[c] = 0 /\ Goto(c, "sleep", "look")
       \/ c \in ended /\ Goto(c, "sleep", "done")
    /\ UNCHANGED <<attempt, tokens, cooldown, timer, history, vars>>

\* The semaphore's Acquire: entered with a live context, and left with the
\* permit or, once the context has ended, without it.
Acquire(c) ==
    /\ at[c] = "slot" /\ (AcquireNow(c) \/ Enqueue(c))
    /\ UNCHANGED <<at, attempt, tokens, cooldown, timer, history>>
Await(c) == Moves(c) /\ UNCHANGED <<at, attempt, tokens, cooldown, timer, history>>
Refused(c) ==
    /\ c \in ended /\ pc[c] = "idle" /\ Goto(c, "slot", "done")
    /\ UNCHANGED <<attempt, tokens, cooldown, timer, history, vars>>

\* Mutant: the permit is kept through the new cooldown.
PenalizedKeeps(c, from) ==
    /\ CoolingDown /\ Goto(c, from, "sleep")
    /\ UNCHANGED <<attempt, tokens, cooldown, timer, history, vars>>
\* A 429 came while the caller waited: back to the cooldown without the permit.
Penalized(c, from) ==
    /\ CoolingDown /\ Goto(c, from, "look") /\ Release(c)
    /\ UNCHANGED <<attempt, tokens, cooldown, timer, history>>
\* Mutant: the cooldown is not looked at again once the permit is there.
AdmitUnchecked(c) ==
    /\ pc[c] = "held" /\ Goto(c, "slot", IF c \in RateLimited THEN "token" ELSE "start")
    /\ UNCHANGED <<attempt, tokens, cooldown, timer, history, vars>>
Admit(c) ==
    /\ pc[c] = "held"
    /\ \/ Penalized(c, "slot")
       \/ /\ ~CoolingDown
          /\ Goto(c, "slot", IF c \in RateLimited THEN "token" ELSE "start")
          /\ UNCHANGED <<attempt, tokens, cooldown, timer, history, vars>>
\* The token is waited for with the permit held.
TakeToken(c) ==
    /\ tokens > 0 /\ tokens' = tokens - 1 /\ Goto(c, "token", "admitToken")
    /\ UNCHANGED <<attempt, cooldown, timer, history, vars>>
TokenRefused(c) ==
    /\ c \in ended /\ Goto(c, "token", "done") /\ Release(c)
    /\ UNCHANGED <<attempt, tokens, cooldown, timer, history>>
AdmitToken(c) ==
    \/ Penalized(c, "admitToken")
    \/ /\ ~CoolingDown /\ Goto(c, "admitToken", "start")
       /\ UNCHANGED <<attempt, tokens, cooldown, timer, history, vars>>

\* Do: Acquire has returned, its look at the cooldown is over and cooldownMu is
\* free; a 429 that comes before client.Do is not seen any more.
StartRequest(c) ==
    /\ Goto(c, "start", "request")
    /\ escaped' = IF CoolingDown THEN escaped \cup {c} ELSE escaped
    /\ UNCHANGED <<attempt, tokens, cooldown, timer, owed, vars>>
\* The response, or a transport error that releases at once.
Respond(c) ==
    /\ \/ Goto(c, "request", "body")
       \/ c \in Throttled /\ Goto(c, "request", "answer429")
    /\ UNCHANGED <<attempt, tokens, cooldown, timer, history, vars>>
TransportFails(c) ==
    /\ Goto(c, "request", "done") /\ Release(c)
    /\ UNCHANGED <<attempt, tokens, cooldown, timer, history>>

\* The cooldown a Retry-After of delay asks for.
Capped(delay) == IF delay > MaxCooldown THEN MaxCooldown ELSE delay
\* Penalize: a shorter penalty never reduces a longer one. The second 429 is
\* the caller's answer; the first is closed before the retry waits.
Penalize(c) ==
    /\ \E delay \in Delays :
         /\ cooldown' = IF Capped(delay) > cooldown THEN Capped(delay) ELSE cooldown
         /\ owed' = [owed EXCEPT ![c] = IF attempt[c] = 1 THEN @ ELSE Capped(delay)]
    /\ Goto(c, "answer429", IF attempt[c] = 1 THEN "body" ELSE "close")
    /\ UNCHANGED <<attempt, tokens, timer, escaped, vars>>
CloseAndRetry(c) ==
    /\ Goto(c, "close", "look") /\ Release(c)
    /\ attempt' = [attempt EXCEPT ![c] = 1]
    /\ UNCHANGED <<tokens, cooldown, timer, history>>
\* releaseOnClose.Close, when the caller has read the body.
CloseBody(c) ==
    /\ Goto(c, "body", "done") /\ Release(c)
    /\ UNCHANGED <<attempt, tokens, cooldown, timer, history>>

\* The caller's context ends, wherever the call is.
ContextEnds(c) ==
    /\ c \in Impatient /\ at[c] # "done" /\ CancelContext(c)
    /\ UNCHANGED <<at, attempt, tokens, cooldown, timer, history>>

Tick ==
    /\ cooldown' = IF cooldown > 0 THEN cooldown - 1 ELSE 0
    /\ timer' = [c \in Callers |-> IF timer[c] > 0 THEN timer[c] - 1 ELSE 0]
    /\ tokens' = IF tokens < Burst THEN tokens + 1 ELSE tokens
    /\ owed' = [c \in Callers |-> IF owed[c] > 0 THEN owed[c] - 1 ELSE 0]
    /\ escaped' = IF cooldown > 1 THEN escaped ELSE {}
    /\ UNCHANGED <<at, attempt, vars>>

Runs(c) ==
    \/ CooldownOver(c) \/ Sleep(c) \/ Wake(c) \/ Acquire(c) \/ Await(c) \/ Refused(c) \/ Admit(c)
    \/ TakeToken(c) \/ TokenRefused(c) \/ AdmitToken(c) \/ StartRequest(c) \/ Respond(c)
    \/ TransportFails(c) \/ Penalize(c) \/ CloseAndRetry(c) \/ CloseBody(c)
GateNext == Tick \/ \E c \in Callers : Runs(c) \/ ContextEnds(c)

\* Goroutines run, upstreams answer, bodies are closed, time passes.
GateFairness ==
    /\ WF_gateVars(Tick)
    /\ \A c \in Callers : WF_gateVars(Runs(c))
GateSpec == GateInit /\ [][GateNext]_gateVars /\ GateFairness

-----------------------------------------------------------------------------
(* Properties *)

\* A caller past its admission holds its permit, and one that is not inside
\* the semaphore holds none: a retried or refused caller keeps nothing.
PermitFollowsCall ==
    \A c \in Callers :
        /\ at[c] \in Holding => pc[c] = "held"
        /\ at[c] \notin Holding \cup {"slot"} => pc[c] = "idle"

\* A 429 counts for everybody: a retry is not made before the delay (or the cap)
\* its own 429 asked for is over, whatever shorter delays others are told
\* meanwhile (Penalize);
RetriesWait ==
    \A c \in Callers : at[c] \in {"start", "request"} /\ attempt[c] = 1 => owed[c] = 0
\* and while the cooldown lasts fewer requests than there are permits still start:
\* those past their last look at it when it began, beside the one that was
\* answered 429, and none that waited for its permit or its token
\* (request_gate.go:67-72, 79-82). With one permit, none.
FewEscape == Cardinality(escaped) < Capacity
PenaltiesHold == RetriesWait /\ FewEscape

\* Every call ends, with one permit for everybody and 429 after 429: a caller
\* that retries waits without the permit its own retry needs, and the ranks of
\* the others hold it up only while they have requests to make.
CallsEnd == <>(\A c \in Callers : at[c] = "done")
=============================================================================

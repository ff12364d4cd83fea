-------------------------- MODULE RequestGateProofs --------------------------
(***************************************************************************)
(* What holds for any finite set of callers, any ranks, limit, cap and     *)
(* delays. The semaphore never loses nor makes up a permit, stays within   *)
(* its limit, and keeps no permit while somebody waits for one; the        *)
(* invariant that carries it adds to these three that the heap holds       *)
(* waiting callers only. Nobody overtakes a waiter before it. The gate      *)
(* uses its semaphore as the semaphore expects, so all of that holds of    *)
(* the gate's permits too; a call that is not in flight keeps no permit; a *)
(* 429 holds back its own retry and all but the requests past their look.  *)
(***************************************************************************)
EXTENDS RequestGate, FiniteSetTheorems, TLAPS

-----------------------------------------------------------------------------
(* The semaphore *)

IInv == TypeOK /\ WaitersWait /\ PermitsAccounted /\ WithinLimit /\ NoIdleCapacity

\* Capacity is a positive number whatever the limit.
LEMMA CapacityPositive == Capacity \in Nat /\ Capacity > 0
BY LimitAssumption DEF Capacity

\* The holders are a finite set.
LEMMA HoldersFinite ==
    IsFiniteSet(Holders) /\ Cardinality(Holders) \in Nat
<1>1. Holders \subseteq Callers BY DEF Holders
<1> QED BY <1>1, CallersAssumption, FS_Subset, FS_CardinalityType

\* The heap is a finite set of callers.
LEMMA WaitersFinite == ASSUME TypeOK PROVE Cardinality(waiters) \in Nat
BY CallersAssumption, FS_Subset, FS_CardinalityType DEF TypeOK

\* A waiter that leaves moves the others up to places that exist.
LEMMA LeaveKeepsTickets ==
    ASSUME TypeOK, NEW w \in waiters, Leave(w)
    PROVE  ticket' \in [Callers -> Nat] /\ ahead' \in [Callers -> SUBSET Callers]
<1>1. \A d \in Callers : ticket[d] \in Nat BY DEF TypeOK
<1>2. w \in Callers /\ ticket[w] \in Nat BY <1>1 DEF TypeOK
<1>3. \A d \in Callers : ticket[d] > ticket[w] => ticket[d] - 1 \in Nat BY <1>1, <1>2
<1>4. ahead' \in [Callers -> SUBSET Callers] BY DEF Leave, TypeOK
<1> QED BY <1>1, <1>3, <1>4 DEF Leave

\* The permits are free, and nobody waits, at the start.
LEMMA InitIInv == Init => IInv
<1> SUFFICES ASSUME Init PROVE IInv OBVIOUS
<1>1. TypeOK BY DEF Init, TypeOK, Steps
<1>2. WaitersWait BY DEF Init, WaitersWait
<1>3. Holders = {} BY DEF Init, Holders, Granted
<1>4. PermitsAccounted BY <1>3, FS_EmptySet DEF Init, PermitsAccounted
<1>5. WithinLimit BY CapacityPositive DEF Init, WithinLimit
<1>6. NoIdleCapacity BY DEF Init, NoIdleCapacity
<1> QED BY <1>1, <1>2, <1>4, <1>5, <1>6 DEF IInv

\* A step that hands no permit out and takes none back keeps the holders.
LEMMA SameHolders ==
    ASSUME IInv, NEW c \in Callers, Enqueue(c) \/ Take(c) \/ Drop(c) \/ Abandon(c) \/ CancelContext(c)
    PROVE  Holders' = Holders /\ inUse' = inUse
<1> USE DEF IInv, TypeOK, Holders, Granted, WaitersWait, Steps
<1>1. CASE Enqueue(c) BY <1>1 DEF Enqueue
<1>2. CASE Take(c) BY <1>2 DEF Take
<1>3. CASE Drop(c) BY <1>3 DEF Drop
<1>4. CASE Abandon(c) BY <1>4 DEF Abandon, Leave
<1>5. CASE CancelContext(c) BY <1>5 DEF CancelContext
<1> QED BY <1>1, <1>2, <1>3, <1>4, <1>5

\* releaseLocked by a holder: its permit goes to one waiter, or is free again.
LEMMA ReleaseHandsOver ==
    ASSUME IInv, NEW c \in Callers, Release(c) \/ GiveBack(c)
    PROVE  IInv'
<1> USE DEF IInv
<1>1. c \in Holders /\ c \notin waiters /\ pc' = [pc EXCEPT ![c] = "idle"] /\ ReleaseLocked
  BY DEF Release, GiveBack, Holders, Granted, WaitersWait
<1>2. UNCHANGED ended BY DEF Release, GiveBack
<1>3. inUse > 0
  BY <1>1, HoldersFinite, FS_EmptySet DEF PermitsAccounted
<1>4. CASE waiters = {} /\ inUse' = inUse - 1 /\ UNCHANGED <<waiters, ticket, ahead>>
  <2>1. TypeOK' BY <1>1, <1>2, <1>3, <1>4 DEF TypeOK, Steps
  <2>2. Holders' = Holders \ {c} BY <1>1, <1>4 DEF Holders, Granted, TypeOK
  <2>3. Cardinality(Holders') = inUse - 1
    BY <1>1, <2>2, HoldersFinite, FS_RemoveElement DEF PermitsAccounted
  <2>4. WithinLimit' BY <1>4, CapacityPositive DEF WithinLimit, TypeOK
  <2> QED BY <1>4, <2>1, <2>3, <2>4 DEF PermitsAccounted, NoIdleCapacity, WaitersWait
<1>5. CASE \E w \in waiters : First(w) /\ Leave(w) /\ UNCHANGED inUse
  <2>1. PICK w \in waiters : Leave(w) /\ waiters' = waiters \ {w} /\ UNCHANGED inUse BY <1>5 DEF Leave
  <2>2. w # c /\ w \in Callers /\ pc[w] \in {"queued", "dropping"} /\ w \notin Holders
    BY <1>1, <2>1 DEF WaitersWait, TypeOK, Holders, Granted
  <2>3. TypeOK' BY <1>1, <1>2, <2>1, LeaveKeepsTickets DEF TypeOK, Steps
  <2>4. Holders' = (Holders \ {c}) \cup {w}
    BY <1>1, <2>1, <2>2 DEF Holders, Granted, TypeOK
  <2>5. IsFiniteSet(Holders \ {c}) /\ Cardinality(Holders \ {c}) = inUse - 1
    BY <1>1, HoldersFinite, FS_RemoveElement DEF PermitsAccounted
  <2>6. Cardinality(Holders') = inUse
    <3>1. Cardinality((Holders \ {c}) \cup {w}) = (inUse - 1) + 1
      BY <2>2, <2>5, FS_AddElement
    <3> QED BY <2>4, <3>1 DEF TypeOK
  <2>7. WaitersWait' BY <1>1, <2>1 DEF WaitersWait, TypeOK
  <2> QED BY <2>1, <2>3, <2>6, <2>7 DEF PermitsAccounted, NoIdleCapacity, WithinLimit
<1> QED BY <1>1, <1>4, <1>5 DEF ReleaseLocked

\* Every step keeps the invariant.
LEMMA StepIInv == IInv /\ [Next]_vars => IInv'
<1> SUFFICES ASSUME IInv, [Next]_vars PROVE IInv' OBVIOUS
<1> USE DEF IInv
<1>1. CASE UNCHANGED vars
  BY <1>1 DEF vars, TypeOK, WaitersWait, PermitsAccounted, WithinLimit, NoIdleCapacity, Holders, Granted
<1>2. ASSUME NEW c \in Callers, AcquireNow(c) PROVE IInv'
  <2>1. TypeOK' /\ WaitersWait' BY <1>2 DEF AcquireNow, Comes, TypeOK, Steps, WaitersWait
  <2>2. Holders' = Holders \cup {c} /\ c \notin Holders
    BY <1>2 DEF AcquireNow, Holders, Granted, TypeOK
  <2>3. Cardinality(Holders') = inUse + 1
    BY <2>2, HoldersFinite, FS_AddElement DEF PermitsAccounted
  <2> QED BY <1>2, <2>1, <2>3, CapacityPositive
       DEF AcquireNow, PermitsAccounted, WithinLimit, NoIdleCapacity, TypeOK
<1>3. ASSUME NEW c \in Callers, Enqueue(c) \/ Take(c) \/ Drop(c) \/ Abandon(c) \/ CancelContext(c)
      PROVE IInv'
  <2>1. TypeOK' /\ WaitersWait'
    <3>1. CASE Enqueue(c)
      BY <3>1, WaitersFinite DEF Enqueue, Comes, TypeOK, Steps, WaitersWait
    <3>2. CASE Abandon(c)
      <4>1. /\ ticket' \in [Callers -> Nat] /\ ahead' \in [Callers -> SUBSET Callers]
            /\ waiters' = waiters \ {c}
        BY <3>2, LeaveKeepsTickets DEF Abandon, Leave
      <4> QED BY <3>2, <4>1 DEF Abandon, TypeOK, Steps, WaitersWait
    <3>3. CASE Take(c) \/ Drop(c) \/ CancelContext(c)
      BY <3>3 DEF Take, Drop, CancelContext, TypeOK, Steps, WaitersWait
    <3> QED BY <1>3, <3>1, <3>2, <3>3
  <2>2. PermitsAccounted' /\ WithinLimit'
    BY <1>3, SameHolders DEF PermitsAccounted, WithinLimit
  <2>3. NoIdleCapacity'
    <3>1. waiters' # {} => waiters # {} \/ inUse >= Capacity
      BY <1>3 DEF Enqueue, Take, Drop, Abandon, Leave, CancelContext
    <3> QED BY <1>3, <3>1, SameHolders, CapacityPositive DEF NoIdleCapacity, WithinLimit, TypeOK
  <2> QED BY <2>1, <2>2, <2>3
<1> QED BY <1>1, <1>2, <1>3, ReleaseHandsOver DEF Next, Moves

\* The state of the semaphore keeps its types; s.inUse never drops below zero
\* (the panic in releaseFunc is unreachable).
THEOREM SemaphoreTypeCorrect == Spec => []TypeOK
<1>1. IInv => TypeOK BY DEF IInv
<1> QED BY <1>1, InitIInv, StepIInv, PTL DEF Spec

\* Every permit is accounted for, through the race of a grant with the end of
\* its waiter's context.
THEOREM PermitsNeverLeak == Spec => []PermitsAccounted
<1>1. IInv => PermitsAccounted BY DEF IInv
<1> QED BY <1>1, InitIInv, StepIInv, PTL DEF Spec

\* No more permits are out than the limit, and none is kept from a waiter.
THEOREM CapacityUsed == Spec => [](WithinLimit /\ NoIdleCapacity)
<1>1. IInv => WithinLimit /\ NoIdleCapacity BY DEF IInv
<1> QED BY <1>1, InitIInv, StepIInv, PTL DEF Spec

\* The heap's order of arrivals is that of history: waiters have places of their
\* own, below their number, and who is before another was there when it came.
InOrder ==
    /\ \A c \in waiters : ticket[c] < Cardinality(waiters)
    /\ \A c, e \in waiters : c # e =>
         ticket[c] # ticket[e] /\ (e \in ahead[c] <=> ticket[e] < ticket[c])

\* A waiter leaves, granted or not: those behind it move up in their order.
LEMMA LeaveInOrder ==
    ASSUME TypeOK, InOrder, NEW w \in waiters, Leave(w)
    PROVE  InOrder'
<1>1. /\ waiters' = waiters \ {w} /\ waiters \subseteq Callers /\ w \in Callers
      /\ \A d \in Callers : ticket[d] \in Nat
      /\ \A d \in waiters' : ticket'[d] = IF ticket[d] > ticket[w] THEN ticket[d] - 1 ELSE ticket[d]
      /\ \A d \in waiters' : ahead'[d] = ahead[d]
  BY DEF Leave, TypeOK
<1>2. IsFiniteSet(waiters) /\ Cardinality(waiters) \in Nat
  BY <1>1, CallersAssumption, FS_Subset, FS_CardinalityType
<1>3. Cardinality(waiters') = Cardinality(waiters) - 1
  BY <1>1, <1>2, FS_RemoveElement
<1>4. ASSUME NEW c \in waiters' PROVE ticket'[c] < Cardinality(waiters')
  <2>1. /\ ticket[c] < Cardinality(waiters) /\ ticket[w] < Cardinality(waiters)
        /\ ticket[c] # ticket[w] /\ ticket[c] \in Nat /\ ticket[w] \in Nat
    BY <1>1 DEF InOrder
  <2> QED BY <1>1, <1>2, <1>3, <2>1
<1>5. ASSUME NEW c \in waiters', NEW e \in waiters', c # e
      PROVE  ticket'[c] # ticket'[e] /\ (e \in ahead'[c] <=> ticket'[e] < ticket'[c])
  <2>1. c \in waiters /\ e \in waiters /\ w \in waiters /\ c # w /\ e # w /\ c # e
    BY <1>1, <1>5
  <2>2. /\ ticket[c] \in Nat /\ ticket[e] \in Nat /\ ticket[w] \in Nat
    BY <1>1, <2>1
  <2>3. /\ ticket[c] # ticket[w] /\ ticket[e] # ticket[w] /\ ticket[c] # ticket[e]
        /\ e \in ahead[c] <=> ticket[e] < ticket[c]
    BY <2>1 DEF InOrder
  <2>4. (ticket'[e] < ticket'[c] <=> ticket[e] < ticket[c]) /\ ticket'[c] # ticket'[e]
    BY <1>1, <1>5, <2>2, <2>3
  <2> QED BY <1>1, <1>5, <2>3, <2>4
<1> QED BY <1>4, <1>5 DEF InOrder

\* A waiter that comes has the last place.
LEMMA EnqueueInOrder ==
    ASSUME IInv, InOrder, NEW c \in Callers, Enqueue(c)
    PROVE  InOrder'
<1>1. /\ waiters' = waiters \cup {c} /\ waiters \subseteq Callers /\ c \notin waiters
      /\ ticket' = [ticket EXCEPT ![c] = Cardinality(waiters)]
      /\ ahead' = [d \in Callers |-> IF d = c THEN waiters ELSE ahead[d] \ {c}]
      /\ ticket \in [Callers -> Nat]
  BY DEF Enqueue, Comes, IInv, TypeOK, WaitersWait
<1>2. IsFiniteSet(waiters) /\ Cardinality(waiters) \in Nat
  BY <1>1, CallersAssumption, FS_Subset, FS_CardinalityType
<1>3. Cardinality(waiters') = Cardinality(waiters) + 1
  BY <1>1, <1>2, FS_AddElement
<1>4. /\ ticket'[c] = Cardinality(waiters) /\ ahead'[c] = waiters
      /\ \A d \in waiters : ticket'[d] = ticket[d] /\ ahead'[d] = ahead[d] \ {c}
      /\ \A d \in waiters : ticket[d] \in Nat /\ ticket[d] < Cardinality(waiters)
  BY <1>1 DEF InOrder
<1>5. ASSUME NEW d \in waiters' PROVE ticket'[d] < Cardinality(waiters')
  BY <1>1, <1>2, <1>3, <1>4
<1>6. ASSUME NEW d \in waiters', NEW e \in waiters', d # e
      PROVE  ticket'[d] # ticket'[e] /\ (e \in ahead'[d] <=> ticket'[e] < ticket'[d])
  <2>1. CASE d = c BY <1>1, <1>2, <1>4, <1>6, <2>1
  <2>2. CASE e = c BY <1>1, <1>2, <1>4, <1>6, <2>2
  <2>3. CASE d # c /\ e # c
    <3>1. d \in waiters /\ e \in waiters BY <1>1, <2>3
    <3> QED BY <1>4, <1>6, <2>3, <3>1 DEF InOrder
  <2> QED BY <2>1, <2>2, <2>3
<1> QED BY <1>5, <1>6 DEF InOrder

LEMMA StepInOrder == IInv /\ InOrder /\ [Next]_vars => InOrder'
<1> SUFFICES ASSUME IInv, InOrder, [Next]_vars PROVE InOrder' OBVIOUS
<1>1. CASE UNCHANGED <<waiters, ticket, ahead>>
  BY <1>1 DEF InOrder
<1>2. CASE UNCHANGED vars BY <1>1, <1>2 DEF vars
<1>3. ASSUME NEW c \in Callers, AcquireNow(c) PROVE InOrder'
  BY <1>3 DEF AcquireNow, InOrder
<1>4. ASSUME NEW c \in Callers, Take(c) \/ Drop(c) \/ CancelContext(c) PROVE InOrder'
  BY <1>1, <1>4 DEF Take, Drop, CancelContext
<1>5. ASSUME NEW c \in Callers, Abandon(c) PROVE InOrder'
  BY <1>5, LeaveInOrder DEF Abandon, IInv
<1>6. ASSUME NEW c \in Callers, Release(c) \/ GiveBack(c) PROVE InOrder'
  BY <1>1, <1>6, LeaveInOrder DEF Release, GiveBack, ReleaseLocked, IInv
<1> QED BY <1>2, <1>3, <1>4, <1>5, <1>6, EnqueueInOrder DEF Next, Moves

\* Nobody gets a permit before a waiter of better rank, or of its own rank that
\* came first: neither the one a release hands it to (releaseLocked) nor a
\* newcomer that finds one free (Acquire).
THEOREM NobodyOvertakes == Spec => NoneOvertaken
<1>1. ASSUME IInv, InOrder, [Next]_vars
      PROVE  [\A d \in Holders' \ Holders, c \in waiters \cap waiters' :
                Outranks(d, c) \/ (SameRank(d, c) /\ d \in ahead'[c])]_vars
  <2> SUFFICES ASSUME Next, NEW d \in Holders' \ Holders, NEW c \in waiters \cap waiters'
               PROVE  Outranks(d, c) \/ (SameRank(d, c) /\ d \in ahead'[c])
    BY <1>1
  <2>1. PICK e \in Callers : AcquireNow(e) \/ Enqueue(e) \/ Moves(e) \/ Release(e) \/ CancelContext(e)
    BY DEF Next
  <2>2. CASE Enqueue(e) \/ Take(e) \/ Drop(e) \/ Abandon(e) \/ CancelContext(e)
    BY <1>1, <2>2, SameHolders
  <2>3. CASE AcquireNow(e)
    \* a free permit means that nobody waits
    BY <1>1, <2>3, CapacityPositive DEF AcquireNow, IInv, NoIdleCapacity, TypeOK
  <2>4. CASE Release(e) \/ GiveBack(e)
    <3>1. ReleaseLocked /\ pc' = [pc EXCEPT ![e] = "idle"] /\ c \in waiters
      BY <2>4 DEF Release, GiveBack
    <3>2. PICK w \in waiters : First(w) /\ Leave(w)
      BY <3>1 DEF ReleaseLocked
    <3>3. d = w
      BY <1>1, <3>1, <3>2 DEF Holders, Granted, Leave, IInv, TypeOK
    <3>4. c # w /\ c \in Callers /\ w \in Callers /\ ahead'[c] = ahead[c]
      BY <1>1, <3>2 DEF Leave, IInv, TypeOK
    <3>5. ~Less(c, w)
      BY <3>1, <3>2, <3>4 DEF First
    <3>6. ticket[c] \in Nat /\ ticket[w] \in Nat /\ ticket[c] # ticket[w]
          /\ (w \in ahead[c] <=> ticket[w] < ticket[c])
      BY <1>1, <3>1, <3>4 DEF InOrder, IInv, TypeOK
    <3>7. /\ Priority[c] \in Int /\ Priority[w] \in Int
          /\ Subpriority[c] \in Int /\ Subpriority[w] \in Int
      BY <3>4, RankAssumption
    <3> QED BY <3>3, <3>4, <3>5, <3>6, <3>7 DEF Less, Outranks, SameRank
  <2> QED BY <2>1, <2>2, <2>3, <2>4 DEF Moves
<1>2. Init => InOrder BY DEF Init, InOrder
<1> QED BY <1>1, <1>2, InitIInv, StepIInv, StepInOrder, PTL DEF Spec, NoneOvertaken

\* What a release does to those who hold a permit.
LEMMA ReleaseMoves ==
    ASSUME IInv, NEW c \in Callers, Release(c) \/ GiveBack(c)
    PROVE  /\ c \in Holders
           /\ \/ Holders' = Holders \ {c}
              \/ \E w \in Callers \ Holders : Holders' = (Holders \ {c}) \cup {w}
<1> USE DEF IInv
<1>1. c \in Holders /\ c \notin waiters /\ pc' = [pc EXCEPT ![c] = "idle"] /\ ReleaseLocked
  BY DEF Release, GiveBack, Holders, Granted, WaitersWait
<1>2. CASE UNCHANGED waiters
  <2>1. Holders' = Holders \ {c} BY <1>1, <1>2 DEF Holders, Granted, TypeOK
  <2> QED BY <1>1, <2>1
<1>3. CASE \E w \in waiters : Leave(w)
  <2>1. PICK w \in waiters : waiters' = waiters \ {w} BY <1>3 DEF Leave
  <2>2. w # c /\ w \in Callers /\ pc[w] \in {"queued", "dropping"} /\ w \notin Holders
    BY <1>1, <2>1 DEF WaitersWait, TypeOK, Holders, Granted
  <2>3. Holders' = (Holders \ {c}) \cup {w}
    BY <1>1, <2>1, <2>2 DEF Holders, Granted, TypeOK
  <2> QED BY <1>1, <2>2, <2>3
<1> QED BY <1>1, <1>2, <1>3 DEF ReleaseLocked

\* A step of the semaphore is a step of the pool, or none.
LEMMA PoolStep == IInv /\ [Next]_vars => [Pool!Next]_Holders
<1> SUFFICES ASSUME IInv, [Next]_vars PROVE Pool!Next \/ Holders' = Holders
  OBVIOUS
<1>1. CASE UNCHANGED vars
  BY <1>1 DEF vars, Holders, Granted
<1>2. ASSUME NEW c \in Callers, AcquireNow(c) PROVE Pool!Next
  <2>1. Holders' = Holders \cup {c} /\ c \notin Holders
    BY <1>2 DEF AcquireNow, Holders, Granted, IInv, TypeOK
  <2>2. Pool!Cardinality(Holders) < Capacity
    BY <1>2 DEF AcquireNow, IInv, PermitsAccounted, Cardinality, Pool!Cardinality
  <2>3. Pool!Take(c) BY <2>1, <2>2 DEF Pool!Take
  <2> QED BY <2>3 DEF Pool!Next
<1>3. ASSUME NEW c \in Callers, Enqueue(c) \/ Take(c) \/ Drop(c) \/ Abandon(c) \/ CancelContext(c)
      PROVE Holders' = Holders
  BY <1>3, SameHolders
<1>4. ASSUME NEW c \in Callers, Release(c) \/ GiveBack(c) PROVE Pool!Next
  <2>1. c \in Holders BY <1>4, ReleaseMoves
  <2>2. CASE Holders' = Holders \ {c}
    BY <2>1, <2>2 DEF Pool!Next, Pool!GiveBack
  <2>3. CASE \E w \in Callers \ Holders : Holders' = (Holders \ {c}) \cup {w}
    BY <2>1, <2>3 DEF Pool!Next, Pool!HandOver
  <2> QED BY <1>4, <2>2, <2>3, ReleaseMoves
<1> QED BY <1>1, <1>2, <1>3, <1>4 DEF Next, Moves

\* The semaphore implements the pool of permits that its users are modelled with.
THEOREM SemaphoreIsAPool == Spec => ImplementsPool
<1>1. Init => Pool!Init BY DEF Init, Pool!Init, Holders, Granted
<1> QED BY <1>1, InitIInv, StepIInv, PoolStep, PTL DEF Spec, ImplementsPool, Pool!Spec

-----------------------------------------------------------------------------
(* The gate *)

AtOK == at \in [Callers -> GateSteps]
GateInv == TypeOK /\ AtOK /\ PermitFollowsCall

\* A step of the gate is a step of the semaphore or leaves it alone.
LEMMA GateStepsSemaphore == ASSUME [GateNext]_gateVars PROVE [Next]_vars
<1>1. CASE UNCHANGED gateVars BY <1>1 DEF gateVars
<1>2. CASE Tick BY <1>2 DEF Tick
<1>4. ASSUME NEW c \in Callers, ContextEnds(c) PROVE Next
  BY <1>4 DEF ContextEnds, Next
<1>5. ASSUME NEW c \in Callers, Acquire(c) \/ Await(c) PROVE Next
  BY <1>5 DEF Acquire, Await, Next
<1>6. ASSUME NEW c \in Callers,
             CooldownOver(c) \/ Sleep(c) \/ Wake(c) \/ Refused(c) \/ TakeToken(c)
               \/ StartRequest(c) \/ Respond(c) \/ Penalize(c)
      PROVE  UNCHANGED vars
  BY <1>6 DEF CooldownOver, Sleep, Wake, Refused, TakeToken, StartRequest, Respond, Penalize
<1>7. ASSUME NEW c \in Callers,
             TokenRefused(c) \/ TransportFails(c) \/ CloseAndRetry(c) \/ CloseBody(c)
      PROVE  Next
  BY <1>7 DEF TokenRefused, TransportFails, CloseAndRetry, CloseBody, Next
<1>8. ASSUME NEW c \in Callers, Admit(c) \/ AdmitToken(c) PROVE Next \/ UNCHANGED vars
  BY <1>8 DEF Admit, AdmitToken, Penalized, Next
<1> QED
  BY <1>1, <1>2, <1>4, <1>5, <1>6, <1>7, <1>8 DEF GateNext, Runs

\* No call runs at the start.
LEMMA InitGateInv == GateInit => GateInv
BY DEF GateInit, Init, GateInv, TypeOK, AtOK, PermitFollowsCall, GateSteps, Steps, Holding

\* What a call's step does to its own place and to the semaphore's view of it;
\* the others keep both.
LEMMA StepGateInv == IInv /\ GateInv /\ [GateNext]_gateVars => AtOK' /\ PermitFollowsCall'
<1> SUFFICES ASSUME IInv, GateInv, [GateNext]_gateVars PROVE AtOK' /\ PermitFollowsCall'
  OBVIOUS
<1> USE DEF GateInv, TypeOK, AtOK, PermitFollowsCall, GateSteps, Steps, Holding
<1>1. CASE UNCHANGED gateVars BY <1>1 DEF gateVars, vars
<1>2. CASE Tick BY <1>2 DEF Tick, vars
<1>4. ASSUME NEW c \in Callers, ContextEnds(c) PROVE AtOK' /\ PermitFollowsCall'
  BY <1>4 DEF ContextEnds, CancelContext
<1>5. ASSUME NEW c \in Callers, Acquire(c) PROVE AtOK' /\ PermitFollowsCall'
  BY <1>5 DEF Acquire, AcquireNow, Enqueue
<1>6. ASSUME NEW c \in Callers, Await(c) PROVE AtOK' /\ PermitFollowsCall'
  <2>1. pc[c] \in {"queued", "dropping", "refusing"} /\ at[c] = "slot"
    BY <1>6 DEF Await, Moves, Take, Drop, Abandon, GiveBack
  <2>2. \A d \in Callers : d # c => pc'[d] = pc[d]
    BY <1>6 DEF Await, Moves, Take, Drop, Abandon, GiveBack
  <2>3. pc' \in [Callers -> Steps] /\ at' = at
    BY <1>6 DEF Await, Moves, Take, Drop, Abandon, GiveBack
  <2> QED BY <2>1, <2>2, <2>3
<1>7. ASSUME NEW c \in Callers,
             CooldownOver(c) \/ Sleep(c) \/ Wake(c) \/ Refused(c) \/ TakeToken(c)
               \/ StartRequest(c) \/ Respond(c) \/ Penalize(c)
      PROVE  AtOK' /\ PermitFollowsCall'
  <2>1. CASE CooldownOver(c) \/ Sleep(c) \/ Wake(c)
    BY <1>7, <2>1 DEF CooldownOver, Sleep, Wake, Goto, vars
  <2>2. CASE Refused(c) \/ TakeToken(c)
    BY <1>7, <2>2 DEF Refused, TakeToken, Goto, vars
  <2>3. CASE StartRequest(c) \/ Respond(c)
    BY <1>7, <2>3 DEF StartRequest, Respond, Goto, vars
  <2>4. CASE Penalize(c)
    BY <2>4 DEF Penalize, Goto, vars
  <2> QED BY <1>7, <2>1, <2>2, <2>3, <2>4
<1>8. ASSUME NEW c \in Callers, NEW to \in {"look", "done"}, Release(c),
             at' = [at EXCEPT ![c] = to]
      PROVE  AtOK' /\ PermitFollowsCall'
  BY <1>8 DEF Release
<1>9. ASSUME NEW c \in Callers,
             TokenRefused(c) \/ TransportFails(c) \/ CloseAndRetry(c) \/ CloseBody(c)
      PROVE  AtOK' /\ PermitFollowsCall'
  BY <1>8, <1>9 DEF TokenRefused, TransportFails, CloseAndRetry, CloseBody, Goto
<1>10. ASSUME NEW c \in Callers, Admit(c) \/ AdmitToken(c) PROVE AtOK' /\ PermitFollowsCall'
  <2>1. CASE Penalized(c, "slot") \/ Penalized(c, "admitToken")
    BY <1>8, <2>1 DEF Penalized, Goto
  <2>2. CASE /\ pc[c] = "held" /\ UNCHANGED vars
             /\ Goto(c, "slot", IF c \in RateLimited THEN "token" ELSE "start")
    BY <2>2 DEF Goto, vars
  <2>3. CASE Goto(c, "admitToken", "start") /\ UNCHANGED vars
    BY <2>3 DEF Goto, vars
  <2> QED BY <1>10, <2>1, <2>2, <2>3 DEF Admit, AdmitToken
<1> QED
  BY <1>1, <1>2, <1>4, <1>5, <1>6, <1>7, <1>9, <1>10 DEF GateNext, Runs

\* The gate never loses nor makes up a permit and keeps none from a waiter.
THEOREM GatePermits == GateSpec => [](PermitsAccounted /\ NoIdleCapacity)
<1>1. GateInit => IInv BY InitIInv DEF GateInit
<1>2. IInv /\ [GateNext]_gateVars => IInv' BY StepIInv, GateStepsSemaphore
<1>3. IInv => PermitsAccounted /\ NoIdleCapacity BY DEF IInv
<1> QED BY <1>1, <1>2, <1>3, PTL DEF GateSpec

\* The gate's permits are a pool's, with all that its calls do around them.
THEOREM GateIsAPool == GateSpec => ImplementsPool
<1>1. GateInit => IInv /\ Pool!Init
  BY InitIInv DEF GateInit, Init, Pool!Init, Holders, Granted
<1>2. IInv /\ [GateNext]_gateVars => IInv' /\ [Pool!Next]_Holders
  BY StepIInv, PoolStep, GateStepsSemaphore
<1> QED BY <1>1, <1>2, PTL DEF GateSpec, ImplementsPool, Pool!Spec

\* A call outside the gate's admission and its response holds no permit.
THEOREM CallsKeepNoPermit == GateSpec => []PermitFollowsCall
<1>1. GateInit => IInv /\ GateInv BY InitIInv, InitGateInv DEF GateInit
<1>2. IInv /\ GateInv /\ [GateNext]_gateVars => IInv' /\ GateInv'
  BY StepIInv, GateStepsSemaphore, StepGateInv DEF IInv, GateInv
<1>3. GateInv => PermitFollowsCall BY DEF GateInv
<1> QED BY <1>1, <1>2, <1>3, PTL DEF GateSpec

-----------------------------------------------------------------------------
(* The penalties *)

\* Whoever is past its last look at the cooldown, its request not started.
Starting == {c \in Callers : at[c] = "start"}
PenaltyTyped ==
    /\ attempt \in [Callers -> {0, 1}] /\ cooldown \in Nat
    /\ owed \in [Callers -> Nat] /\ escaped \subseteq Callers
\* The cooldown covers every delay that is still owed, those who start owe none,
\* and all who can escape the cooldown are known when it begins.
PenaltyInv ==
    /\ PenaltyTyped
    /\ \A c \in Callers : owed[c] <= cooldown
    /\ RetriesWait
    /\ IF CoolingDown THEN Cardinality(escaped \cup Starting) < Capacity ELSE escaped = {}

\* No more callers are past their look than there are permits, and when one of
\* the permits is with an answer, fewer.
LEMMA FewStart ==
    ASSUME IInv, GateInv
    PROVE  /\ IsFiniteSet(Starting)
           /\ \A c \in Callers : at[c] = "answer429" => Cardinality(Starting) < Capacity
<1> USE DEF IInv, GateInv, TypeOK, AtOK
<1>1. Starting \subseteq Holders
  BY DEF Starting, Holders, PermitFollowsCall, Holding
<1>2. IsFiniteSet(Starting)
  BY <1>1, HoldersFinite, FS_Subset
<1>3. ASSUME NEW c \in Callers, at[c] = "answer429" PROVE Cardinality(Starting) < Capacity
  <2>1. c \in Holders /\ c \notin Starting
    BY <1>3 DEF Starting, Holders, PermitFollowsCall, Holding
  <2>2. IsFiniteSet(Holders \ {c}) /\ Cardinality(Holders \ {c}) = Cardinality(Holders) - 1
    BY <2>1, HoldersFinite, FS_RemoveElement
  <2>3. Starting \subseteq Holders \ {c}
    BY <1>1, <2>1
  <2>4. Cardinality(Starting) <= Cardinality(Holders \ {c}) /\ Cardinality(Starting) \in Nat
    BY <1>2, <2>2, <2>3, FS_Subset, FS_CardinalityType
  <2>5. Cardinality(Holders) <= Capacity /\ Cardinality(Holders) \in Nat /\ Capacity \in Nat
    BY HoldersFinite, CapacityPositive DEF PermitsAccounted, WithinLimit
  <2> QED BY <2>2, <2>4, <2>5
<1> QED BY <1>2, <1>3

\* The cap is a number of ticks, and so is every delay.
LEMMA DelaysCapped == \A delay \in Delays : Capped(delay) \in Nat
BY DelaysAssumption, GateLimitsAssumption DEF Capped

\* A step that neither admits, starts, penalizes nor lets time pass.
LEMMA CallMoves ==
    ASSUME IInv, GateInv, PenaltyInv, NEW c \in Callers, UNCHANGED <<cooldown, owed, escaped>>,
           NEW to, at' = [at EXCEPT ![c] = to], to \notin {"start", "request"},
           attempt' \in [Callers -> {0, 1}], \A d \in Callers \ {c} : attempt'[d] = attempt[d]
    PROVE  PenaltyInv'
<1> USE DEF GateInv, AtOK, PenaltyInv, PenaltyTyped
<1>1. PenaltyTyped' /\ \A d \in Callers : owed'[d] <= cooldown' OBVIOUS
<1>2. RetriesWait' BY DEF RetriesWait
<1>3. Starting' \subseteq Starting BY DEF Starting
<1>4. /\ IsFiniteSet(escaped \cup Starting) /\ (escaped \cup Starting') \subseteq (escaped \cup Starting)
      /\ Capacity \in Nat
  BY <1>3, CallersAssumption, FS_Subset, CapacityPositive DEF Starting
<1>5. /\ Cardinality(escaped \cup Starting') <= Cardinality(escaped \cup Starting)
      /\ Cardinality(escaped \cup Starting') \in Nat /\ Cardinality(escaped \cup Starting) \in Nat
  BY <1>4, FS_Subset, FS_CardinalityType
<1>6. IF CoolingDown' THEN Cardinality(escaped' \cup Starting') < Capacity ELSE escaped' = {}
  BY <1>4, <1>5 DEF CoolingDown
<1> QED BY <1>1, <1>2, <1>6

\* An admission finds no cooldown: nothing is owed, and nobody escapes yet.
LEMMA AdmissionKeeps ==
    ASSUME GateInv, PenaltyInv, NEW c \in Callers, ~CoolingDown,
           NEW to, at' = [at EXCEPT ![c] = to], UNCHANGED <<attempt, cooldown, owed, escaped>>
    PROVE  PenaltyInv'
<1> USE DEF GateInv, AtOK, PenaltyInv, PenaltyTyped
<1>1. cooldown = 0 BY DEF CoolingDown
<1>2. \A d \in Callers : owed[d] = 0 BY <1>1
<1> QED BY <1>1, <1>2 DEF RetriesWait, CoolingDown

LEMMA StartRequestKeeps ==
    ASSUME GateInv, PenaltyInv, NEW c \in Callers, StartRequest(c)
    PROVE  PenaltyInv'
<1> USE DEF GateInv, AtOK, PenaltyInv, PenaltyTyped
<1>1. /\ at[c] = "start" /\ at' = [at EXCEPT ![c] = "request"]
      /\ escaped' = IF CoolingDown THEN escaped \cup {c} ELSE escaped
      /\ UNCHANGED <<attempt, cooldown, owed>>
  BY DEF StartRequest, Goto
<1>2. RetriesWait' BY <1>1 DEF RetriesWait
<1>3. CASE CoolingDown
  <2>1. escaped' \cup Starting' = escaped \cup Starting BY <1>1, <1>3 DEF Starting
  <2> QED BY <1>1, <1>2, <1>3, <2>1 DEF CoolingDown
<1>4. CASE ~CoolingDown BY <1>1, <1>2, <1>4 DEF CoolingDown
<1> QED BY <1>3, <1>4

\* A 429: its caller holds a permit, so fewer than the others can be at the start
\* of a request; the cooldown grows to what it asks for, or stays.
LEMMA PenalizeKeeps ==
    ASSUME IInv, GateInv, PenaltyInv, NEW c \in Callers, Penalize(c)
    PROVE  PenaltyInv'
<1> USE DEF GateInv, AtOK, PenaltyInv, PenaltyTyped
<1>1. PICK delay \in Delays :
        /\ cooldown' = IF Capped(delay) > cooldown THEN Capped(delay) ELSE cooldown
        /\ owed' = [owed EXCEPT ![c] = IF attempt[c] = 1 THEN @ ELSE Capped(delay)]
  BY DEF Penalize
<1>2. PICK to \in {"body", "close"} : at[c] = "answer429" /\ at' = [at EXCEPT ![c] = to]
  BY DEF Penalize, Goto
<1>3. attempt' = attempt /\ escaped' = escaped BY DEF Penalize
<1>4. Capped(delay) \in Nat BY DelaysCapped
<1>5. PenaltyTyped' BY <1>1, <1>3, <1>4
<1>6. cooldown' >= cooldown /\ cooldown' >= Capped(delay) BY <1>1, <1>4
<1>7. ASSUME NEW d \in Callers PROVE owed'[d] <= cooldown'
  <2>1. owed'[d] = owed[d] \/ owed'[d] = Capped(delay) BY <1>1
  <2> QED BY <1>4, <1>5, <1>6, <2>1
<1>8. RetriesWait' BY <1>1, <1>2, <1>3 DEF RetriesWait
<1>9. Starting' = Starting BY <1>2 DEF Starting
<1>10. IF CoolingDown' THEN Cardinality(escaped' \cup Starting') < Capacity ELSE escaped' = {}
  <2>1. CASE CoolingDown
    <3>1. cooldown' > 0 BY <1>5, <1>6, <2>1 DEF CoolingDown
    <3>2. escaped' \cup Starting' = escaped \cup Starting BY <1>3, <1>9
    <3>3. Cardinality(escaped \cup Starting) < Capacity BY <2>1
    <3> HIDE DEF PenaltyInv, GateInv
    <3> QED BY <3>1, <3>2, <3>3 DEF CoolingDown
  <2>2. CASE ~CoolingDown
    <3>1. escaped' \cup Starting' = Starting /\ escaped' = {} BY <1>3, <1>9, <2>2
    <3> QED BY <1>2, <3>1, FewStart
  <2> QED BY <2>1, <2>2
<1> QED BY <1>5, <1>7, <1>8, <1>10

LEMMA TickKeeps == ASSUME GateInv, PenaltyInv, Tick PROVE PenaltyInv'
<1> USE DEF GateInv, AtOK, PenaltyInv, PenaltyTyped
<1>1. /\ cooldown' = IF cooldown > 0 THEN cooldown - 1 ELSE 0
      /\ owed' = [c \in Callers |-> IF owed[c] > 0 THEN owed[c] - 1 ELSE 0]
      /\ escaped' = IF cooldown > 1 THEN escaped ELSE {}
      /\ UNCHANGED <<at, attempt>>
  BY DEF Tick
<1>2. PenaltyTyped' BY <1>1
<1>3. \A c \in Callers : owed'[c] <= cooldown' BY <1>1
<1>4. RetriesWait' BY <1>1 DEF RetriesWait
<1>5. Starting' = Starting BY <1>1 DEF Starting
<1>6. IF CoolingDown' THEN Cardinality(escaped' \cup Starting') < Capacity ELSE escaped' = {}
  <2>1. CASE cooldown > 1
    <3>1. CoolingDown /\ escaped' \cup Starting' = escaped \cup Starting /\ cooldown' > 0
      BY <1>1, <1>5, <2>1 DEF CoolingDown
    <3>2. Cardinality(escaped \cup Starting) < Capacity BY <3>1
    <3> HIDE DEF PenaltyInv, GateInv
    <3> QED BY <3>1, <3>2 DEF CoolingDown
  <2>2. CASE ~(cooldown > 1)
    <3>1. escaped' = {} /\ ~(cooldown' > 0) BY <1>1, <2>2
    <3> QED BY <3>1 DEF CoolingDown
  <2> QED BY <2>1, <2>2
<1> QED BY <1>2, <1>3, <1>4, <1>6

LEMMA StepPenaltyInv == IInv /\ GateInv /\ PenaltyInv /\ [GateNext]_gateVars => PenaltyInv'
<1> SUFFICES ASSUME IInv, GateInv, PenaltyInv, [GateNext]_gateVars PROVE PenaltyInv' OBVIOUS
<1>1. CASE UNCHANGED <<at, attempt, cooldown, history>>
  BY <1>1 DEF PenaltyInv, PenaltyTyped, RetriesWait, Starting, CoolingDown, history
<1>2. CASE UNCHANGED gateVars BY <1>1, <1>2 DEF gateVars
<1>3. attempt \in [Callers -> {0, 1}] BY DEF PenaltyInv, PenaltyTyped
<1>4. ASSUME NEW c \in Callers, ContextEnds(c) \/ Acquire(c) \/ Await(c) PROVE PenaltyInv'
  BY <1>1, <1>4 DEF ContextEnds, Acquire, Await
<1>5. ASSUME NEW c \in Callers, NEW from, NEW to \in GateSteps \ {"start", "request"}, Goto(c, from, to),
             UNCHANGED <<attempt, cooldown, history>>
      PROVE  PenaltyInv'
  BY <1>3, <1>5, CallMoves DEF Goto, history
<1>6. ASSUME NEW c \in Callers,
             CooldownOver(c) \/ Sleep(c) \/ Wake(c) \/ Refused(c) \/ TakeToken(c) \/ Respond(c)
      PROVE  PenaltyInv'
  BY <1>5, <1>6 DEF CooldownOver, Sleep, Wake, Refused, TakeToken, Respond, GateSteps
<1>7. ASSUME NEW c \in Callers, TokenRefused(c) \/ TransportFails(c) \/ CloseBody(c) PROVE PenaltyInv'
  BY <1>5, <1>7 DEF TokenRefused, TransportFails, CloseBody, GateSteps
<1>8. ASSUME NEW c \in Callers, CloseAndRetry(c) PROVE PenaltyInv'
  <2>1. /\ at' = [at EXCEPT ![c] = "look"] /\ attempt' = [attempt EXCEPT ![c] = 1]
        /\ UNCHANGED <<cooldown, owed, escaped>>
    BY <1>8 DEF CloseAndRetry, Goto, history
  <2> QED BY <1>3, <2>1, CallMoves
<1>9. ASSUME NEW c \in Callers, Admit(c) \/ AdmitToken(c) PROVE PenaltyInv'
  <2>1. CASE Penalized(c, "slot") \/ Penalized(c, "admitToken")
    BY <1>5, <2>1 DEF Penalized, GateSteps
  <2>2. CASE ~(Penalized(c, "slot") \/ Penalized(c, "admitToken"))
    <3>1. /\ ~CoolingDown /\ UNCHANGED <<attempt, cooldown, owed, escaped>>
          /\ \E to : at' = [at EXCEPT ![c] = to]
      BY <1>9, <2>2 DEF Admit, AdmitToken, Goto, history
    <3> QED BY <3>1, AdmissionKeeps
  <2> QED BY <2>1, <2>2
<1> QED
  BY <1>2, <1>4, <1>6, <1>7, <1>8, <1>9, StartRequestKeeps, PenalizeKeeps, TickKeeps DEF GateNext, Runs

LEMMA PenaltyInvHolds == PenaltyInv => PenaltiesHold
<1> SUFFICES ASSUME PenaltyInv PROVE FewEscape BY DEF PenaltiesHold, PenaltyInv
<1>1. IsFiniteSet(escaped \cup Starting) /\ escaped \subseteq (escaped \cup Starting)
  BY CallersAssumption, FS_Subset DEF PenaltyInv, PenaltyTyped, Starting
<1>2. Cardinality(escaped) <= Cardinality(escaped \cup Starting)
      /\ Cardinality(escaped) \in Nat /\ Cardinality(escaped \cup Starting) \in Nat
  BY <1>1, FS_Subset, FS_CardinalityType
<1>3. CASE CoolingDown BY <1>2, <1>3, CapacityPositive DEF PenaltyInv, FewEscape
<1>4. CASE ~CoolingDown BY <1>4, CapacityPositive, FS_EmptySet DEF PenaltyInv, FewEscape
<1> QED BY <1>3, <1>4

\* A 429 stands, whatever comes between a caller's look at the cooldown and its
\* request: the retry waits for what its own 429 asked for (Penalize), and fewer
\* requests than there are permits still start (Acquire, Do).
THEOREM PenaltiesStand == GateSpec => []PenaltiesHold
<1>1. GateInit => IInv /\ GateInv BY InitIInv, InitGateInv DEF GateInit
<1>2. GateInit => PenaltyInv
  BY DEF GateInit, PenaltyInv, PenaltyTyped, RetriesWait, CoolingDown
<1>3. IInv /\ GateInv /\ [GateNext]_gateVars => IInv' /\ GateInv'
  BY StepIInv, GateStepsSemaphore, StepGateInv DEF IInv, GateInv
<1> QED BY <1>1, <1>2, <1>3, StepPenaltyInv, PenaltyInvHolds, PTL DEF GateSpec
=============================================================================

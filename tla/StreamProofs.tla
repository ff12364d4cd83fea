---------------------------- MODULE StreamProofs ----------------------------
(***************************************************************************)
(* That no event of a job is lost on its way to a follower, for every      *)
(* value of the constants: the threads that write the job's events, the    *)
(* handler that streams them and the client (JobEventStream), and the      *)
(* outcomes of the job's hooks (HookDispatcher). The two share no state.   *)
(***************************************************************************)
EXTENDS JobEventStream, HookDispatcher, FiniteSetTheorems, NaturalsInduction, TLAPS

-----------------------------------------------------------------------------
(* The inductive invariant of the stream *)

\* How many retries the log tells of: one whose event is still to come is not among them.
Retold == IF again = "event" THEN retries - 1 ELSE retries
\* The hook executions of the job by origin; the events a follower has not been sent.
Executions(k) ==
    hooks[k].dispatched + hooks[k].startPublish + hooks[k].running + hooks[k].endPublish + hooks[k].over
Beyond(f) == {i \in Visible : i > cursor[f]}
\* What a log l makes of a status v when the events of P are applied to it.
Ending(l, P) == {i \in P : l[i] \in DOMAIN Announced}
ShownOf(l, v, P) == IF Ending(l, P) = {} THEN v ELSE Announced[l[Max(Ending(l, P))]]
\* The row and the log say the same: no event of the row's last change is due.
Settled == own # "claimed" /\ again # "event" /\ ~Overtaken

StreamTyped ==
    /\ setup \in Setups
    /\ row \in Row /\ log \in Seq(Kind) /\ purged \in Nat /\ purged <= Len(log)
    /\ marked \in BOOLEAN /\ wakes \in Nat /\ retries \in Nat
    /\ hooks \in [{"queued", "ended"} -> [HookSteps -> Nat]]
    /\ sub \in {"event", "publish", "dispatch", "done"}
    /\ own \in {"none", "claimed", "publish", "running", "endPublish", "dispatch", "clear"}
    /\ again \in {"none", "event", "publish"}
FollowTyped ==
    /\ fpc \in [Followers -> DetailSteps \cup StreamSteps \cup {"returned", "gone"}]
    /\ after \in [Followers -> {"head", "loop"}]
    /\ cursor \in [Followers -> Nat]
    /\ slot \in [Followers -> BOOLEAN] /\ exhausted \in [Followers -> BOOLEAN]
    /\ first \in [Followers -> BOOLEAN]
    /\ view \in [Followers -> Row]
    /\ heard \in [Followers -> Nat]

\* Who may write: a run, a cancel and a retry exclude each other, the mark and
\* the pending count cover what is still to be written.
Writers ==
    /\ own # "none" => marked
    /\ own = "claimed" => row = "running"
    /\ Locked => row = "queued" /\ own = "none"
    /\ again = "event" => retries > 0
    /\ row = "deleted" => own = "none" /\ Executions("ended") = 0
    /\ pending = Executions("queued") + Executions("ended")
\* What is written: the runs are told apart, the last lifecycle event is the row's.
Written ==
    /\ log = <<>> => sub = "event" /\ row = "queued" /\ own = "none" /\ again = "none" /\ retries = 0
    /\ RunOf(Len(log)) = Retold
    /\ Settled => ShownOf(log, row, 1 .. Len(log)) = row

\* The answers of a follower's three checks, as long as they count.
Told(f) == Retold > heard[f]
Quieting == row \in {"ended", "deleted"} \/ again = "event"
Over(f) == Told(f) \/ (own = "none" /\ Executions("ended") = 0 /\ Quieting)
Answers(f) ==
    /\ heard[f] <= Retold
    /\ fpc[f] = "finalizing" => Told(f) \/ Quieting
    /\ fpc[f] = "hooks" => Told(f) \/ (own = "none" /\ Quieting)
    /\ \/ fpc[f] = "drain2"
       \/ fpc[f] = "backlog" /\ exhausted[f]
       \/ f \notin StopAtTerminal /\ fpc[f] = "cursor" /\ ~first[f]
       => Over(f)
EndsWhole(f) ==
    f \notin StopAtTerminal /\ fpc[f] = "cursor" /\ ~first[f] =>
        \A i \in Beyond(f) : RunOf(i) > heard[f] \/ log[i] \in {"deleted", "queued", "hook of queued"}
\* From the last read of a drain to the wait for a wake nothing is missed.
Caught(f) ==
    /\ fpc[f] \in {"drain", "drain2", "wait"} => after[f] = "loop"
    /\ ~ReadFails /\ fpc[f] \in Checks \cup {"wait"} /\ after[f] = "loop" /\ Beyond(f) # {} =>
         slot[f] \/ PublishDue
\* What the follower shows, with what it has not been sent yet, is what the store says.
Shows(f) ==
    fpc[f] \notin {"cursor", "job", "returned", "gone"} /\ Settled =>
        ShownOf(log, view[f], Beyond(f)) = row
Follows(f) ==
    cursor[f] <= Len(log) /\ Answers(f) /\ EndsWhole(f) /\ Caught(f) /\ Shows(f)

StreamInv == StreamTyped /\ FollowTyped /\ Writers /\ Written /\ \A f \in Followers : Follows(f)

-----------------------------------------------------------------------------
(* What events show of the status *)

LEMMA NatOrder == \E less : IsWellFoundedOn(less, Nat) /\ \A n, m \in Nat : <<n, m>> \in less <=> n < m
<1> WITNESS OpToRel(<, Nat)
<1>1. \A n, m \in Nat : <<n, m>> \in OpToRel(<, Nat) <=> n < m
  BY DEF OpToRel
<1> QED BY <1>1, NatLessThanWellFounded

LEMMA LeastNatural == ASSUME NEW S \in SUBSET Nat, S # {} PROVE \E m \in S : \A n \in S : m <= n
<1>1. PICK less : IsWellFoundedOn(less, Nat) /\ \A n, m \in Nat : <<n, m>> \in less <=> n < m
  BY NatOrder
<1>2. IsWellFoundedOn(less, Nat)
  BY <1>1
<1>3. \E m \in S : \A n \in S : ~(<<n, m>> \in less)
  BY <1>2, WFMin, Zenon
<1>4. PICK m \in S : \A n \in S : ~(<<n, m>> \in less)
  BY <1>3
<1>5. m \in Nat /\ \A n \in S : n \in Nat /\ ~(<<n, m>> \in less)
  BY <1>4
<1>6. ASSUME NEW n \in S PROVE m <= n
  <2>1. n \in Nat /\ m \in Nat /\ ~(n < m)
    BY <1>1, <1>5
  <2> QED BY <2>1
<1> QED BY <1>6

\* The last of a bounded set of ids, which Max picks.
LEMMA LastOne ==
    ASSUME NEW S \in SUBSET Nat, S # {}, NEW n \in Nat, \A i \in S : i <= n
    PROVE  Max(S) \in S /\ \A i \in S : i <= Max(S)
<1> DEFINE Below == {n - i : i \in S}
<1>0. \A i \in S : n - i \in Nat
  OBVIOUS
<1>1. Below \in SUBSET Nat /\ Below # {}
  BY <1>0
<1>2. PICK least \in Below : \A b \in Below : least <= b
  BY <1>1, LeastNatural
<1>3. PICK m \in S : least = n - m
  OBVIOUS
<1>4. \A i \in S : n - m <= n - i
  BY <1>2, <1>3
<1>5. \A i \in S : m >= i
  BY <1>4
<1>6. Max(S) \in S /\ \A i \in S : Max(S) >= i
  BY <1>5 DEF Max
<1> QED
  BY <1>6

LEMMA LastIs ==
    ASSUME NEW S \in SUBSET Nat, NEW m \in S, \A i \in S : i <= m
    PROVE  Max(S) = m
<1>1. \A i \in S : m >= i
  OBVIOUS
<1>2. Max(S) \in S /\ \A i \in S : Max(S) >= i
  BY <1>1 DEF Max
<1>3. Max(S) >= m /\ m >= Max(S) /\ Max(S) \in Nat /\ m \in Nat
  BY <1>1, <1>2
<1> QED
  BY <1>3

\* ShownOf is what the model's Shown is of the log as it stands.
LEMMA ShownIs == \A v, P : Shown(v, P) = ShownOf(log, v, P)
  BY DEF Shown, ShownOf, Ending

LEMMA EndingIn == \A l, P : Ending(l, P) \in SUBSET P /\ \A i \in Ending(l, P) : l[i] \in DOMAIN Announced
  BY DEF Ending

LEMMA EndingLast ==
    ASSUME NEW l, NEW n \in Nat, NEW P \in SUBSET (1 .. n), Ending(l, P) # {}
    PROVE  /\ Max(Ending(l, P)) \in Ending(l, P) /\ \A i \in Ending(l, P) : i <= Max(Ending(l, P))
           /\ Max(Ending(l, P)) \in P /\ l[Max(Ending(l, P))] \in DOMAIN Announced
<1>1. Ending(l, P) \in SUBSET Nat /\ \A i \in Ending(l, P) : i <= n
  <2>1. \A i \in P : i \in Nat /\ i <= n
    OBVIOUS
  <2> QED
    BY <2>1, EndingIn
<1>2. Max(Ending(l, P)) \in Ending(l, P) /\ \A i \in Ending(l, P) : i <= Max(Ending(l, P))
  BY <1>1, LastOne
<1> QED
  BY <1>2, EndingIn

\* The same events in another log.
SameOn(l, l2, P) == \A i \in P : l2[i] = l[i]
LEMMA ShownSame ==
    ASSUME NEW l, NEW l2, NEW n \in Nat, NEW P \in SUBSET (1 .. n), SameOn(l, l2, P)
    PROVE  \A v : ShownOf(l2, v, P) = ShownOf(l, v, P)
<1>1. Ending(l2, P) = Ending(l, P)
  BY DEF Ending, SameOn
<1>2. Ending(l, P) # {} => l2[Max(Ending(l, P))] = l[Max(Ending(l, P))]
  BY EndingLast DEF SameOn
<1> QED
  BY <1>1, <1>2 DEF ShownOf

\* One more event, at the end.
LEMMA ShownNext ==
    ASSUME NEW l, NEW n \in Nat, NEW P \in SUBSET (1 .. n)
    PROVE  \A v : ShownOf(l, v, P \cup {n + 1}) =
             IF l[n + 1] \in DOMAIN Announced THEN Announced[l[n + 1]] ELSE ShownOf(l, v, P)
<1>1. CASE l[n + 1] \in DOMAIN Announced
  <2>1. Ending(l, P \cup {n + 1}) = Ending(l, P) \cup {n + 1}
    BY <1>1 DEF Ending
  <2>2. Ending(l, P) \cup {n + 1} \in SUBSET Nat /\ \A i \in Ending(l, P) \cup {n + 1} : i <= n + 1
    <3>1. \A i \in P \cup {n + 1} : i \in Nat /\ i <= n + 1
      OBVIOUS
    <3> QED
      BY <3>1, EndingIn
  <2>3. Max(Ending(l, P) \cup {n + 1}) = n + 1
    BY <2>2, LastIs
  <2> QED
    BY <1>1, <2>1, <2>3 DEF ShownOf
<1>2. CASE l[n + 1] \notin DOMAIN Announced
  <2>1. Ending(l, P \cup {n + 1}) = Ending(l, P)
    BY <1>2 DEF Ending
  <2> QED
    BY <1>2, <2>1 DEF ShownOf
<1> QED
  BY <1>1, <1>2

\* The ids of S are the last of those of P, all up to n.
Suffix(S, P, n) ==
    n \in Nat /\ P \subseteq 1 .. n /\ S \subseteq P /\ \A i \in P \ S, j \in S : i < j

\* What comes last decides.
LEMMA ShownSuffix ==
    ASSUME NEW l, NEW n, NEW P, NEW S, Suffix(S, P, n), Ending(l, S) # {}, NEW v, NEW w
    PROVE  ShownOf(l, v, S) = ShownOf(l, w, P)
<1>n. n \in Nat /\ P \in SUBSET (1 .. n) /\ S \in SUBSET (1 .. n) /\ S \in SUBSET P
      /\ \A i \in P \ S, j \in S : i < j
  BY DEF Suffix
<1>1. Max(Ending(l, S)) \in Ending(l, S) /\ \A i \in Ending(l, S) : i <= Max(Ending(l, S))
  BY <1>n, EndingLast
<1>2. PICK m \in S : m = Max(Ending(l, S))
  BY <1>1 DEF Ending
<1>0. \A i \in P : i \in Nat
  BY <1>n
<1>3. m \in Ending(l, P) /\ Ending(l, P) \in SUBSET Nat
  <2>1. m \in Ending(l, P)
    BY <1>n, <1>1, <1>2 DEF Ending
  <2> QED
    BY <1>0, <2>1, EndingIn
<1>4. \A i \in Ending(l, P) : i <= m
  <2> SUFFICES ASSUME NEW i \in Ending(l, P) PROVE i <= m
    OBVIOUS
  <2>1. CASE i \in S
    BY <1>1, <1>2, <2>1 DEF Ending
  <2>2. CASE i \notin S
    <3>1. i < m /\ i \in Nat /\ m \in Nat
      BY <1>n, <1>0, <1>2, <2>2 DEF Ending
    <3> QED BY <3>1
  <2> QED
    BY <2>1, <2>2
<1>5. Max(Ending(l, P)) = m
  BY <1>3, <1>4, LastIs
<1> QED
  BY <1>2, <1>3, <1>5 DEF ShownOf

LEMMA ShownJoin ==
    ASSUME NEW l, NEW n, NEW P, NEW S, Suffix(S, P, n), NEW w
    PROVE  ShownOf(l, ShownOf(l, w, P \ S), S) = ShownOf(l, w, P)
<1>1. CASE Ending(l, S) # {}
  BY <1>1, ShownSuffix
<1>2. CASE Ending(l, S) = {}
  <2>1. Ending(l, P \ S) = Ending(l, P)
    BY <1>2 DEF Ending
  <2> QED
    BY <1>2, <2>1 DEF ShownOf
<1> QED
  BY <1>1, <1>2

LEMMA Announcing ==
    /\ DOMAIN Announced = {"queued", "started", "ended", "retried", "deleted"}
    /\ Announced["queued"] = "queued" /\ Announced["started"] = "running" /\ Announced["ended"] = "ended"
    /\ Announced["retried"] = "queued" /\ Announced["deleted"] = "deleted"
    /\ \A k \in DOMAIN Announced : Announced[k] \in Row
  BY DEF Announced, Row

(* The log and its pages *)

\* One more event is recorded.
RetriesAt(l, i) == {k \in 1 .. i : l[k] = "retried"}
LEMMA Appended ==
    ASSUME log \in Seq(Kind), NEW kind \in Kind, Record(kind)
    PROVE  /\ log' \in Seq(Kind) /\ Len(log') = Len(log) + 1 /\ log'[Len(log) + 1] = kind
           /\ \A i \in 1 .. Len(log) : log'[i] = log[i]
           /\ \A i \in 1 .. Len(log) : RunOf(i)' = RunOf(i)
           /\ RunOf(Len(log))' = RunOf(Len(log)) + (IF kind = "retried" THEN 1 ELSE 0)
           /\ RunOf(Len(log)) \in Nat
<1>1. /\ log' \in Seq(Kind) /\ Len(log') = Len(log) + 1 /\ log'[Len(log) + 1] = kind
      /\ \A i \in 1 .. Len(log) : log'[i] = log[i] /\ Len(log) \in Nat
  BY DEF Record
<1>2. PICK n \in Nat : n = Len(log)
  BY <1>1
<1>3. ASSUME NEW i \in 1 .. n PROVE RetriesAt(log', i) = RetriesAt(log, i)
  <2>1. \A k \in 1 .. i : log'[k] = log[k]
    BY <1>1, <1>2
  <2> QED
    BY <2>1 DEF RetriesAt
<1>4. RetriesAt(log', n + 1) = RetriesAt(log, n) \cup (IF kind = "retried" THEN {n + 1} ELSE {})
  BY <1>1, <1>2 DEF RetriesAt
<1>5. IsFiniteSet(RetriesAt(log, n)) /\ Cardinality(RetriesAt(log, n)) \in Nat /\ n + 1 \notin RetriesAt(log, n)
  <2>1. RetriesAt(log, n) \in SUBSET (1 .. n) /\ IsFiniteSet(1 .. n)
    BY FS_Interval DEF RetriesAt
  <2>2. n + 1 \notin 1 .. n
    OBVIOUS
  <2> QED
    BY <2>1, <2>2, FS_Subset, FS_CardinalityType
<1>6. \A i : RunOf(i) = Cardinality(RetriesAt(log, i)) /\ RunOf(i)' = Cardinality(RetriesAt(log', i))
  BY DEF RunOf, RetriesAt
<1>7. RunOf(Len(log))' = Cardinality(RetriesAt(log', n + 1)) /\ RunOf(Len(log)) = Cardinality(RetriesAt(log, n))
  BY <1>1, <1>2 DEF RunOf, RetriesAt
<1>8. \A i \in 1 .. Len(log) : RunOf(i)' = RunOf(i)
  BY <1>2, <1>3, <1>6
<1>9. CASE kind = "retried"
  <2>1. RetriesAt(log', n + 1) = RetriesAt(log, n) \cup {n + 1}
    BY <1>4, <1>9
  <2>2. Cardinality(RetriesAt(log, n) \cup {n + 1}) = Cardinality(RetriesAt(log, n)) + 1
    BY <1>5, FS_AddElement
  <2> QED
    BY <1>7, <1>1, <1>5, <1>9, <1>8, <2>1, <2>2
<1>10. CASE kind # "retried"
  <2>1. RetriesAt(log', n + 1) = RetriesAt(log, n)
    BY <1>4, <1>10
  <2>2. Cardinality(RetriesAt(log, n)) = Cardinality(RetriesAt(log, n)) + 0
    BY <1>5
  <2> QED
    BY <1>7, <1>1, <1>5, <1>10, <1>8, <2>1, <2>2
<1> QED
  BY <1>9, <1>10

\* A page of the store.
LEMMA Page ==
    ASSUME StreamTyped, NEW c \in Nat, NEW page, page = PageFrom(c),
           NEW rest, rest = {i \in Visible : i > c}
    PROVE  /\ page \in SUBSET rest /\ rest \in SUBSET (1 .. Len(log)) /\ Len(log) \in Nat
           /\ page = {} => rest = {}
           /\ page # {} => Max(page) \in page /\ page = {i \in rest : i <= Max(page)}
           /\ Full(page) \/ page = rest
<1>1. /\ purged \in Nat /\ Len(log) \in Nat /\ purged <= Len(log)
      /\ PageSize \in Nat /\ PageSize # 0
  BY PageAssumption DEF StreamTyped
<1>2. PICK n \in Nat : n = Len(log)
  BY <1>1
<1>3. PICK from \in Nat : from = IF c > purged THEN c + 1 ELSE purged + 1
  BY <1>1
<1>4. from >= 1 /\ from > c /\ from > purged
  BY <1>1, <1>3
<1>5. page = {i \in from .. from + PageSize - 1 : i \in Visible}
  BY <1>3 DEF PageFrom
<1>6. Visible = purged + 1 .. n
  BY <1>2 DEF Visible
<1>7. rest = from .. n
  BY <1>1, <1>3, <1>6
<1>8. page = {i \in from .. n : i <= from + PageSize - 1}
  BY <1>1, <1>4, <1>5, <1>6
<1>9. page = {} => rest = {}
  <2> SUFFICES ASSUME page = {}, rest # {} PROVE FALSE
    OBVIOUS
  <2>1. from \in from .. n
    BY <1>7
  <2>2. from <= from + PageSize - 1
    BY <1>1
  <2> QED
    BY <1>8, <2>1, <2>2
<1>10. page # {} => Max(page) \in page /\ page = {i \in rest : i <= Max(page)}
  <2> SUFFICES ASSUME page # {} PROVE Max(page) \in page /\ page = {i \in rest : i <= Max(page)}
    OBVIOUS
  <2>1. page \in SUBSET Nat /\ \A i \in page : i <= n
    BY <1>8
  <2>2. Max(page) \in page /\ \A i \in page : i <= Max(page)
    BY <2>1, LastOne
  <2>3. PICK m \in page : m = Max(page)
    BY <2>2
  <2>4. m \in from .. n /\ m <= from + PageSize - 1
    BY <1>8
  <2>5. \A i \in rest : i <= m => i \in page
    BY <1>1, <1>7, <1>8, <2>4
  <2>6. \A i \in page : i \in rest /\ i <= m
    BY <1>7, <1>8, <2>2, <2>3
  <2> QED
    BY <2>2, <2>3, <2>5, <2>6
<1>11. Full(page) \/ page = rest
  <2>1. CASE n <= from + PageSize - 1
    BY <1>1, <1>7, <1>8, <2>1
  <2>2. CASE from + PageSize - 1 < n
    <3>1. page = from .. from + PageSize - 1
      BY <1>1, <1>8, <2>2
    <3>2. Cardinality(from .. from + PageSize - 1) = (from + PageSize - 1) - from + 1
      BY <1>1, FS_Interval
    <3>3. (from + PageSize - 1) - from + 1 = PageSize
      BY <1>1
    <3> QED
      BY <3>1, <3>2, <3>3 DEF Full
  <2> QED
    BY <1>1, <2>1, <2>2
<1>12. page \in SUBSET rest /\ rest \in SUBSET (1 .. Len(log))
  BY <1>2, <1>4, <1>7, <1>8
<1> QED
  BY <1>1, <1>9, <1>10, <1>11, <1>12

-----------------------------------------------------------------------------
(* The client reads the detail *)

\* Only f moves, and nothing is written.
Only(f) ==
    \A g \in Followers \ {f} :
      /\ fpc'[g] = fpc[g] /\ after'[g] = after[g] /\ cursor'[g] = cursor[g] /\ slot'[g] = slot[g]
      /\ exhausted'[g] = exhausted[g] /\ first'[g] = first[g] /\ view'[g] = view[g]
      /\ heard'[g] = heard[g]

LEMMA NothingWritten ==
    ASSUME StreamInv, UNCHANGED writers
    PROVE  /\ StreamTyped' /\ Writers' /\ Written'
           /\ log' = log /\ row' = row /\ purged' = purged /\ own' = own
           /\ Retold' = Retold /\ Visible' = Visible /\ Executions("ended")' = Executions("ended")
           /\ Settled' = Settled /\ PublishDue' = PublishDue /\ Quieting' = Quieting
           /\ ReadFails' = ReadFails /\ StopAtTerminal' = StopAtTerminal
           /\ \A i : RunOf(i)' = RunOf(i)
<1>1. /\ setup' = setup /\ row' = row /\ log' = log /\ purged' = purged /\ marked' = marked
      /\ pending' = pending /\ hooks' = hooks /\ sub' = sub /\ own' = own /\ again' = again
      /\ retries' = retries /\ wakes' = wakes
  BY DEF writers
<1>2. /\ Retold' = Retold /\ Visible' = Visible /\ \A k : Executions(k)' = Executions(k)
      /\ Overtaken' = Overtaken /\ \A i : RunOf(i)' = RunOf(i)
      /\ ReadFails' = ReadFails /\ StopAtTerminal' = StopAtTerminal /\ Locked' = Locked
  BY <1>1 DEF Retold, Visible, Executions, Overtaken, RunOf, ReadFails, Faults, StopAtTerminal, Locked
<1>3. PublishDue' = PublishDue
  BY <1>1 DEF PublishDue
<1>4. Settled' = Settled /\ Quieting' = Quieting
  BY <1>1, <1>2 DEF Settled, Quieting
<1>5. StreamTyped' /\ Writers'
  BY <1>1, <1>2 DEF StreamInv, StreamTyped, Writers
<1>6. Written'
  BY <1>1, <1>2, <1>4 DEF StreamInv, Written
<1> QED
  BY <1>1, <1>2, <1>3, <1>4, <1>5, <1>6

LEMMA FollowerMoves ==
    ASSUME StreamInv, UNCHANGED writers, NEW f \in Followers, Only(f), FollowTyped', Follows(f)'
    PROVE  StreamInv'
<1>1. /\ StreamTyped' /\ Writers' /\ Written'
      /\ log' = log /\ row' = row /\ purged' = purged /\ own' = own
      /\ Retold' = Retold /\ Visible' = Visible /\ Executions("ended")' = Executions("ended")
      /\ Settled' = Settled /\ PublishDue' = PublishDue /\ Quieting' = Quieting
      /\ ReadFails' = ReadFails /\ StopAtTerminal' = StopAtTerminal
      /\ \A i : RunOf(i)' = RunOf(i)
  BY NothingWritten
<1>2. ASSUME NEW g \in Followers, g # f PROVE Follows(g)'
  <2>1. /\ fpc'[g] = fpc[g] /\ after'[g] = after[g] /\ cursor'[g] = cursor[g] /\ slot'[g] = slot[g]
        /\ exhausted'[g] = exhausted[g] /\ first'[g] = first[g] /\ view'[g] = view[g]
        /\ heard'[g] = heard[g]
    BY <1>2 DEF Only
  <2>2. Follows(g)
    BY DEF StreamInv
  <2>3. Beyond(g)' = Beyond(g)
    BY <1>1, <2>1 DEF Beyond
  <2>4. Told(g)' = Told(g) /\ Over(g)' = Over(g)
    BY <1>1, <2>1 DEF Told, Over
  <2>5. Answers(g)'
    BY <1>1, <2>1, <2>2, <2>4 DEF Follows, Answers
  <2>6. EndsWhole(g)'
    BY <1>1, <2>1, <2>2, <2>3 DEF Follows, EndsWhole
  <2>7. Caught(g)'
    BY <1>1, <2>1, <2>2, <2>3 DEF Follows, Caught
  <2>8. Shows(g)'
    BY <1>1, <2>1, <2>2, <2>3 DEF Follows, Shows
  <2> QED
    BY <1>1, <2>1, <2>2, <2>5, <2>6, <2>7, <2>8 DEF Follows
<1> QED
  BY <1>1, <1>2 DEF StreamInv

\* A step that sends nothing.
LEMMA SendsNothing ==
    ASSUME StreamInv, UNCHANGED writers, NEW f \in Followers, Only(f), FollowTyped',
           cursor'[f] = cursor[f], view'[f] = view[f], Answers(f)', Caught(f)',
           fpc'[f] # "cursor",
           fpc'[f] \notin {"returned", "gone"} => fpc[f] \notin {"cursor", "job", "returned", "gone"}
    PROVE  StreamInv'
<1>1. /\ log' = log /\ row' = row /\ Visible' = Visible /\ Settled' = Settled
  BY NothingWritten
<1>2. Follows(f)
  BY DEF StreamInv
<1>3. Beyond(f)' = Beyond(f)
  BY <1>1 DEF Beyond
<1>4. EndsWhole(f)'
  BY DEF EndsWhole
<1>5. Shows(f)'
  BY <1>1, <1>2, <1>3 DEF Follows, Shows
<1>6. cursor'[f] <= Len(log')
  BY <1>1, <1>2 DEF Follows
<1>7. Follows(f)'
  BY <1>4, <1>5, <1>6 DEF Follows
<1> QED
  BY <1>7, FollowerMoves

\* A follow that is over.
LEMMA EndsKeeps ==
    ASSUME StreamInv, UNCHANGED writers, NEW f \in Followers, NEW how \in {"returned", "gone"},
           Ends(f, how), slot' = slot, exhausted' = exhausted, heard' = heard,
           first' \in [Followers -> BOOLEAN], \A g \in Followers : g # f => first'[g] = first[g]
    PROVE  StreamInv'
<1>ty. FollowTyped
  BY DEF StreamInv
<1>1. /\ fpc' = [fpc EXCEPT ![f] = how] /\ cursor' = [cursor EXCEPT ![f] = 0]
      /\ view' = [view EXCEPT ![f] = "queued"] /\ after' = [after EXCEPT ![f] = "head"]
  BY DEF Ends, Goto
<1>2. FollowTyped'
  BY <1>ty, <1>1 DEF FollowTyped, Row
<1>3. Only(f) /\ fpc'[f] = how /\ cursor'[f] = 0
  BY <1>ty, <1>1 DEF Only, FollowTyped
<1>4. Retold' = Retold /\ Len(log') \in Nat
  BY NothingWritten DEF StreamTyped
<1>5. Answers(f)'
  BY <1>3, <1>4 DEF Answers, StreamInv, Follows
<1>6. EndsWhole(f)' /\ Caught(f)' /\ Shows(f)'
  BY <1>3 DEF EndsWhole, Caught, Shows, Checks
<1>7. Follows(f)'
  BY <1>3, <1>4, <1>5, <1>6 DEF Follows
<1> QED
  BY <1>2, <1>3, <1>7, FollowerMoves

LEMMA DetailCursorKeeps == ASSUME StreamInv, NEW f \in Followers, DetailCursor(f) PROVE StreamInv'
<1>ty. FollowTyped /\ StreamTyped /\ Writers
  BY DEF StreamInv
<1>1. /\ fpc' = [fpc EXCEPT ![f] = "job"] /\ heard' = [heard EXCEPT ![f] = 0]
      /\ cursor' = [cursor EXCEPT ![f] = IF Visible = {} THEN 0 ELSE Len(log)]
      /\ after' = after /\ exhausted' = exhausted /\ first' = first /\ view' = view /\ slot' = slot
      /\ UNCHANGED writers
  BY DEF DetailCursor, Goto, Untouched
<1>0. Len(log) \in Nat
  BY <1>ty DEF StreamTyped
<1>2. /\ fpc'[f] = "job" /\ heard'[f] = 0 /\ cursor'[f] <= Len(log)
  BY <1>ty, <1>0, <1>1 DEF FollowTyped
<1>3. FollowTyped'
  <2>1. cursor' \in [Followers -> Nat] /\ heard' \in [Followers -> Nat]
    BY <1>ty, <1>0, <1>1 DEF FollowTyped
  <2>2. fpc' \in [Followers -> DetailSteps \cup StreamSteps \cup {"returned", "gone"}]
    BY <1>ty, <1>1 DEF FollowTyped, DetailSteps
  <2> QED
    BY <1>ty, <1>1, <2>1, <2>2 DEF FollowTyped
<1>4. Only(f)
  BY <1>ty, <1>1 DEF Only, FollowTyped
<1>5. Retold >= 0 /\ Retold' = Retold /\ log' = log
  <2>1. Retold >= 0
    BY <1>ty DEF StreamTyped, Writers, Retold
  <2> QED
    BY <1>1, <2>1, NothingWritten
<1>6. Answers(f)'
  BY <1>2, <1>5 DEF Answers
<1>7. EndsWhole(f)' /\ Caught(f)' /\ Shows(f)'
  BY <1>2 DEF EndsWhole, Caught, Shows, Checks
<1>8. Follows(f)'
  BY <1>2, <1>5, <1>6, <1>7 DEF Follows
<1> QED
  BY <1>1, <1>3, <1>4, <1>8, FollowerMoves

\* The events beyond a cursor are the end of the log.
LEMMA BeyondIsSuffix ==
    ASSUME StreamTyped, NEW c \in Nat, NEW rest, rest = {i \in Visible : i > c}
    PROVE  rest \in SUBSET (1 .. Len(log)) /\ \A i \in (1 .. Len(log)) \ rest, j \in rest : i < j
<1>1. purged \in Nat /\ Len(log) \in Nat
  BY DEF StreamTyped
<1>2. \A i \in 1 .. Len(log) : i \in rest <=> i > c /\ i > purged
  BY <1>1 DEF Visible
<1>3. rest \in SUBSET (1 .. Len(log))
  BY <1>1 DEF Visible
<1> QED
  BY <1>1, <1>2, <1>3

LEMMA LastDecides ==
    ASSUME StreamTyped, NEW c \in Nat, NEW rest, rest = {i \in Visible : i > c}, NEW v, NEW w
    PROVE  /\ Ending(log, rest) # {} => ShownOf(log, v, rest) = ShownOf(log, w, 1 .. Len(log))
           /\ Ending(log, rest) = {} => ShownOf(log, v, rest) = v
<1>1. rest \in SUBSET (1 .. Len(log)) /\ \A i \in (1 .. Len(log)) \ rest, j \in rest : i < j
  BY BeyondIsSuffix
<1>2. PICK n \in Nat : n = Len(log)
  BY DEF StreamTyped
<1>3. PICK P \in SUBSET (1 .. n) : P = 1 .. n
  OBVIOUS
<1>4. Suffix(rest, P, n)
  BY <1>1, <1>2, <1>3 DEF Suffix
<1>5. Ending(log, rest) # {} => ShownOf(log, v, rest) = ShownOf(log, w, P)
  BY <1>4, ShownSuffix
<1>6. Ending(log, rest) = {} => ShownOf(log, v, rest) = v
  BY DEF ShownOf
<1> QED
  BY <1>2, <1>3, <1>5, <1>6

LEMMA DetailJobKeeps == ASSUME StreamInv, NEW f \in Followers, DetailJob(f) PROVE StreamInv'
<1>ty. FollowTyped /\ StreamTyped /\ Written
  BY DEF StreamInv
<1>0. UNCHANGED writers /\ slot' = slot /\ exhausted' = exhausted /\ heard' = heard /\ first' = first
  BY DEF DetailJob, Untouched
<1>1. CASE Ends(f, "gone")
  BY <1>ty, <1>0, <1>1, EndsKeeps DEF FollowTyped
<1>2. CASE /\ Goto(f, "hookList") /\ view' = [view EXCEPT ![f] = row]
           /\ UNCHANGED <<cursor, after>>
  <2>1. /\ fpc' = [fpc EXCEPT ![f] = "hookList"] /\ cursor' = cursor /\ after' = after
    BY <1>2 DEF Goto
  <2>2. FollowTyped'
    BY <1>ty, <1>0, <1>2, <2>1 DEF FollowTyped, DetailSteps, StreamTyped
  <2>3. Only(f) /\ fpc'[f] = "hookList" /\ view'[f] = row /\ cursor'[f] = cursor[f] /\ heard'[f] = heard[f]
    BY <1>ty, <1>0, <1>2, <2>1 DEF Only, FollowTyped
  <2>4. /\ log' = log /\ row' = row /\ Visible' = Visible /\ Settled' = Settled /\ Retold' = Retold
    BY <1>0, NothingWritten
  <2>5. cursor[f] \in Nat /\ Len(log) \in Nat
    BY <1>ty DEF FollowTyped, StreamTyped
  <2>6. Settled => ShownOf(log, row, Beyond(f)) = row
    <3> PICK rest : rest = Beyond(f)
      OBVIOUS
    <3>1. \/ ShownOf(log, row, rest) = ShownOf(log, row, 1 .. Len(log))
          \/ ShownOf(log, row, rest) = row
      BY <1>ty, <2>5, LastDecides DEF Beyond
    <3> QED
      BY <1>ty, <3>1 DEF Written
  <2>7. Beyond(f)' = Beyond(f)
    BY <2>3, <2>4 DEF Beyond
  <2>8. Shows(f)'
    BY <2>3, <2>4, <2>6, <2>7 DEF Shows
  <2>9. Answers(f)' /\ EndsWhole(f)' /\ Caught(f)'
    BY <2>3, <2>4 DEF Answers, EndsWhole, Caught, Checks, StreamInv, Follows
  <2>10. Follows(f)'
    BY <2>3, <2>4, <2>8, <2>9 DEF Follows, StreamInv
  <2> QED
    BY <1>0, <2>2, <2>3, <2>10, FollowerMoves
<1> QED
  BY <1>1, <1>2 DEF DetailJob

LEMMA DetailHookListKeeps == ASSUME StreamInv, NEW f \in Followers, DetailHookList(f) PROVE StreamInv'
<1>ty. FollowTyped
  BY DEF StreamInv
<1>1. /\ fpc[f] = "hookList" /\ fpc' = [fpc EXCEPT ![f] = "hookPending"] /\ UNCHANGED writers
      /\ after' = after /\ cursor' = cursor /\ slot' = slot /\ exhausted' = exhausted
      /\ first' = first /\ view' = view /\ heard' = heard
  BY DEF DetailHookList, Goto, Untouched
<1>2. Only(f) /\ fpc'[f] = "hookPending" /\ FollowTyped'
  BY <1>ty, <1>1 DEF Only, FollowTyped, DetailSteps
<1>3. Answers(f)' /\ Caught(f)'
  BY <1>1, <1>2, NothingWritten DEF Answers, Caught, Checks, StreamInv, Follows
<1> QED
  BY <1>1, <1>2, <1>3, SendsNothing

LEMMA DetailHookPendingKeeps ==
    ASSUME StreamInv, NEW f \in Followers, DetailHookPending(f)
    PROVE  StreamInv'
<1>ty. FollowTyped /\ StreamTyped /\ Written
  BY DEF StreamInv
<1>0. /\ fpc[f] = "hookPending" /\ UNCHANGED writers /\ slot' = slot /\ exhausted' = exhausted
      /\ heard' = heard /\ first' = [first EXCEPT ![f] = FALSE]
  BY DEF DetailHookPending, Untouched
<1>1. CASE Ends(f, "returned")
  BY <1>ty, <1>0, <1>1, EndsKeeps DEF FollowTyped
<1>2. CASE ~Ends(f, "returned")
  <2>1. PICK c \in {0, cursor[f]} :
          /\ fpc' = [fpc EXCEPT ![f] = "open"] /\ cursor' = [cursor EXCEPT ![f] = c]
          /\ after' = after /\ view' = view
    BY <1>2 DEF DetailHookPending, Goto
  <2>2. cursor[f] \in Nat /\ Len(log) \in Nat /\ c \in Nat
    BY <1>ty DEF FollowTyped, StreamTyped
  <2>3. FollowTyped'
    BY <1>ty, <1>0, <2>1, <2>2 DEF FollowTyped, StreamSteps
  <2>4. Only(f) /\ fpc'[f] = "open" /\ view'[f] = view[f] /\ cursor'[f] = c /\ heard'[f] = heard[f]
    BY <1>ty, <1>0, <2>1 DEF Only, FollowTyped
  <2>5. /\ log' = log /\ row' = row /\ Visible' = Visible /\ Settled' = Settled /\ Retold' = Retold
    BY <1>0, NothingWritten
  <2>6. Settled => ShownOf(log, view[f], {i \in Visible : i > c}) = row
    <3> SUFFICES ASSUME Settled, c = 0
        PROVE ShownOf(log, view[f], {i \in Visible : i > c}) = row
      BY <1>0 DEF Shows, Beyond, StreamInv, Follows
    <3> PICK rest : rest = {i \in Visible : i > cursor[f]}
      OBVIOUS
    <3>0. PICK whole : whole = {i \in Visible : i > c}
      OBVIOUS
    <3>1. \A i \in rest : i \in Nat
      <4>1. rest \in SUBSET (1 .. Len(log))
        BY <1>ty, <2>2, BeyondIsSuffix
      <4> QED
        BY <2>2, <4>1
    <3>2. rest \in SUBSET whole
      <4>1. \A i \in rest : i \in Visible /\ i > 0
        BY <2>2, <3>1
      <4> QED
        BY <3>0, <4>1
    <3>3. ShownOf(log, row, 1 .. Len(log)) = row /\ ShownOf(log, view[f], rest) = row
      BY <1>ty, <1>0 DEF Written, StreamInv, Follows, Shows, Beyond
    <3>4. CASE Ending(log, whole) # {}
      <4>1. StreamTyped /\ c \in Nat
        BY <1>ty, <2>2
      <4>2. \A v, w : ShownOf(log, v, whole) = ShownOf(log, w, 1 .. Len(log))
        BY <3>0, <3>4, <4>1, LastDecides
      <4> QED
        BY <3>0, <3>3, <4>2
    <3>5. CASE Ending(log, whole) = {}
      <4>1. Ending(log, rest) = {}
        BY <3>2, <3>5 DEF Ending
      <4> QED
        BY <3>0, <3>3, <3>5, <4>1 DEF ShownOf
    <3> QED
      BY <3>4, <3>5
  <2>7. Beyond(f)' = {i \in Visible : i > c}
    BY <2>4, <2>5 DEF Beyond
  <2>8. Shows(f)'
    BY <2>4, <2>5, <2>6, <2>7 DEF Shows
  <2>9. Answers(f)' /\ EndsWhole(f)' /\ Caught(f)'
    BY <2>4, <2>5 DEF Answers, EndsWhole, Caught, Checks, StreamInv, Follows
  <2>10. cursor'[f] <= Len(log')
    BY <2>2, <2>4, <2>5 DEF Follows, StreamInv
  <2>11. Follows(f)'
    BY <2>8, <2>9, <2>10 DEF Follows
  <2> QED
    BY <1>0, <2>3, <2>4, <2>11, FollowerMoves
<1> QED
  BY <1>1, <1>2

-----------------------------------------------------------------------------
(* The handler *)

LEMMA OpenKeeps == ASSUME StreamInv, NEW f \in Followers, Open(f) PROVE StreamInv'
<1>ty. FollowTyped
  BY DEF StreamInv
<1>1. /\ fpc[f] = "open" /\ UNCHANGED writers /\ slot' = slot /\ exhausted' = exhausted
      /\ first' = first /\ heard' = heard
  BY DEF Open, Untouched
<1>2. CASE Ends(f, "gone")
  BY <1>ty, <1>1, <1>2, EndsKeeps DEF FollowTyped
<1>3. CASE Goto(f, "subscribe") /\ UNCHANGED <<after, cursor, view>>
  <2>1. fpc' = [fpc EXCEPT ![f] = "subscribe"] /\ after' = after /\ cursor' = cursor /\ view' = view
    BY <1>3 DEF Goto
  <2>2. Only(f) /\ fpc'[f] = "subscribe" /\ FollowTyped'
    BY <1>ty, <1>1, <2>1 DEF Only, FollowTyped, StreamSteps
  <2>3. Answers(f)' /\ Caught(f)'
    BY <1>1, <2>1, <2>2, NothingWritten DEF Answers, Caught, Checks, StreamInv, Follows
  <2> QED
    BY <1>1, <2>1, <2>2, <2>3, SendsNothing
<1> QED
  BY <1>2, <1>3 DEF Open

LEMMA SubscribeKeeps == ASSUME StreamInv, NEW f \in Followers, Subscribe(f) PROVE StreamInv'
<1>ty. FollowTyped
  BY DEF StreamInv
<1>1. /\ fpc[f] = "subscribe" /\ fpc' = [fpc EXCEPT ![f] = "row"] /\ UNCHANGED writers
      /\ after' = [after EXCEPT ![f] = "head"] /\ cursor' = cursor /\ slot' = [slot EXCEPT ![f] = FALSE]
      /\ exhausted' = exhausted /\ first' = first /\ view' = view /\ heard' = heard
  BY DEF Subscribe, Goto
<1>2. Only(f) /\ fpc'[f] = "row" /\ after'[f] = "head" /\ FollowTyped'
  BY <1>ty, <1>1 DEF Only, FollowTyped, StreamSteps, Checks
<1>3. Answers(f)' /\ Caught(f)'
  BY <1>1, <1>2, NothingWritten DEF Answers, Caught, StreamInv, Follows
<1> QED
  BY <1>1, <1>2, <1>3, SendsNothing

\* A wake, a tick, a broken connection or an ended stream.
LEMMA TurnsKeep ==
    ASSUME StreamInv, NEW f \in Followers, Woken(f) \/ Redrain(f) \/ Cut(f) \/ EndStreams(f)
    PROVE  StreamInv'
<1>ty. FollowTyped
  BY DEF StreamInv
<1>1. CASE Woken(f)
  <2>1. /\ fpc[f] = "wait" /\ fpc' = [fpc EXCEPT ![f] = "drain"] /\ UNCHANGED writers
        /\ after' = after /\ cursor' = cursor /\ slot' = [slot EXCEPT ![f] = FALSE]
        /\ exhausted' = exhausted /\ first' = first /\ view' = view /\ heard' = heard
    BY <1>1 DEF Woken, Goto
  <2>2. Only(f) /\ fpc'[f] = "drain" /\ FollowTyped'
    BY <1>ty, <2>1 DEF Only, FollowTyped, StreamSteps
  <2>3. Answers(f)' /\ Caught(f)'
    BY <2>1, <2>2, NothingWritten DEF Answers, Caught, StreamInv, Follows, Checks
  <2> QED
    BY <2>1, <2>2, <2>3, SendsNothing
<1>2. CASE Redrain(f)
  <2>1. /\ fpc[f] = "wait" /\ fpc' = [fpc EXCEPT ![f] = "drain"] /\ UNCHANGED writers
        /\ after' = after /\ cursor' = cursor /\ slot' = slot
        /\ exhausted' = exhausted /\ first' = first /\ view' = view /\ heard' = heard
    BY <1>2 DEF Redrain, Goto, Untouched
  <2>2. Only(f) /\ fpc'[f] = "drain" /\ FollowTyped'
    BY <1>ty, <2>1 DEF Only, FollowTyped, StreamSteps
  <2>3. Answers(f)' /\ Caught(f)'
    BY <2>1, <2>2, NothingWritten DEF Answers, Caught, StreamInv, Follows, Checks
  <2> QED
    BY <2>1, <2>2, <2>3, SendsNothing
<1>3. CASE Cut(f) \/ EndStreams(f)
  <2>1. PICK to \in {"open", "reread"} :
          /\ fpc[f] \in Subscribed /\ fpc' = [fpc EXCEPT ![f] = to] /\ UNCHANGED writers
          /\ after' = after /\ cursor' = cursor /\ slot' = slot
          /\ exhausted' = exhausted /\ first' = first /\ view' = view /\ heard' = heard
    BY <1>3 DEF Cut, EndStreams, CutShort, Goto, Untouched
  <2>2. Only(f) /\ fpc'[f] = to /\ FollowTyped'
    BY <1>ty, <2>1 DEF Only, FollowTyped, StreamSteps, DetailSteps
  <2>3. Answers(f)' /\ Caught(f)'
    BY <2>1, <2>2, NothingWritten DEF Answers, Caught, StreamInv, Follows, Checks
  <2>4. fpc[f] \notin {"cursor", "job", "returned", "gone"}
    BY <2>1 DEF Subscribed, Checks
  <2> QED
    BY <2>1, <2>2, <2>3, <2>4, SendsNothing
<1> QED
  BY <1>1, <1>2, <1>3

LEMMA ExecutionsMany == ASSUME StreamTyped PROVE \A k \in {"queued", "ended"} : Executions(k) \in Nat
<1> SUFFICES ASSUME NEW k \in {"queued", "ended"} PROVE Executions(k) \in Nat
  OBVIOUS
<1>1. hooks[k] \in [HookSteps -> Nat]
  BY DEF StreamTyped
<1>2. /\ hooks[k].dispatched \in Nat /\ hooks[k].startPublish \in Nat /\ hooks[k].running \in Nat
      /\ hooks[k].endPublish \in Nat /\ hooks[k].over \in Nat
  BY <1>1 DEF HookSteps
<1> QED
  BY <1>2 DEF Executions

\* eventsExhausted answers: on with the backlog, with the last drain, or to wait.
LEMMA AnswerKeeps ==
    ASSUME StreamInv, NEW f \in Followers, NEW yes \in BOOLEAN, Answer(f, yes), UNCHANGED writers,
           fpc[f] \in Checks, after' = after, cursor' = cursor, slot' = slot, first' = first, view' = view,
           heard' \in [Followers -> Nat], \A g \in Followers : g # f => heard'[g] = heard[g],
           heard'[f] <= Retold, yes => Over(f)'
    PROVE  StreamInv'
<1>ty. FollowTyped
  BY DEF StreamInv
<1>1. PICK to \in {"backlog", "drain2", "wait"} :
        /\ fpc' = [fpc EXCEPT ![f] = to] /\ (to # "backlog" => after[f] = "loop")
        /\ (to = "drain2" => yes)
  BY <1>ty DEF Answer, Goto, FollowTyped
<1>2. PICK end \in BOOLEAN : exhausted' = [exhausted EXCEPT ![f] = end] /\ (end => yes)
  BY DEF Answer
<1>3. /\ fpc'[f] = to /\ exhausted'[f] = end /\ Only(f)
  BY <1>ty, <1>1, <1>2 DEF Only, FollowTyped
<1>4. FollowTyped'
  BY <1>ty, <1>1, <1>2 DEF FollowTyped, StreamSteps
<1>5. Retold' = Retold /\ Visible' = Visible /\ PublishDue' = PublishDue /\ ReadFails' = ReadFails
  BY NothingWritten
<1>6. Answers(f)'
  BY <1>1, <1>2, <1>3, <1>5 DEF Answers
<1>7. Beyond(f)' = Beyond(f)
  BY <1>5 DEF Beyond
<1>8. Caught(f)'
  BY <1>1, <1>3, <1>5, <1>7 DEF Caught, Checks, StreamInv, Follows
<1>9. fpc[f] \notin {"cursor", "job", "returned", "gone"}
  BY DEF Checks
<1> QED
  BY <1>1, <1>3, <1>4, <1>6, <1>8, <1>9, SendsNothing

LEMMA CheckRowKeeps == ASSUME StreamInv, NEW f \in Followers, CheckRow(f) PROVE StreamInv'
<1>ty. FollowTyped /\ StreamTyped /\ Writers /\ Follows(f)
  BY DEF StreamInv
<1>1. /\ fpc[f] = "row" /\ UNCHANGED writers /\ slot' = slot /\ after' = after /\ cursor' = cursor
      /\ first' = first /\ view' = view
      /\ heard' = [heard EXCEPT ![f] = IF Terminal THEN retries ELSE @]
  BY DEF CheckRow, Untouched
<1>2. Retold \in Int /\ retries \in Nat /\ (Terminal => Retold = retries)
  BY <1>ty DEF StreamTyped, Writers, Retold, Terminal, Locked
<1>3. /\ heard' \in [Followers -> Nat] /\ \A g \in Followers : g # f => heard'[g] = heard[g]
      /\ heard'[f] <= Retold /\ (~Terminal => heard'[f] = heard[f])
  BY <1>ty, <1>1, <1>2 DEF FollowTyped, Follows, Answers
<1>4. /\ own' = own /\ Quieting' = Quieting /\ Executions("ended")' = Executions("ended")
      /\ Retold' = Retold /\ Visible' = Visible /\ PublishDue' = PublishDue /\ ReadFails' = ReadFails
  BY <1>1, NothingWritten
<1>5. CASE row = "deleted" /\ Answer(f, TRUE)
  <2>1. Over(f)'
    BY <1>ty, <1>4, <1>5 DEF Writers, Over, Quieting
  <2> QED
    BY <1>1, <1>3, <1>5, <2>1, AnswerKeeps DEF Checks
<1>6. CASE Answer(f, FALSE)
  BY <1>1, <1>3, <1>6, AnswerKeeps DEF Checks
<1>7. CASE Terminal /\ Goto(f, "finalizing") /\ UNCHANGED exhausted
  <2>1. fpc' = [fpc EXCEPT ![f] = "finalizing"] /\ exhausted' = exhausted
    BY <1>7 DEF Goto
  <2>2. Only(f) /\ fpc'[f] = "finalizing" /\ FollowTyped'
    BY <1>ty, <1>1, <1>3, <2>1 DEF Only, FollowTyped, StreamSteps, Checks
  <2>3. Quieting'
    BY <1>4, <1>7 DEF Quieting, Terminal
  <2>4. Answers(f)'
    BY <1>3, <1>4, <2>2, <2>3 DEF Answers
  <2>5. Caught(f)'
    <3>1. Beyond(f)' = Beyond(f)
      BY <1>1, <1>4 DEF Beyond
    <3> QED
      BY <1>ty, <1>1, <1>4, <2>2, <3>1 DEF Caught, Checks, Follows
  <2> QED
    BY <1>1, <2>2, <2>4, <2>5, SendsNothing
<1> QED
  BY <1>5, <1>6, <1>7 DEF CheckRow

LEMMA CheckFinalizingKeeps ==
    ASSUME StreamInv, NEW f \in Followers, CheckFinalizing(f)
    PROVE  StreamInv'
<1>ty. FollowTyped /\ StreamTyped /\ Writers /\ Follows(f)
  BY DEF StreamInv
<1>1. /\ fpc[f] = "finalizing" /\ UNCHANGED writers /\ slot' = slot /\ after' = after
      /\ cursor' = cursor /\ first' = first /\ view' = view /\ heard' = heard
  BY DEF CheckFinalizing, Untouched
<1>2. heard' \in [Followers -> Nat] /\ heard'[f] <= Retold
  BY <1>ty, <1>1 DEF FollowTyped, Follows, Answers
<1>3. /\ own' = own /\ Quieting' = Quieting
      /\ Retold' = Retold /\ Visible' = Visible /\ PublishDue' = PublishDue /\ ReadFails' = ReadFails
  BY <1>1, NothingWritten
<1>4. CASE marked
  BY <1>1, <1>2, <1>4, AnswerKeeps DEF Checks, CheckFinalizing
<1>5. CASE ~marked
  <2>1. fpc' = [fpc EXCEPT ![f] = "hooks"] /\ exhausted' = exhausted
    BY <1>5 DEF CheckFinalizing, Goto
  <2>2. Only(f) /\ fpc'[f] = "hooks" /\ FollowTyped'
    BY <1>ty, <1>1, <2>1 DEF Only, FollowTyped, StreamSteps, Checks
  <2>3. own = "none" /\ (Told(f) \/ Quieting)
    BY <1>ty, <1>1, <1>5 DEF Writers, Follows, Answers
  <2>4. Told(f)' = Told(f)
    BY <1>1, <1>3 DEF Told
  <2>5. Answers(f)'
    BY <1>2, <1>3, <2>2, <2>3, <2>4 DEF Answers
  <2>6. Caught(f)'
    <3>1. Beyond(f)' = Beyond(f)
      BY <1>1, <1>3 DEF Beyond
    <3> QED
      BY <1>ty, <1>1, <1>3, <2>2, <3>1 DEF Caught, Checks, Follows
  <2> QED
    BY <1>1, <2>2, <2>5, <2>6, SendsNothing
<1> QED
  BY <1>4, <1>5

LEMMA CheckHooksKeeps == ASSUME StreamInv, NEW f \in Followers, CheckHooks(f) PROVE StreamInv'
<1>ty. FollowTyped /\ StreamTyped /\ Writers /\ Follows(f)
  BY DEF StreamInv
<1>1. /\ fpc[f] = "hooks" /\ UNCHANGED writers /\ slot' = slot /\ after' = after
      /\ cursor' = cursor /\ first' = first /\ view' = view /\ heard' = heard /\ Answer(f, pending = 0)
  BY DEF CheckHooks, Untouched
<1>2. heard' \in [Followers -> Nat] /\ heard'[f] <= Retold
  BY <1>ty, <1>1 DEF FollowTyped, Follows, Answers
<1>3. /\ own' = own /\ Quieting' = Quieting /\ Retold' = Retold
      /\ Executions("ended")' = Executions("ended")
  BY <1>1, NothingWritten
<1>4. pending = 0 => Executions("ended") = 0
  <2>1. Executions("queued") \in Nat /\ Executions("ended") \in Nat
    BY <1>ty, ExecutionsMany
  <2> QED
    BY <1>ty, <2>1 DEF Writers
<1>5. Told(f)' = Told(f)
  BY <1>1, <1>3 DEF Told
<1>6. pending = 0 => Over(f)'
  BY <1>ty, <1>1, <1>3, <1>4, <1>5 DEF Over, Follows, Answers
<1> PICK yes \in BOOLEAN : yes = (pending = 0)
  OBVIOUS
<1> QED
  BY <1>1, <1>2, <1>6, AnswerKeeps DEF Checks

\* A page goes out: what is beyond the cursor gets shorter, what is shown in the
\* end does not change.
LEMMA Sent ==
    ASSUME StreamInv, UNCHANGED writers, NEW f \in Followers, NEW page, page = PageFrom(cursor[f]),
           NEW next \in StreamSteps \cup {"cursor"}, Send(f, page, next),
           fpc[f] \notin {"cursor", "job", "returned", "gone"}
    PROVE  /\ fpc' = [fpc EXCEPT ![f] = IF f \in StopAtTerminal /\ \E i \in page : log[i] = "ended"
                                         THEN "cursor" ELSE next]
           /\ cursor' \in [Followers -> Nat] /\ \A g \in Followers : g # f => cursor'[g] = cursor[g]
           /\ view' \in [Followers -> Row] /\ \A g \in Followers : g # f => view'[g] = view[g]
           /\ cursor'[f] <= Len(log)
           /\ page = {} => Beyond(f) = {}
           /\ Full(page) \/ Beyond(f)' = {}
           /\ page = {} => Beyond(f)' = {}
           /\ Shows(f)'
<1>ty. FollowTyped /\ StreamTyped /\ Follows(f)
  BY DEF StreamInv
<1>0. /\ log' = log /\ row' = row /\ Visible' = Visible /\ Settled' = Settled
  BY NothingWritten
<1>1. /\ cursor' = [cursor EXCEPT ![f] = IF page = {} THEN @ ELSE Max(page)]
      /\ view' = [view EXCEPT ![f] = Shown(@, page)]
      /\ fpc' = [fpc EXCEPT ![f] = IF f \in StopAtTerminal /\ \E i \in page : log[i] = "ended"
                                   THEN "cursor" ELSE next]
  BY DEF Send, Goto
<1>2. cursor[f] \in Nat /\ Len(log) \in Nat /\ cursor[f] <= Len(log) /\ view[f] \in Row
  BY <1>ty DEF FollowTyped, StreamTyped, Follows
<1> PICK rest : rest = {i \in Visible : i > cursor[f]}
  OBVIOUS
<1>3. /\ page \in SUBSET rest /\ rest \in SUBSET (1 .. Len(log))
      /\ page = {} => rest = {}
      /\ page # {} => Max(page) \in page /\ page = {i \in rest : i <= Max(page)}
      /\ Full(page) \/ page = rest
  BY <1>ty, <1>2, Page
<1>4. rest = Beyond(f)
  BY DEF Beyond
<1> PICK c : c = IF page = {} THEN cursor[f] ELSE Max(page)
  OBVIOUS
<1>5. c \in Nat /\ c >= cursor[f] /\ c <= Len(log)
  <2>1. CASE page = {}
    BY <1>2, <2>1
  <2>2. CASE page # {}
    <3>1. c \in rest
      BY <1>3, <2>2
    <3>2. c \in 1 .. Len(log) /\ c > cursor[f]
      BY <1>3, <3>1
    <3> QED
      BY <1>2, <3>2
  <2> QED
    BY <2>1, <2>2
<1>6. cursor' \in [Followers -> Nat] /\ cursor'[f] = c /\ \A g \in Followers : g # f => cursor'[g] = cursor[g]
  BY <1>ty, <1>1, <1>5 DEF FollowTyped
<1>7. Beyond(f)' = {i \in Visible : i > c}
  BY <1>0, <1>6 DEF Beyond
<1>8. {i \in Visible : i > c} = rest \ page
  <2>1. CASE page = {}
    BY <2>1
  <2>2. CASE page # {}
    <3>1. \A i \in rest : i \in Nat
      BY <1>2, <1>3
    <3>2. \A i \in rest : i \in page <=> i <= c
      BY <1>3, <2>2
    <3>3. \A i \in Visible : i > c => i \in rest
      <4> SUFFICES ASSUME NEW i \in Visible, i > c PROVE i > cursor[f]
        OBVIOUS
      <4>1. i \in Int
        BY <1>ty DEF Visible, StreamTyped
      <4> QED
        BY <1>2, <1>5, <4>1
    <3>4. \A i \in rest : i > c <=> ~(i <= c)
      BY <1>5, <3>1
    <3> QED
      BY <3>2, <3>3, <3>4
  <2> QED
    BY <2>1, <2>2
<1>9. Shown(view[f], page) = ShownOf(log, view[f], page)
  BY ShownIs
<1>10. ShownOf(log, view[f], page) \in Row
  <2>1. page \in SUBSET (1 .. Len(log))
    BY <1>3
  <2>2. Ending(log, page) # {} => log[Max(Ending(log, page))] \in DOMAIN Announced
    BY <1>2, <2>1, EndingLast
  <2> QED
    BY <1>2, <2>2, Announcing DEF ShownOf
<1>11. view' \in [Followers -> Row] /\ view'[f] = ShownOf(log, view[f], page)
       /\ \A g \in Followers : g # f => view'[g] = view[g]
  BY <1>ty, <1>1, <1>9, <1>10 DEF FollowTyped
<1>12. ShownOf(log, ShownOf(log, view[f], page), rest \ page) = ShownOf(log, view[f], rest)
  <2> PICK n \in Nat : n = Len(log)
    BY <1>2
  <2> PICK S : S = rest \ page
    OBVIOUS
  <2>1. rest \ S = page
    BY <1>3
  <2>2. \A i \in page, j \in S : i < j
    <3> SUFFICES ASSUME NEW i \in page, NEW j \in S PROVE i < j
      OBVIOUS
    <3>1. i <= Max(page) /\ ~(j <= Max(page)) /\ i \in Nat /\ j \in Nat /\ Max(page) \in Nat
      BY <1>2, <1>3
    <3> QED
      BY <3>1
  <2>3. Suffix(S, rest, n)
    BY <1>3, <2>1, <2>2 DEF Suffix
  <2> QED
    BY <2>1, <2>3, ShownJoin
<1>13. Settled => ShownOf(log, view[f], rest) = row
  BY <1>ty, <1>4 DEF Follows, Shows
<1>14. Shows(f)'
  BY <1>0, <1>7, <1>8, <1>11, <1>12, <1>13 DEF Shows
<1>15. Full(page) \/ Beyond(f)' = {}
  BY <1>3, <1>7, <1>8
<1>16. page = {} => Beyond(f) = {} /\ Beyond(f)' = {}
  BY <1>3, <1>4, <1>7, <1>8
<1> QED
  BY <1>1, <1>5, <1>6, <1>11, <1>14, <1>15, <1>16

\* The handler reads a page and sends it.
LEMMA PageKeeps ==
    ASSUME StreamInv, UNCHANGED writers, NEW f \in Followers, NEW page, page = PageFrom(cursor[f]),
           NEW next \in {"cursor", "drain", "drain2", "row"}, Send(f, page, next),
           fpc[f] \in {"backlog", "drain", "drain2"},
           slot' = slot, first' = first, heard' = heard,
           after' \in [Followers -> {"head", "loop"}], after'[f] = "loop",
           \A g \in Followers : g # f => after'[g] = after[g],
           exhausted' \in [Followers -> BOOLEAN], \A g \in Followers : g # f => exhausted'[g] = exhausted[g],
           next \in {"cursor", "drain2"} => Over(f),
           next \in {"cursor", "row"} => page = {} \/ ~Full(page)
    PROVE  StreamInv'
<1>ty. FollowTyped /\ StreamTyped /\ Follows(f)
  BY DEF StreamInv
<1>1. /\ fpc' = [fpc EXCEPT ![f] = IF f \in StopAtTerminal /\ \E i \in page : log[i] = "ended"
                                   THEN "cursor" ELSE next]
      /\ cursor' \in [Followers -> Nat] /\ \A g \in Followers : g # f => cursor'[g] = cursor[g]
      /\ view' \in [Followers -> Row] /\ \A g \in Followers : g # f => view'[g] = view[g]
      /\ cursor'[f] <= Len(log) /\ Shows(f)'
      /\ Full(page) \/ Beyond(f)' = {}
      /\ page = {} => Beyond(f)' = {}
  BY Sent DEF StreamSteps, Checks
<1>2. PICK to \in {"cursor", next} :
        fpc' = [fpc EXCEPT ![f] = to] /\ (to # next => to = "cursor" /\ f \in StopAtTerminal)
  BY <1>1
<1>3. fpc'[f] = to /\ heard'[f] = heard[f] /\ Only(f)
  BY <1>ty, <1>1, <1>2 DEF Only, FollowTyped
<1>4. FollowTyped'
  <2>1. to \in DetailSteps \cup StreamSteps
    BY <1>2 DEF DetailSteps, StreamSteps, Checks
  <2> QED
    BY <1>ty, <1>1, <1>2, <2>1 DEF FollowTyped
<1>5. /\ log' = log /\ Retold' = Retold /\ own' = own /\ Quieting' = Quieting
      /\ Executions("ended")' = Executions("ended") /\ StopAtTerminal' = StopAtTerminal
  BY NothingWritten
<1>6. Over(f)' = Over(f)
  BY <1>3, <1>5 DEF Over, Told
<1>7. Answers(f)'
  BY <1>ty, <1>2, <1>3, <1>5, <1>6 DEF Answers, Follows
<1>8. EndsWhole(f)'
  BY <1>1, <1>2, <1>3, <1>5 DEF EndsWhole
<1>9. Caught(f)'
  BY <1>1, <1>2, <1>3 DEF Caught, Checks
<1>10. Follows(f)'
  BY <1>1, <1>5, <1>7, <1>8, <1>9 DEF Follows
<1> QED
  BY <1>3, <1>4, <1>10, FollowerMoves

LEMMA BacklogKeeps == ASSUME StreamInv, NEW f \in Followers, Backlog(f) PROVE StreamInv'
<1>ty. FollowTyped /\ Follows(f)
  BY DEF StreamInv
<1>1. /\ fpc[f] = "backlog" /\ UNCHANGED writers /\ slot' = slot /\ first' = first /\ heard' = heard
      /\ after' = [after EXCEPT ![f] = "loop"] /\ exhausted' = [exhausted EXCEPT ![f] = FALSE]
  BY DEF Backlog, Untouched
<1>2. /\ after' \in [Followers -> {"head", "loop"}] /\ after'[f] = "loop"
      /\ \A g \in Followers : g # f => after'[g] = after[g]
      /\ exhausted' \in [Followers -> BOOLEAN] /\ \A g \in Followers : g # f => exhausted'[g] = exhausted[g]
  BY <1>ty, <1>1 DEF FollowTyped
<1> PICK page : page = PageFrom(cursor[f])
  OBVIOUS
<1>3. exhausted[f] => Over(f)
  BY <1>ty, <1>1 DEF Follows, Answers
<1>4. CASE Send(f, page, IF page = {} /\ exhausted[f] THEN "cursor" ELSE "drain")
  <2>1. PICK next \in {"cursor", "drain"} :
          Send(f, page, next) /\ (next = "cursor" => page = {} /\ exhausted[f])
    BY <1>4
  <2>2. /\ next \in {"cursor", "drain", "drain2", "row"} /\ fpc[f] \in {"backlog", "drain", "drain2"}
        /\ next \in {"cursor", "drain2"} => Over(f)
        /\ next \in {"cursor", "row"} => page = {} \/ ~Full(page)
    BY <1>1, <1>3, <2>1
  <2>3. UNCHANGED writers /\ slot' = slot /\ first' = first /\ heard' = heard /\ Send(f, page, next)
    BY <1>1, <2>1
  <2> QED
    BY <1>2, <2>2, <2>3, PageKeeps
<1>5. CASE ReadFails /\ Goto(f, "open") /\ UNCHANGED <<cursor, view>>
  <2>1. fpc' = [fpc EXCEPT ![f] = "open"] /\ cursor' = cursor /\ view' = view
    BY <1>5 DEF Goto
  <2>2. Only(f) /\ fpc'[f] = "open"
    BY <1>ty, <1>1, <1>2, <2>1 DEF Only, FollowTyped
  <2>3. FollowTyped'
    BY <1>ty, <1>1, <1>2, <2>1 DEF FollowTyped, StreamSteps
  <2>4. Answers(f)' /\ Caught(f)'
    BY <1>ty, <1>1, <2>2, NothingWritten DEF Answers, Caught, Checks, Follows
  <2> QED
    BY <1>1, <2>1, <2>2, <2>3, <2>4, SendsNothing
<1> QED
  BY <1>4, <1>5 DEF Backlog

\* A drain whose read fails goes to wait for the next tick.
LEMMA ReadFailing ==
    ASSUME StreamInv, UNCHANGED writers, NEW f \in Followers, fpc[f] \in {"drain", "drain2"},
           ReadFails, Goto(f, "wait"), UNCHANGED <<cursor, view>>,
           slot' = slot, first' = first, heard' = heard, after' = after, exhausted' = exhausted
    PROVE  StreamInv'
<1>ty. FollowTyped /\ Follows(f)
  BY DEF StreamInv
<1>1. fpc' = [fpc EXCEPT ![f] = "wait"]
  BY DEF Goto
<1>2. Only(f) /\ fpc'[f] = "wait"
  BY <1>ty, <1>1 DEF Only, FollowTyped
<1>3. FollowTyped'
  BY <1>ty, <1>1 DEF FollowTyped, StreamSteps
<1>4. Answers(f)' /\ Caught(f)'
  BY <1>ty, <1>2, NothingWritten DEF Answers, Caught, Checks, Follows
<1> QED
  BY <1>2, <1>3, <1>4, SendsNothing

LEMMA DrainKeeps == ASSUME StreamInv, NEW f \in Followers, Drain(f) PROVE StreamInv'
<1>ty. FollowTyped /\ Follows(f)
  BY DEF StreamInv
<1>1. /\ fpc[f] = "drain" /\ UNCHANGED writers /\ slot' = slot /\ first' = first /\ heard' = heard
      /\ after' = after /\ exhausted' = exhausted
  BY DEF Drain, Untouched
<1>2. /\ after' \in [Followers -> {"head", "loop"}] /\ after'[f] = "loop"
      /\ exhausted' \in [Followers -> BOOLEAN]
  BY <1>ty, <1>1 DEF FollowTyped, Follows, Caught
<1> PICK page : page = PageFrom(cursor[f])
  OBVIOUS
<1>4. CASE Send(f, page, IF Full(page) THEN "drain" ELSE "row")
  <2>1. PICK next \in {"drain", "row"} : Send(f, page, next) /\ (next = "row" => ~Full(page))
    BY <1>4
  <2> QED
    BY <1>1, <1>2, <2>1, PageKeeps
<1>5. CASE ReadFails /\ Goto(f, "wait") /\ UNCHANGED <<cursor, view>>
  BY <1>1, <1>5, ReadFailing
<1> QED
  BY <1>4, <1>5 DEF Drain

LEMMA SecondDrainKeeps == ASSUME StreamInv, NEW f \in Followers, SecondDrain(f) PROVE StreamInv'
<1>ty. FollowTyped /\ Follows(f)
  BY DEF StreamInv
<1>1. /\ fpc[f] = "drain2" /\ UNCHANGED writers /\ slot' = slot /\ first' = first /\ heard' = heard
      /\ after' = after /\ exhausted' = exhausted
  BY DEF SecondDrain, Untouched
<1>2. /\ after' \in [Followers -> {"head", "loop"}] /\ after'[f] = "loop"
      /\ exhausted' \in [Followers -> BOOLEAN]
  BY <1>ty, <1>1 DEF FollowTyped, Follows, Caught
<1>3. Over(f)
  BY <1>ty, <1>1 DEF Follows, Answers
<1> PICK page : page = PageFrom(cursor[f])
  OBVIOUS
<1>4. CASE Send(f, page, IF Full(page) THEN "drain2" ELSE "cursor")
  <2>1. PICK next \in {"drain2", "cursor"} : Send(f, page, next) /\ (next = "cursor" => ~Full(page))
    BY <1>4
  <2> QED
    BY <1>1, <1>2, <1>3, <2>1, PageKeeps
<1>5. CASE ReadFails /\ Goto(f, "wait") /\ UNCHANGED <<cursor, view>>
  BY <1>1, <1>5, ReadFailing
<1> QED
  BY <1>4, <1>5 DEF SecondDrain

-----------------------------------------------------------------------------
(* What a writer may do to those that have their answers *)

\* Nothing is recorded.
LEMMA Unlogged ==
    ASSUME StreamInv, UNCHANGED readers, log' = log, purged' = purged,
           \A f \in Followers : slot[f] => slot'[f], slot' \in [Followers -> BOOLEAN],
           Retold' = Retold,
           Quieting => Quieting',
           own = "none" /\ Quieting => own' = "none",
           own = "none" /\ Executions("ended") = 0 /\ Quieting => Executions("ended")' = 0,
           PublishDue => PublishDue' \/ \A f \in Followers : fpc[f] \in Subscribed => slot'[f],
           Settled' => Settled /\ row' = row,
           log = <<>> => UNCHANGED <<sub, row, own, again, retries>>
    PROVE  FollowTyped' /\ Written' /\ \A f \in Followers : Follows(f)'
<1>ty. FollowTyped /\ StreamTyped
  BY DEF StreamInv
<1>1. /\ setup' = setup /\ fpc' = fpc /\ after' = after /\ cursor' = cursor /\ exhausted' = exhausted
      /\ first' = first /\ view' = view /\ heard' = heard
  BY DEF readers
<1>2. ReadFails' = ReadFails /\ StopAtTerminal' = StopAtTerminal
  BY <1>1 DEF ReadFails, Faults, StopAtTerminal
<1>3. Visible' = Visible /\ \A i : RunOf(i)' = RunOf(i)
  BY DEF Visible, RunOf
<1>4. FollowTyped' /\ Written'
  <2>1. FollowTyped'
    BY <1>ty, <1>1 DEF FollowTyped
  <2>2. RunOf(Len(log))' = Retold'
    BY <1>3 DEF Written, StreamInv, RunOf
  <2>3. Settled' => ShownOf(log', row', 1 .. Len(log')) = row'
    BY DEF Written, StreamInv
  <2>4. log' = <<>> => sub' = "event" /\ row' = "queued" /\ own' = "none" /\ again' = "none" /\ retries' = 0
    BY DEF Written, StreamInv
  <2> QED
    BY <2>1, <2>2, <2>3, <2>4 DEF Written
<1>5. ASSUME NEW f \in Followers PROVE Follows(f)'
  <2>1. Follows(f) /\ (slot[f] => slot'[f])
    BY DEF StreamInv
  <2>2. Beyond(f)' = Beyond(f) /\ Told(f)' = Told(f)
    BY <1>1, <1>3 DEF Beyond, Told
  <2>3. Over(f) => Over(f)'
    BY <2>2 DEF Over
  <2>4. Answers(f)'
    BY <1>1, <1>2, <2>1, <2>2, <2>3 DEF Follows, Answers
  <2>5. EndsWhole(f)'
    BY <1>1, <1>2, <1>3, <2>1, <2>2 DEF Follows, EndsWhole
  <2>6. fpc[f] \in Checks \cup {"wait"} => fpc[f] \in Subscribed
    BY DEF Subscribed
  <2>7. Caught(f)'
    BY <1>1, <1>2, <2>1, <2>2, <2>6 DEF Follows, Caught
  <2>8. Shows(f)'
    BY <1>1, <2>1, <2>2 DEF Follows, Shows
  <2> QED
    BY <1>1, <2>1, <2>4, <2>5, <2>7, <2>8 DEF Follows
<1> QED
  BY <1>4, <1>5

\* What a step that records an event of a kind keeps.
RunTold(kind) == Retold' = Retold + (IF kind = "retried" THEN 1 ELSE 0)
Keeping ==
    /\ Quieting => Quieting'
    /\ own = "none" /\ Quieting => own' = "none"
    /\ own = "none" /\ Executions("ended") = 0 /\ Quieting => Executions("ended")' = 0
Announces(kind) ==
    Settled' => IF kind \in DOMAIN Announced THEN Announced[kind] = row' ELSE Settled /\ row' = row
Late(kind) ==
    kind \in {"started", "ended", "hook of ended"} =>
      ~(own = "none" /\ Executions("ended") = 0 /\ Quieting)
Purges(kind) == purged' = purged \/ (purged' = Len(log) /\ kind = "deleted")

\* One event is recorded, and its publish is still to come.
LEMMA Logged ==
    ASSUME StreamInv, UNCHANGED readers, slot' = slot, NEW kind \in Kind, Record(kind),
           Purges(kind), RunTold(kind), kind # "retried" => Keeping, Late(kind),
           PublishDue', Announces(kind)
    PROVE  FollowTyped' /\ Written' /\ purged' \in Nat /\ purged' <= Len(log') /\ log' \in Seq(Kind)
           /\ \A f \in Followers : Follows(f)'
<1>ty. FollowTyped /\ StreamTyped /\ Written
  BY DEF StreamInv
<1>1. /\ setup' = setup /\ fpc' = fpc /\ after' = after /\ cursor' = cursor /\ exhausted' = exhausted
      /\ first' = first /\ view' = view /\ heard' = heard
  BY DEF readers
<1>2. ReadFails' = ReadFails /\ StopAtTerminal' = StopAtTerminal
  BY <1>1 DEF ReadFails, Faults, StopAtTerminal
<1>3. FollowTyped'
  BY <1>ty, <1>1 DEF FollowTyped
<1>4. /\ log' \in Seq(Kind) /\ Len(log') = Len(log) + 1 /\ log'[Len(log) + 1] = kind
      /\ \A i \in 1 .. Len(log) : log'[i] = log[i]
      /\ \A i \in 1 .. Len(log) : RunOf(i)' = RunOf(i)
      /\ RunOf(Len(log))' = RunOf(Len(log)) + (IF kind = "retried" THEN 1 ELSE 0)
      /\ RunOf(Len(log)) \in Nat
  BY <1>ty, Appended DEF StreamTyped
<1> PICK n \in Nat : n = Len(log)
  BY <1>ty DEF StreamTyped
<1>5. /\ Len(log') = n + 1 /\ log'[n + 1] = kind /\ \A i \in 1 .. n : log'[i] = log[i]
      /\ \A i \in 1 .. n : RunOf(i)' = RunOf(i)
  BY <1>4
<1>6. purged' \in Nat /\ purged' <= n + 1 /\ purged \in Nat /\ purged <= n /\ purged' >= purged
      /\ purged' <= n
  BY <1>ty DEF StreamTyped, Purges
<1>7. RunOf(n + 1)' = Retold'
  BY <1>ty, <1>4, <1>5 DEF Written, RunOf, RunTold
<1>8. Retold \in Int /\ Retold' \in Int /\ Retold' >= Retold /\ (kind = "retried" => Retold' > Retold)
  <2>1. Retold \in Int
    BY <1>ty DEF StreamTyped, Retold
  <2> QED
    BY <2>1 DEF RunTold
\* What is shown: an announced status is the row's.
<1>9. ASSUME NEW P \in SUBSET (1 .. n), NEW v, Settled',
             kind \notin DOMAIN Announced => ShownOf(log, v, P) = row
      PROVE  ShownOf(log', v, P \cup {n + 1}) = row'
  <2>1. ShownOf(log', v, P \cup {n + 1}) =
          IF kind \in DOMAIN Announced THEN Announced[kind] ELSE ShownOf(log', v, P)
    BY <1>5, ShownNext
  <2>2. SameOn(log, log', P)
    BY <1>5 DEF SameOn
  <2>3. ShownOf(log', v, P) = ShownOf(log, v, P)
    <3> PICK l, l2 : l = log /\ l2 = log'
      OBVIOUS
    <3>1. SameOn(l, l2, P)
      BY <2>2
    <3>2. \A w : ShownOf(l2, w, P) = ShownOf(l, w, P)
      BY ONLY <3>1, n \in Nat, P \in SUBSET (1 .. n), ShownSame
    <3> QED
      BY <3>2
  <2> QED
    BY <1>9, <2>1, <2>3 DEF Announces
<1>10. Written'
  <2>1. log' # <<>>
    BY <1>4, <1>5
  <2>2. RunOf(Len(log))' = Retold'
    BY <1>5, <1>7 DEF RunOf
  <2>3. Settled' => ShownOf(log', row', 1 .. n + 1) = row'
    <3> SUFFICES ASSUME Settled' PROVE ShownOf(log', row', 1 .. n + 1) = row'
      OBVIOUS
    <3>1. 1 .. n + 1 = (1 .. n) \cup {n + 1}
      OBVIOUS
    <3>2. kind \notin DOMAIN Announced => ShownOf(log, row', 1 .. n) = row
      BY <1>ty DEF Written, Announces
    <3> PICK P \in SUBSET (1 .. n) : P = 1 .. n
      OBVIOUS
    <3>3. ShownOf(log', row', P \cup {n + 1}) = row'
      BY <1>9, <3>2
    <3> QED
      BY <3>1, <3>3
  <2> QED
    BY <1>5, <2>1, <2>2, <2>3 DEF Written
<1>11. ASSUME NEW f \in Followers PROVE Follows(f)'
  <2>1. Follows(f) /\ cursor[f] \in Nat /\ cursor[f] <= n
    BY <1>ty DEF StreamInv, Follows, FollowTyped
  <2> PICK P : P = Beyond(f)' \ {n + 1}
    OBVIOUS
  <2>2. \A i : i \in Beyond(f)' <=> i \in Int /\ i > purged' /\ i <= n + 1 /\ i > cursor[f]
    BY <1>1, <1>5, <1>6 DEF Beyond, Visible
  <2>3. \A i : i \in Beyond(f) <=> i \in Int /\ i > purged /\ i <= n /\ i > cursor[f]
    BY <1>6 DEF Beyond, Visible
  <2>4. Beyond(f)' = P \cup {n + 1}
    <3>1. n + 1 \in Beyond(f)'
      BY <1>6, <2>1, <2>2
    <3> QED
      BY <3>1
  <2>5. P \in SUBSET Beyond(f) /\ P \in SUBSET (1 .. n)
    <3> SUFFICES ASSUME NEW i \in P PROVE i \in Beyond(f) /\ i \in 1 .. n
      OBVIOUS
    <3>1. i \in Int /\ i > purged' /\ i <= n + 1 /\ i > cursor[f] /\ i # n + 1
      BY <2>2
    <3>2. i > purged /\ i <= n /\ i >= 1
      BY <1>6, <3>1
    <3> QED
      BY <2>3, <3>1, <3>2
  <2>6. purged' = purged => P = Beyond(f)
    <3> SUFFICES ASSUME purged' = purged, NEW i \in Beyond(f) PROVE i \in P
      BY <2>5
    <3>1. i \in Int /\ i > purged' /\ i <= n /\ i > cursor[f]
      BY <2>3
    <3>2. i <= n + 1 /\ i # n + 1
      BY <3>1
    <3> QED
      BY <2>2, <3>1, <3>2
  <2>7. heard[f] \in Nat /\ heard[f] <= Retold
    BY <1>ty, <2>1 DEF Follows, Answers, FollowTyped
  <2>8. heard[f] <= Retold' /\ (Told(f) => Told(f)') /\ (kind = "retried" => Told(f)')
    BY <1>1, <1>8, <2>7 DEF Told
  <2>9. Over(f) => Over(f)'
    BY <2>8 DEF Over, Keeping
  <2>10. Answers(f)'
    BY <1>1, <1>2, <2>1, <2>8, <2>9 DEF Follows, Answers, Keeping
  <2>11. EndsWhole(f)'
    <3> SUFFICES ASSUME f \notin StopAtTerminal, fpc[f] = "cursor", ~first[f], NEW i \in Beyond(f)'
        PROVE (RunOf(i) > heard[f])' \/ log'[i] \in {"deleted", "queued", "hook of queued"}
      BY <1>1, <1>2 DEF EndsWhole
    <3>1. CASE i \in P
      <4>1. i \in 1 .. n /\ i \in Beyond(f)
        BY <2>5, <3>1
      <4>2. RunOf(i) > heard[f] \/ log[i] \in {"deleted", "queued", "hook of queued"}
        BY <2>1, <4>1 DEF Follows, EndsWhole
      <4> QED
        BY <1>1, <1>5, <4>1, <4>2
    <3>2. CASE i = n + 1
      <4>1. Over(f)
        BY <2>1 DEF Follows, Answers
      <4>2. kind \in {"started", "ended", "hook of ended"} => Told(f)
        BY <4>1 DEF Over, Late
      <4>3. kind \in {"started", "ended", "hook of ended", "retried"} => Retold' > heard[f]
        BY <1>1, <2>8, <4>2 DEF Told
      <4>4. RunOf(i)' = Retold'
        BY <1>7, <3>2
      <4>5. kind \in {"started", "ended", "hook of ended", "retried"} => (RunOf(i) > heard[f])'
        BY <1>1, <4>3, <4>4
      <4>6. kind \notin {"started", "ended", "hook of ended", "retried"} =>
              log'[i] \in {"deleted", "queued", "hook of queued"}
        BY <1>5, <3>2 DEF Kind
      <4> QED
        BY <4>5, <4>6
    <3> QED
      BY <2>4, <3>1, <3>2
  <2>12. Caught(f)'
    BY <1>1, <2>1 DEF Follows, Caught
  <2>13. Shows(f)'
    <3> SUFFICES ASSUME fpc[f] \notin {"cursor", "job", "returned", "gone"}, Settled'
        PROVE ShownOf(log', view[f], P \cup {n + 1}) = row'
      BY <1>1, <2>4 DEF Shows
    <3>1. kind \notin DOMAIN Announced => ShownOf(log, view[f], P) = row
      <4>1. kind \notin DOMAIN Announced => purged' = purged
        BY Announcing DEF Purges
      <4>2. kind \notin DOMAIN Announced => Settled
        BY DEF Announces
      <4> QED
        BY <2>1, <2>6, <4>2, <4>1 DEF Follows, Shows
    <3> PICK v : v = view[f]
      OBVIOUS
    <3> QED
      BY <1>9, <2>5, <3>1
  <2> QED
    BY <1>1, <1>5, <1>6, <2>1, <2>10, <2>11, <2>12, <2>13 DEF Follows
<1> QED
  BY <1>3, <1>4, <1>5, <1>6, <1>10, <1>11

\* One execution of a hook takes one step, none appears or goes.
LEMMA HookMoved ==
    ASSUME StreamTyped, NEW k \in {"queued", "ended"}, NEW from, NEW to,
           <<from, to>> \in {<<"dispatched", "startPublish">>, <<"dispatched", "running">>,
                             <<"running", "endPublish">>, <<"running", "over">>,
                             <<"startPublish", "running">>, <<"endPublish", "over">>},
           HookMoves(k, from, to)
    PROVE  /\ hooks' \in [{"queued", "ended"} -> [HookSteps -> Nat]]
           /\ \A j \in {"queued", "ended"} : Executions(j)' = Executions(j)
           /\ hooks'[k][to] > 0 /\ Executions(k) > 0
<1>1. from \in HookSteps /\ to \in HookSteps /\ from # to
  BY DEF HookSteps
<1>2. /\ hooks[k][from] > 0
      /\ hooks' = [hooks EXCEPT ![k][from] = @ - 1, ![k][to] = @ + 1]
  BY DEF HookMoves
<1>3. /\ hooks \in [{"queued", "ended"} -> [HookSteps -> Nat]]
      /\ hooks[k] \in [HookSteps -> Nat]
  BY DEF StreamTyped
<1>4. PICK h \in [HookSteps -> Nat] : h = hooks[k]
  BY <1>3
<1>5. h[from] \in Nat /\ h[to] \in Nat /\ h[from] > 0
  BY <1>1, <1>2, <1>4
<1>6. PICK less \in Nat, more \in Nat : less = h[from] - 1 /\ more = h[to] + 1 /\ more > 0
  BY <1>5
<1>7. PICK h2 : h2 = [h EXCEPT ![from] = less, ![to] = more]
  OBVIOUS
<1>8. hooks' = [hooks EXCEPT ![k] = h2]
  BY <1>1, <1>2, <1>3, <1>4, <1>6, <1>7
<1>9. h2 \in [HookSteps -> Nat] /\ h2[to] = more /\ h2[from] = less
      /\ \A s \in HookSteps \ {from, to} : h2[s] = h[s]
  BY <1>1, <1>6, <1>7
<1>10. hooks'[k] = h2 /\ \A j \in {"queued", "ended"} : j # k => hooks'[j] = hooks[j]
  BY <1>3, <1>8
<1>11. hooks' \in [{"queued", "ended"} -> [HookSteps -> Nat]]
  BY <1>3, <1>8, <1>9
<1>12. PICK d \in Nat, s \in Nat, r \in Nat, e \in Nat, o \in Nat :
         /\ h["dispatched"] = d /\ h["startPublish"] = s /\ h["running"] = r
         /\ h["endPublish"] = e /\ h["over"] = o
  BY <1>4 DEF HookSteps
<1>13. PICK d2 \in Nat, s2 \in Nat, r2 \in Nat, e2 \in Nat, o2 \in Nat :
         /\ h2["dispatched"] = d2 /\ h2["startPublish"] = s2 /\ h2["running"] = r2
         /\ h2["endPublish"] = e2 /\ h2["over"] = o2
  BY <1>9 DEF HookSteps
<1>14. \/ d2 = d - 1 /\ s2 = s + 1 /\ r2 = r /\ e2 = e /\ o2 = o
       \/ d2 = d - 1 /\ r2 = r + 1 /\ s2 = s /\ e2 = e /\ o2 = o
       \/ r2 = r - 1 /\ e2 = e + 1 /\ s2 = s /\ d2 = d /\ o2 = o
       \/ r2 = r - 1 /\ o2 = o + 1 /\ s2 = s /\ d2 = d /\ e2 = e
       \/ s2 = s - 1 /\ r2 = r + 1 /\ d2 = d /\ e2 = e /\ o2 = o
       \/ e2 = e - 1 /\ o2 = o + 1 /\ s2 = s /\ d2 = d /\ r2 = r
  <2>1. \A x \in HookSteps \ {from, to} : h2[x] = h[x]
    BY <1>9
  <2>2. CASE from = "dispatched" /\ to = "startPublish"
    BY <1>6, <1>9, <1>12, <1>13, <2>1, <2>2 DEF HookSteps
  <2>3. CASE from = "dispatched" /\ to = "running"
    BY <1>6, <1>9, <1>12, <1>13, <2>1, <2>3 DEF HookSteps
  <2>4. CASE from = "running" /\ to = "endPublish"
    BY <1>6, <1>9, <1>12, <1>13, <2>1, <2>4 DEF HookSteps
  <2>5. CASE from = "running" /\ to = "over"
    BY <1>6, <1>9, <1>12, <1>13, <2>1, <2>5 DEF HookSteps
  <2>6. CASE from = "startPublish" /\ to = "running"
    BY <1>6, <1>9, <1>12, <1>13, <2>1, <2>6 DEF HookSteps
  <2>7. CASE from = "endPublish" /\ to = "over"
    BY <1>6, <1>9, <1>12, <1>13, <2>1, <2>7 DEF HookSteps
  <2> QED
    BY <2>2, <2>3, <2>4, <2>5, <2>6, <2>7
<1>15. d2 + s2 + r2 + e2 + o2 = d + s + r + e + o
  BY <1>12, <1>13, <1>14
<1>16. Executions(k) = d + s + r + e + o /\ Executions(k)' = d2 + s2 + r2 + e2 + o2
  BY <1>4, <1>10, <1>12, <1>13 DEF Executions
<1>17. d + s + r + e + o > 0
  <2>1. h[from] \in {d, s, r, e, o}
    BY <1>12
  <2> QED
    BY <1>5, <1>12, <2>1
<1>18. \A j \in {"queued", "ended"} : j # k => Executions(j)' = Executions(j)
  BY <1>10 DEF Executions
<1> QED
  BY <1>6, <1>9, <1>10, <1>11, <1>15, <1>16, <1>17, <1>18

-----------------------------------------------------------------------------
(* The submitter *)

LEMMA SubmitEventKeeps == ASSUME StreamInv, SubmitEvent PROVE StreamInv'
<1>ty. StreamTyped /\ Writers /\ Written
  BY DEF StreamInv
<1>1. /\ sub = "event" /\ Record("queued") /\ sub' = "publish" /\ UNCHANGED readers /\ slot' = slot
      /\ row' = row /\ purged' = purged /\ marked' = marked /\ pending' = pending /\ hooks' = hooks
      /\ own' = own /\ again' = again /\ retries' = retries /\ wakes' = wakes
  BY DEF SubmitEvent
<1>2. setup' = setup
  BY <1>1 DEF readers
<1>3. /\ Retold' = Retold /\ Quieting' = Quieting /\ Locked' = Locked
      /\ \A k : Executions(k)' = Executions(k)
  BY <1>1 DEF Retold, Quieting, Locked, Executions
<1>4. PublishDue' /\ "queued" \in Kind /\ "queued" \in DOMAIN Announced /\ Announced["queued"] = "queued"
  BY <1>1, Announcing DEF PublishDue, Kind
<1>5. Announces("queued")
  <2> SUFFICES ASSUME Settled' PROVE row' = "queued"
    BY <1>4 DEF Announces
  <2>1. /\ Len(log') = Len(log) + 1 /\ log'[Len(log) + 1] = "queued" /\ Len(log) \in Nat
    BY <1>1, <1>4, <1>ty, Appended DEF StreamTyped
  <2>2. ~(Len(log) + 1 \in 2 .. Len(log) + 1)
    BY <2>1 DEF Settled, Overtaken
  <2>3. Len(log) = 0
    BY <2>1, <2>2
  <2>4. log = <<>>
    BY <1>ty, <2>3 DEF StreamTyped
  <2> QED
    BY <1>ty, <1>1, <2>4 DEF Written
<1>6. Purges("queued") /\ Late("queued") /\ Keeping
  BY <1>1, <1>3 DEF Purges, Late, Keeping
<1>7. RunTold("queued")
  BY <1>ty, <1>3 DEF RunTold, Retold, StreamTyped
<1>8. /\ FollowTyped' /\ Written' /\ purged' \in Nat /\ purged' <= Len(log') /\ log' \in Seq(Kind)
      /\ \A f \in Followers : Follows(f)'
  BY <1>1, <1>4, <1>5, <1>6, <1>7, Logged
<1>9. StreamTyped' /\ Writers'
  BY <1>ty, <1>1, <1>2, <1>3, <1>8 DEF StreamTyped, Writers
<1> QED
  BY <1>8, <1>9 DEF StreamInv

\* A wake only ever fills slots.
LEMMA Waking ==
    ASSUME FollowTyped, WakeSubscribers
    PROVE  /\ slot' \in [Followers -> BOOLEAN] /\ \A f \in Followers : slot[f] => slot'[f]
           /\ \A f \in Followers : fpc[f] \in Subscribed => slot'[f]
<1>1. slot' = [f \in Followers |-> slot[f] \/ fpc[f] \in Subscribed]
  BY DEF WakeSubscribers
<1>2. \A f \in Followers : slot'[f] = (slot[f] \/ fpc[f] \in Subscribed)
  BY <1>1
<1>3. \A f \in Followers : slot[f] \in BOOLEAN
  BY DEF FollowTyped
<1>4. \A f \in Followers : (slot[f] \/ fpc[f] \in Subscribed) \in BOOLEAN
  OBVIOUS
<1> QED
  BY <1>1, <1>2, <1>4

LEMMA SubmitPublishKeeps == ASSUME StreamInv, SubmitPublish PROVE StreamInv'
<1>ty. StreamTyped /\ FollowTyped /\ Writers /\ Written
  BY DEF StreamInv
<1>1. /\ sub = "publish" /\ WakeSubscribers /\ sub' = "dispatch" /\ UNCHANGED readers
      /\ row' = row /\ purged' = purged /\ marked' = marked /\ pending' = pending /\ hooks' = hooks
      /\ own' = own /\ again' = again /\ retries' = retries /\ wakes' = wakes /\ log' = log
  BY DEF SubmitPublish
<1>2. setup' = setup
  BY <1>1 DEF readers
<1>3. /\ Retold' = Retold /\ Quieting' = Quieting /\ Locked' = Locked /\ Settled' = Settled
      /\ \A k : Executions(k)' = Executions(k)
  BY <1>1 DEF Retold, Quieting, Locked, Executions, Settled, Overtaken
<1>4. log # <<>>
  BY <1>ty, <1>1 DEF Written
<1>5. FollowTyped' /\ Written' /\ \A f \in Followers : Follows(f)'
  BY <1>ty, <1>1, <1>3, <1>4, Waking, Unlogged
<1>6. StreamTyped' /\ Writers'
  BY <1>ty, <1>1, <1>2, <1>3 DEF StreamTyped, Writers
<1> QED
  BY <1>5, <1>6 DEF StreamInv

\* Dispatch adds what it counts.
LEMMA Counted ==
    ASSUME StreamTyped, NEW k \in {"queued", "ended"}, Dispatched(k)
    PROVE  /\ hooks' \in [{"queued", "ended"} -> [HookSteps -> Nat]]
           /\ \E n \in Nat : pending' = pending + n /\ Executions(k)' = Executions(k) + n
           /\ \A j \in {"queued", "ended"} : j # k => Executions(j)' = Executions(j)
           /\ \A j \in {"queued", "ended"} :
                hooks'[j].startPublish = hooks[j].startPublish /\ hooks'[j].endPublish = hooks[j].endPublish
<1>1. HooksOn[k] \in Nat
  BY SetupsAssumption DEF HooksOn, StreamTyped
<1>2. PICK n \in Nat : n = HooksOn[k]
  BY <1>1
<1>3. pending' = pending + n /\ hooks' = [hooks EXCEPT ![k].dispatched = @ + n]
  BY <1>2 DEF Dispatched
<1>4. /\ hooks \in [{"queued", "ended"} -> [HookSteps -> Nat]]
      /\ hooks[k] \in [HookSteps -> Nat]
  BY DEF StreamTyped
<1>5. PICK h \in [HookSteps -> Nat] : h = hooks[k]
  BY <1>4
<1>6. PICK d \in Nat, s \in Nat, r \in Nat, e \in Nat, o \in Nat :
        /\ h["dispatched"] = d /\ h["startPublish"] = s /\ h["running"] = r
        /\ h["endPublish"] = e /\ h["over"] = o
  BY <1>5 DEF HookSteps
<1>7. PICK d2 \in Nat : d2 = d + n
  BY <1>6
<1>8. PICK h2 : h2 = [h EXCEPT !["dispatched"] = d2]
  OBVIOUS
<1>9. hooks' = [hooks EXCEPT ![k] = h2]
  BY <1>3, <1>4, <1>5, <1>6, <1>7, <1>8
<1>10. h2 \in [HookSteps -> Nat] /\ h2["dispatched"] = d2 /\ h2["startPublish"] = s /\ h2["running"] = r
       /\ h2["endPublish"] = e /\ h2["over"] = o
  BY <1>6, <1>7, <1>8 DEF HookSteps
<1>11. hooks'[k] = h2 /\ \A j \in {"queued", "ended"} : j # k => hooks'[j] = hooks[j]
  BY <1>4, <1>9
<1>12. hooks' \in [{"queued", "ended"} -> [HookSteps -> Nat]]
  BY <1>4, <1>9, <1>10
<1>13. Executions(k) = d + s + r + e + o /\ Executions(k)' = d2 + s + r + e + o
  BY <1>5, <1>6, <1>10, <1>11 DEF Executions
<1>14. Executions(k)' = Executions(k) + n
  BY <1>6, <1>7, <1>13
<1>15. \A j \in {"queued", "ended"} : j # k => Executions(j)' = Executions(j)
  BY <1>11 DEF Executions
<1>16. \A j \in {"queued", "ended"} :
         hooks'[j].startPublish = hooks[j].startPublish /\ hooks'[j].endPublish = hooks[j].endPublish
  BY <1>5, <1>6, <1>10, <1>11
<1> QED
  BY <1>3, <1>12, <1>14, <1>15, <1>16

LEMMA SubmitDispatchKeeps == ASSUME StreamInv, SubmitDispatch PROVE StreamInv'
<1>ty. StreamTyped /\ FollowTyped /\ Writers /\ Written
  BY DEF StreamInv
<1>1. /\ sub = "dispatch" /\ Dispatched("queued") /\ sub' = "done" /\ UNCHANGED readers /\ slot' = slot
      /\ row' = row /\ purged' = purged /\ marked' = marked
      /\ own' = own /\ again' = again /\ retries' = retries /\ wakes' = wakes /\ log' = log
  BY DEF SubmitDispatch
<1>2. setup' = setup
  BY <1>1 DEF readers
<1>3. /\ Retold' = Retold /\ Quieting' = Quieting /\ Locked' = Locked /\ Settled' = Settled
  BY <1>1 DEF Retold, Quieting, Locked, Settled, Overtaken
<1>4. log # <<>>
  BY <1>ty, <1>1 DEF Written
<1>5. PICK n \in Nat : pending' = pending + n /\ Executions("queued")' = Executions("queued") + n
  BY <1>ty, <1>1, Counted
<1>6. /\ hooks' \in [{"queued", "ended"} -> [HookSteps -> Nat]]
      /\ Executions("ended")' = Executions("ended")
      /\ \A j \in {"queued", "ended"} :
           hooks'[j].startPublish = hooks[j].startPublish /\ hooks'[j].endPublish = hooks[j].endPublish
  BY <1>ty, <1>1, Counted
<1>7. PublishDue => PublishDue'
  BY <1>1, <1>6 DEF PublishDue
<1>8. slot' \in [Followers -> BOOLEAN]
  BY <1>ty, <1>1 DEF FollowTyped
<1>9. FollowTyped' /\ Written' /\ \A f \in Followers : Follows(f)'
  BY <1>1, <1>3, <1>4, <1>6, <1>7, <1>8, Unlogged
<1>10. StreamTyped'
  BY <1>ty, <1>1, <1>2, <1>6 DEF StreamTyped
<1>11. Executions("queued") \in Nat /\ Executions("ended") \in Nat
  BY <1>ty, ExecutionsMany
<1>12. pending' = Executions("queued")' + Executions("ended")'
  BY <1>ty, <1>5, <1>6, <1>11 DEF Writers
<1>13. Writers'
  BY <1>ty, <1>1, <1>3, <1>6, <1>12 DEF Writers
<1> QED
  BY <1>9, <1>10, <1>13 DEF StreamInv

-----------------------------------------------------------------------------
(* The run, the retry and the deletion *)

LEMMA ClaimKeeps == ASSUME StreamInv, Claim PROVE StreamInv'
<1>ty. StreamTyped /\ FollowTyped /\ Writers /\ Written
  BY DEF StreamInv
<1>1. /\ own = "none" /\ ~Locked /\ row = "queued" /\ (sub = "done" \/ retries > 0) /\ UNCHANGED readers
      /\ row' = "running" /\ marked' = TRUE /\ own' = "claimed" /\ slot' = slot
      /\ log' = log /\ purged' = purged /\ pending' = pending /\ hooks' = hooks /\ sub' = sub
      /\ again' = again /\ retries' = retries /\ wakes' = wakes
  BY DEF Claim
<1>2. setup' = setup
  BY <1>1 DEF readers
<1>3. /\ Retold' = Retold /\ ~Quieting /\ ~Settled' /\ again = "none"
      /\ \A k : Executions(k)' = Executions(k)
  BY <1>1 DEF Retold, Quieting, Executions, Settled, Locked
<1>4. log # <<>>
  BY <1>ty, <1>1 DEF Written
<1>5. PublishDue => PublishDue'
  BY <1>1 DEF PublishDue
<1>6. slot' \in [Followers -> BOOLEAN]
  BY <1>ty, <1>1 DEF FollowTyped
<1>7. FollowTyped' /\ Written' /\ \A f \in Followers : Follows(f)'
  BY <1>1, <1>3, <1>4, <1>5, <1>6, Unlogged
<1>8. StreamTyped' /\ Writers'
  BY <1>ty, <1>1, <1>2, <1>3 DEF StreamTyped, Writers, Locked, Row
<1> QED
  BY <1>7, <1>8 DEF StreamInv

LEMMA RunEventKeeps == ASSUME StreamInv, RunEvent PROVE StreamInv'
<1>ty. StreamTyped /\ Writers /\ Written
  BY DEF StreamInv
<1>1. /\ own = "claimed" /\ Record("started") /\ own' = "publish" /\ UNCHANGED readers /\ slot' = slot
      /\ row' = row /\ purged' = purged /\ marked' = marked /\ pending' = pending /\ hooks' = hooks
      /\ sub' = sub /\ again' = again /\ retries' = retries /\ wakes' = wakes
  BY DEF RunEvent
<1>2. setup' = setup
  BY <1>1 DEF readers
<1>3. /\ Retold' = Retold /\ Quieting' = Quieting /\ Locked' = Locked
      /\ \A k : Executions(k)' = Executions(k)
  BY <1>1 DEF Retold, Quieting, Locked, Executions
<1>4. PublishDue' /\ "started" \in Kind /\ "started" \in DOMAIN Announced /\ Announced["started"] = "running"
  BY <1>1, Announcing DEF PublishDue, Kind
<1>5. Announces("started")
  BY <1>ty, <1>1, <1>4 DEF Announces, Writers
<1>6. Purges("started") /\ Late("started") /\ Keeping
  BY <1>1, <1>3 DEF Purges, Late, Keeping
<1>7. RunTold("started")
  BY <1>ty, <1>3 DEF RunTold, Retold, StreamTyped
<1>8. /\ FollowTyped' /\ Written' /\ purged' \in Nat /\ purged' <= Len(log') /\ log' \in Seq(Kind)
      /\ \A f \in Followers : Follows(f)'
  BY <1>1, <1>4, <1>5, <1>6, <1>7, Logged
<1>9. StreamTyped' /\ Writers'
  BY <1>ty, <1>1, <1>2, <1>3, <1>8 DEF StreamTyped, Writers
<1> QED
  BY <1>8, <1>9 DEF StreamInv

LEMMA FinalizeKeeps == ASSUME StreamInv, Finalize PROVE StreamInv'
<1>ty. StreamTyped /\ Writers /\ Written
  BY DEF StreamInv
<1>1. /\ Record("ended") /\ own' = "endPublish" /\ UNCHANGED readers /\ slot' = slot
      /\ row' = "ended" /\ purged' = purged /\ pending' = pending /\ hooks' = hooks
      /\ sub' = sub /\ again' = again /\ retries' = retries /\ wakes' = wakes
  BY DEF Finalize
<1>0. \/ own = "running" /\ marked' = marked
      \/ own = "none" /\ ~Locked /\ row = "queued" /\ marked' = TRUE
  BY DEF Finalize
<1>2. setup' = setup
  BY <1>1 DEF readers
<1>3. /\ Retold' = Retold /\ Quieting' /\ Locked' = Locked /\ ~Locked /\ row # "deleted"
      /\ \A k : Executions(k)' = Executions(k)
  BY <1>ty, <1>0, <1>1 DEF Retold, Quieting, Locked, Executions, Writers
<1>4. PublishDue' /\ "ended" \in Kind /\ "ended" \in DOMAIN Announced /\ Announced["ended"] = "ended"
  BY <1>1, Announcing DEF PublishDue, Kind
<1>5. Announces("ended")
  BY <1>1, <1>4 DEF Announces
<1>6. own = "none" => ~Quieting
  BY <1>0 DEF Quieting, Locked
<1>7. Purges("ended") /\ Late("ended") /\ Keeping
  BY <1>1, <1>3, <1>6 DEF Purges, Late, Keeping
<1>8. RunTold("ended")
  BY <1>ty, <1>3 DEF RunTold, Retold, StreamTyped
<1>9. /\ FollowTyped' /\ Written' /\ purged' \in Nat /\ purged' <= Len(log') /\ log' \in Seq(Kind)
      /\ \A f \in Followers : Follows(f)'
  BY <1>1, <1>4, <1>5, <1>7, <1>8, Logged
<1>10. StreamTyped'
  BY <1>ty, <1>0, <1>1, <1>2, <1>9 DEF StreamTyped, Row
<1>11. Writers'
  BY <1>ty, <1>0, <1>1, <1>3 DEF Writers, Locked
<1> QED
  BY <1>9, <1>10, <1>11 DEF StreamInv

LEMMA EndDispatchKeeps == ASSUME StreamInv, EndDispatch PROVE StreamInv'
<1>ty. StreamTyped /\ FollowTyped /\ Writers /\ Written
  BY DEF StreamInv
<1>1. /\ own = "dispatch" /\ Dispatched("ended") /\ own' = "clear" /\ UNCHANGED readers /\ slot' = slot
      /\ row' = row /\ purged' = purged /\ marked' = marked /\ sub' = sub
      /\ again' = again /\ retries' = retries /\ wakes' = wakes /\ log' = log
  BY DEF EndDispatch
<1>2. setup' = setup
  BY <1>1 DEF readers
<1>3. /\ Retold' = Retold /\ Quieting' = Quieting /\ Locked' = Locked /\ Settled' = Settled
  BY <1>1 DEF Retold, Quieting, Locked, Settled, Overtaken
<1>4. log # <<>> /\ row # "deleted"
  BY <1>ty, <1>1 DEF Written, Writers
<1>5. PICK n \in Nat : pending' = pending + n /\ Executions("ended")' = Executions("ended") + n
  BY <1>ty, <1>1, Counted
<1>6. /\ hooks' \in [{"queued", "ended"} -> [HookSteps -> Nat]]
      /\ Executions("queued")' = Executions("queued")
      /\ \A j \in {"queued", "ended"} :
           hooks'[j].startPublish = hooks[j].startPublish /\ hooks'[j].endPublish = hooks[j].endPublish
  BY <1>ty, <1>1, Counted
<1>7. PublishDue => PublishDue'
  BY <1>1, <1>6 DEF PublishDue
<1>8. slot' \in [Followers -> BOOLEAN]
  BY <1>ty, <1>1 DEF FollowTyped
<1>9. FollowTyped' /\ Written' /\ \A f \in Followers : Follows(f)'
  BY <1>1, <1>3, <1>4, <1>6, <1>7, <1>8, Unlogged
<1>10. StreamTyped'
  BY <1>ty, <1>1, <1>2, <1>6 DEF StreamTyped
<1>11. Executions("queued") \in Nat /\ Executions("ended") \in Nat
  BY <1>ty, ExecutionsMany
<1>12. pending' = Executions("queued")' + Executions("ended")'
  BY <1>ty, <1>5, <1>6, <1>11 DEF Writers
<1>13. Writers'
  BY <1>ty, <1>1, <1>3, <1>4, <1>6, <1>12 DEF Writers
<1> QED
  BY <1>9, <1>10, <1>13 DEF StreamInv

LEMMA EndClearKeeps == ASSUME StreamInv, EndClear PROVE StreamInv'
<1>ty. StreamTyped /\ FollowTyped /\ Writers /\ Written
  BY DEF StreamInv
<1>1. /\ own = "clear" /\ marked' = FALSE /\ wakes' = wakes + 1 /\ own' = "none" /\ UNCHANGED readers
      /\ row' = row /\ purged' = purged /\ pending' = pending /\ hooks' = hooks /\ sub' = sub
      /\ again' = again /\ retries' = retries /\ log' = log /\ slot' = slot
  BY DEF EndClear, WakeSoon
<1>2. setup' = setup
  BY <1>1 DEF readers
<1>3. /\ Retold' = Retold /\ Quieting' = Quieting /\ Locked' = Locked /\ Settled' = Settled
      /\ \A k : Executions(k)' = Executions(k)
  BY <1>1 DEF Retold, Quieting, Locked, Executions, Settled, Overtaken
<1>4. log # <<>>
  BY <1>ty, <1>1 DEF Written
<1>5. PublishDue'
  BY <1>ty, <1>1 DEF PublishDue, StreamTyped
<1>6. slot' \in [Followers -> BOOLEAN]
  BY <1>ty, <1>1 DEF FollowTyped
<1>7. FollowTyped' /\ Written' /\ \A f \in Followers : Follows(f)'
  BY <1>1, <1>3, <1>4, <1>5, <1>6, Unlogged
<1>0. wakes' \in Nat
  BY <1>ty, <1>1 DEF StreamTyped
<1>8. StreamTyped'
  BY <1>ty, <1>0, <1>1, <1>2 DEF StreamTyped
<1>9. Writers'
  BY <1>ty, <1>1, <1>3 DEF Writers
<1> QED
  BY <1>7, <1>8, <1>9 DEF StreamInv

LEMMA LateWakeKeeps == ASSUME StreamInv, LateWake PROVE StreamInv'
<1>ty. StreamTyped /\ FollowTyped /\ Writers /\ Written
  BY DEF StreamInv
<1>1. /\ wakes > 0 /\ wakes' = wakes - 1 /\ WakeSubscribers /\ UNCHANGED readers
      /\ row' = row /\ log' = log /\ purged' = purged /\ marked' = marked /\ pending' = pending
      /\ hooks' = hooks /\ sub' = sub /\ own' = own /\ again' = again /\ retries' = retries
  BY DEF LateWake
<1>2. setup' = setup
  BY <1>1 DEF readers
<1>3. /\ Retold' = Retold /\ Quieting' = Quieting /\ Settled' = Settled /\ Locked' = Locked
      /\ \A k : Executions(k)' = Executions(k)
  BY <1>1 DEF Retold, Quieting, Executions, Settled, Overtaken, Locked
<1>4. FollowTyped' /\ Written' /\ \A f \in Followers : Follows(f)'
  BY <1>ty, <1>1, <1>3, Waking, Unlogged
<1>5. wakes' \in Nat
  BY <1>ty, <1>1 DEF StreamTyped
<1>6. StreamTyped' /\ Writers'
  BY <1>ty, <1>1, <1>2, <1>3, <1>5 DEF StreamTyped, Writers
<1> QED
  BY <1>4, <1>6 DEF StreamInv

LEMMA RetryKeeps == ASSUME StreamInv, Retry PROVE StreamInv'
<1>ty. StreamTyped /\ FollowTyped /\ Writers /\ Written
  BY DEF StreamInv
<1>1. /\ again = "none" /\ row = "ended" /\ ~marked /\ row' = "queued" /\ retries' = retries + 1
      /\ again' = "event" /\ UNCHANGED readers
      /\ log' = log /\ purged' = purged /\ marked' = marked /\ pending' = pending /\ hooks' = hooks
      /\ sub' = sub /\ own' = own /\ wakes' = wakes /\ slot' = slot
  BY DEF Retry, Terminal
<1>2. setup' = setup
  BY <1>1 DEF readers
<1>3. /\ Retold' = Retold /\ Quieting' /\ ~Settled' /\ own = "none" /\ retries' \in Nat /\ retries' > 0
      /\ \A k : Executions(k)' = Executions(k)
  BY <1>ty, <1>1 DEF Retold, Quieting, Executions, Settled, Writers, StreamTyped
<1>4. log # <<>>
  BY <1>ty, <1>1 DEF Written
<1>5. PublishDue => PublishDue'
  BY <1>1 DEF PublishDue
<1>6. slot' \in [Followers -> BOOLEAN]
  BY <1>ty, <1>1 DEF FollowTyped
<1>7. FollowTyped' /\ Written' /\ \A f \in Followers : Follows(f)'
  BY <1>1, <1>3, <1>4, <1>5, <1>6, Unlogged
<1>8. StreamTyped'
  BY <1>ty, <1>1, <1>2, <1>3 DEF StreamTyped, Row
<1>9. Writers'
  BY <1>ty, <1>1, <1>3 DEF Writers
<1> QED
  BY <1>7, <1>8, <1>9 DEF StreamInv

LEMMA RetryEventKeeps == ASSUME StreamInv, RetryEvent PROVE StreamInv'
<1>ty. StreamTyped /\ Writers /\ Written
  BY DEF StreamInv
<1>1. /\ again = "event" /\ Record("retried") /\ again' = "publish" /\ UNCHANGED readers /\ slot' = slot
      /\ row' = row /\ purged' = purged /\ marked' = marked /\ pending' = pending /\ hooks' = hooks
      /\ sub' = sub /\ own' = own /\ retries' = retries /\ wakes' = wakes
  BY DEF RetryEvent
<1>2. setup' = setup
  BY <1>1 DEF readers
<1>3. Locked /\ Locked' /\ row = "queued" /\ own = "none" /\ \A k : Executions(k)' = Executions(k)
  BY <1>ty, <1>1 DEF Locked, Executions, Writers
<1>4. /\ PublishDue' /\ "retried" \in Kind /\ "retried" \in DOMAIN Announced
      /\ Announced["retried"] = "queued"
  BY <1>1, Announcing DEF PublishDue, Kind
<1>5. Announces("retried")
  BY <1>1, <1>3, <1>4 DEF Announces
<1>6. Purges("retried") /\ Late("retried")
  BY <1>1 DEF Purges, Late
<1>7. RunTold("retried")
  BY <1>ty, <1>1 DEF RunTold, Retold, StreamTyped
<1>8. /\ FollowTyped' /\ Written' /\ purged' \in Nat /\ purged' <= Len(log') /\ log' \in Seq(Kind)
      /\ \A f \in Followers : Follows(f)'
  BY <1>1, <1>4, <1>5, <1>6, <1>7, Logged
<1>9. StreamTyped' /\ Writers'
  BY <1>ty, <1>1, <1>2, <1>3, <1>8 DEF StreamTyped, Writers
<1> QED
  BY <1>8, <1>9 DEF StreamInv

LEMMA DeleteKeeps == ASSUME StreamInv, Delete PROVE StreamInv'
<1>ty. StreamTyped /\ Writers /\ Written
  BY DEF StreamInv
<1>1. /\ ~Locked /\ row = "ended" /\ ~marked /\ pending = 0 /\ row' = "deleted" /\ purged' = Len(log)
      /\ Record("deleted") /\ wakes' = wakes + 1 /\ UNCHANGED readers /\ slot' = slot
      /\ marked' = marked /\ pending' = pending /\ hooks' = hooks /\ sub' = sub /\ own' = own
      /\ again' = again /\ retries' = retries
  BY DEF Delete, WakeSoon, Terminal
<1>2. setup' = setup
  BY <1>1 DEF readers
<1>3. /\ Retold' = Retold /\ Quieting' /\ Locked' = Locked /\ own = "none"
      /\ \A k : Executions(k)' = Executions(k)
  BY <1>ty, <1>1 DEF Retold, Quieting, Locked, Executions, Writers
<1>4. Executions("ended") = 0
  <2>1. Executions("queued") \in Nat /\ Executions("ended") \in Nat
    BY <1>ty, ExecutionsMany
  <2> QED
    BY <1>ty, <1>1, <2>1 DEF Writers
<1>5. wakes' \in Nat /\ wakes' > 0
  BY <1>ty, <1>1 DEF StreamTyped
<1>6. /\ PublishDue' /\ "deleted" \in Kind /\ "deleted" \in DOMAIN Announced
      /\ Announced["deleted"] = "deleted"
  BY <1>5, Announcing DEF PublishDue, Kind
<1>7. Announces("deleted") /\ Purges("deleted") /\ Late("deleted") /\ Keeping
  BY <1>1, <1>3, <1>6 DEF Announces, Purges, Late, Keeping
<1>8. RunTold("deleted")
  BY <1>ty, <1>3 DEF RunTold, Retold, StreamTyped
<1>9. /\ FollowTyped' /\ Written' /\ purged' \in Nat /\ purged' <= Len(log') /\ log' \in Seq(Kind)
      /\ \A f \in Followers : Follows(f)'
  BY <1>1, <1>6, <1>7, <1>8, Logged
<1>10. StreamTyped'
  BY <1>ty, <1>1, <1>2, <1>5, <1>9 DEF StreamTyped, Row
<1>11. Writers'
  BY <1>ty, <1>1, <1>3, <1>4 DEF Writers
<1> QED
  BY <1>9, <1>10, <1>11 DEF StreamInv

LEMMA RunPublishKeeps == ASSUME StreamInv, RunPublish PROVE StreamInv'
<1>ty. StreamTyped /\ FollowTyped /\ Writers /\ Written
  BY DEF StreamInv
<1>1. /\ own = "publish" /\ WakeSubscribers /\ own' = "running" /\ UNCHANGED readers
      /\ row' = row /\ log' = log /\ purged' = purged /\ marked' = marked /\ pending' = pending
      /\ hooks' = hooks /\ sub' = sub /\ again' = again /\ retries' = retries /\ wakes' = wakes
  BY DEF RunPublish
<1>2. setup' = setup
  BY <1>1 DEF readers
<1>3. /\ Retold' = Retold /\ Quieting' = Quieting /\ Settled' = Settled
      /\ \A k : Executions(k)' = Executions(k)
  BY <1>1 DEF Retold, Quieting, Executions, Settled, Overtaken
<1>4. log # <<>>
  BY <1>ty, <1>1 DEF Written
<1>5. FollowTyped' /\ Written' /\ \A f \in Followers : Follows(f)'
  BY <1>ty, <1>1, <1>3, <1>4, Waking, Unlogged
<1>6. StreamTyped' /\ Writers'
  BY <1>ty, <1>1, <1>2, <1>3 DEF StreamTyped, Writers, Locked
<1> QED
  BY <1>5, <1>6 DEF StreamInv

LEMMA EndPublishKeeps == ASSUME StreamInv, EndPublish PROVE StreamInv'
<1>ty. StreamTyped /\ FollowTyped /\ Writers /\ Written
  BY DEF StreamInv
<1>1. /\ own = "endPublish" /\ WakeSubscribers /\ own' = "dispatch" /\ UNCHANGED readers
      /\ row' = row /\ log' = log /\ purged' = purged /\ marked' = marked /\ pending' = pending
      /\ hooks' = hooks /\ sub' = sub /\ again' = again /\ retries' = retries /\ wakes' = wakes
  BY DEF EndPublish
<1>2. setup' = setup
  BY <1>1 DEF readers
<1>3. /\ Retold' = Retold /\ Quieting' = Quieting /\ Settled' = Settled
      /\ \A k : Executions(k)' = Executions(k)
  BY <1>1 DEF Retold, Quieting, Executions, Settled, Overtaken
<1>4. log # <<>>
  BY <1>ty, <1>1 DEF Written
<1>5. FollowTyped' /\ Written' /\ \A f \in Followers : Follows(f)'
  BY <1>ty, <1>1, <1>3, <1>4, Waking, Unlogged
<1>6. StreamTyped' /\ Writers'
  BY <1>ty, <1>1, <1>2, <1>3 DEF StreamTyped, Writers, Locked
<1> QED
  BY <1>5, <1>6 DEF StreamInv

LEMMA RetryPublishKeeps == ASSUME StreamInv, RetryPublish PROVE StreamInv'
<1>ty. StreamTyped /\ FollowTyped /\ Writers /\ Written
  BY DEF StreamInv
<1>1. /\ again = "publish" /\ WakeSubscribers /\ again' = "none" /\ UNCHANGED readers
      /\ row' = row /\ log' = log /\ purged' = purged /\ marked' = marked /\ pending' = pending
      /\ hooks' = hooks /\ sub' = sub /\ own' = own /\ retries' = retries /\ wakes' = wakes
  BY DEF RetryPublish
<1>2. setup' = setup
  BY <1>1 DEF readers
<1>3. /\ Retold' = Retold /\ Quieting' = Quieting /\ Settled' = Settled
      /\ \A k : Executions(k)' = Executions(k)
  BY <1>1 DEF Retold, Quieting, Executions, Settled, Overtaken
<1>4. log # <<>>
  BY <1>ty, <1>1 DEF Written
<1>5. FollowTyped' /\ Written' /\ \A f \in Followers : Follows(f)'
  BY <1>ty, <1>1, <1>3, <1>4, Waking, Unlogged
<1>6. StreamTyped' /\ Writers'
  BY <1>ty, <1>1, <1>2, <1>3 DEF StreamTyped, Writers, Locked
<1> QED
  BY <1>5, <1>6 DEF StreamInv

-----------------------------------------------------------------------------
(* The hooks as writers *)

LEMMA HookEventKeeps == ASSUME StreamInv, NEW k \in {"queued", "ended"}, HookEvent(k) PROVE StreamInv'
<1>ty. StreamTyped /\ FollowTyped /\ Writers /\ Written
  BY DEF StreamInv
<1>1. /\ row' = row /\ purged' = purged /\ marked' = marked /\ pending' = pending /\ sub' = sub
      /\ own' = own /\ again' = again /\ retries' = retries /\ wakes' = wakes /\ slot' = slot
      /\ UNCHANGED readers
  BY DEF HookEvent
<1>2. setup' = setup /\ Retold' = Retold /\ Quieting' = Quieting /\ Locked' = Locked
  BY <1>1 DEF readers, Retold, Quieting, Locked
<1>3. ASSUME NEW from, NEW to,
             <<from, to>> \in {<<"dispatched", "startPublish">>, <<"dispatched", "running">>,
                               <<"running", "endPublish">>, <<"running", "over">>},
             HookMoves(k, from, to), StreamTyped', FollowTyped', Written', \A f \in Followers : Follows(f)'
      PROVE  StreamInv'
  <2>1. \A j \in {"queued", "ended"} : Executions(j)' = Executions(j)
    BY <1>ty, <1>3, HookMoved
  <2>2. Writers'
    BY <1>ty, <1>1, <1>2, <2>1 DEF Writers
  <2> QED
    BY <1>3, <2>2 DEF StreamInv
<1>4. PICK from, publish, to :
        /\ \/ from = "dispatched" /\ publish = "startPublish" /\ to = "running"
           \/ from = "running" /\ publish = "endPublish" /\ to = "over"
        /\ HookRecords(k, from, publish, to)
  BY DEF HookEvent
<1>5. CASE HookMoves(k, from, publish) /\ Record(HookKind[k])
  <2>1. PICK kind \in Kind :
          /\ kind = HookKind[k] /\ kind \notin DOMAIN Announced /\ kind # "retried" /\ kind # "deleted"
          /\ kind \in {"started", "ended", "hook of ended"} => k = "ended"
    <3>1. CASE k = "queued"
      BY <3>1, Announcing DEF HookKind, Kind
    <3>2. CASE k = "ended"
      BY <3>2, Announcing DEF HookKind, Kind
    <3> QED
      BY <3>1, <3>2
  <2>2. /\ hooks' \in [{"queued", "ended"} -> [HookSteps -> Nat]]
        /\ \A j \in {"queued", "ended"} : Executions(j)' = Executions(j)
        /\ hooks'[k][publish] > 0 /\ Executions(k) > 0
    BY <1>ty, <1>4, <1>5, HookMoved
  <2>3. PublishDue'
    <3>1. /\ hooks'[k].startPublish \in Nat /\ hooks'[k].endPublish \in Nat
          /\ hooks'[k].startPublish > 0 \/ hooks'[k].endPublish > 0
      BY <1>4, <2>2 DEF HookSteps
    <3>2. hooks'[k].startPublish + hooks'[k].endPublish > 0
      BY <3>1
    <3> QED
      BY <3>2 DEF PublishDue
  <2>4. Record(kind)
    BY <1>5, <2>1
  <2>5. Executions("ended") \in Nat /\ (k = "ended" => Executions("ended") # 0)
    <3>1. Executions("ended") \in Nat
      BY <1>ty, ExecutionsMany
    <3>2. k = "ended" => Executions("ended") > 0
      BY <2>2
    <3> QED
      BY <3>1, <3>2
  <2>6. Purges(kind) /\ Late(kind) /\ Keeping
    BY <1>1, <1>2, <2>1, <2>2, <2>5 DEF Purges, Late, Keeping
  <2>7. RunTold(kind)
    <3>1. Retold \in Int
      BY <1>ty DEF Retold, StreamTyped
    <3>2. Retold' = Retold + 0
      BY <1>2, <3>1
    <3> QED
      BY <2>1, <3>2 DEF RunTold
  <2>8. Overtaken => Overtaken'
    <3>1. Len(log') = Len(log) + 1 /\ (\A i \in 1 .. Len(log) : log'[i] = log[i]) /\ Len(log) \in Nat
      BY <1>ty, <2>4, Appended DEF StreamTyped
    <3>2. \A i \in 2 .. Len(log) : i \in 2 .. Len(log') /\ i \in 1 .. Len(log)
      BY <3>1
    <3> QED
      BY <3>1, <3>2 DEF Overtaken
  <2>9. Announces(kind)
    BY <1>1, <2>1, <2>8 DEF Announces, Settled
  <2>10. /\ FollowTyped' /\ Written' /\ purged' \in Nat /\ purged' <= Len(log') /\ log' \in Seq(Kind)
         /\ \A f \in Followers : Follows(f)'
    BY <1>1, <2>1, <2>3, <2>4, <2>6, <2>7, <2>9, Logged
  <2>11. StreamTyped'
    BY <1>ty, <1>1, <1>2, <2>2, <2>10 DEF StreamTyped
  <2> QED
    BY <1>3, <1>4, <1>5, <2>10, <2>11
<1>6. CASE HookMoves(k, from, to) /\ log' = log
  <2>1. /\ hooks' \in [{"queued", "ended"} -> [HookSteps -> Nat]]
        /\ \A j \in {"queued", "ended"} : Executions(j)' = Executions(j)
    BY <1>ty, <1>4, <1>6, HookMoved
  <2>2. PublishDue => PublishDue'
    <3>1. \A j \in {"queued", "ended"} :
            hooks'[j].startPublish = hooks[j].startPublish /\ hooks'[j].endPublish = hooks[j].endPublish
      <4>1. hooks' = [hooks EXCEPT ![k][from] = @ - 1, ![k][to] = @ + 1]
        BY <1>6 DEF HookMoves
      <4>2. hooks \in [{"queued", "ended"} -> [HookSteps -> Nat]]
        BY <1>ty DEF StreamTyped
      <4>3. from \in HookSteps \ {"startPublish", "endPublish"} /\ to \in HookSteps \ {"startPublish", "endPublish"}
        BY <1>4 DEF HookSteps
      <4>4. hooks'[k] = [hooks[k] EXCEPT ![from] = hooks'[k][from], ![to] = hooks'[k][to]]
        BY <4>1, <4>2, <4>3
      <4>5. \A j \in {"queued", "ended"} : j # k => hooks'[j] = hooks[j]
        BY <4>1, <4>2
      <4> QED
        BY <4>2, <4>3, <4>4, <4>5 DEF HookSteps
    <3> QED
      BY <1>1, <3>1 DEF PublishDue
  <2>3. slot' \in [Followers -> BOOLEAN]
    BY <1>ty, <1>1 DEF FollowTyped
  <2>4. Settled' = Settled
    BY <1>1, <1>6 DEF Settled, Overtaken
  <2>5. FollowTyped' /\ Written' /\ \A f \in Followers : Follows(f)'
    BY <1>1, <1>2, <1>6, <2>1, <2>2, <2>3, <2>4, Unlogged
  <2>6. StreamTyped'
    BY <1>ty, <1>1, <1>2, <1>6, <2>1 DEF StreamTyped
  <2> QED
    BY <1>3, <1>4, <1>6, <2>5, <2>6
<1> QED
  BY <1>4, <1>5, <1>6 DEF HookRecords

LEMMA HookPublishKeeps ==
    ASSUME StreamInv, NEW k \in {"queued", "ended"}, HookPublish(k)
    PROVE  StreamInv'
<1>ty. StreamTyped /\ FollowTyped /\ Writers /\ Written
  BY DEF StreamInv
<1>1. /\ row' = row /\ purged' = purged /\ marked' = marked /\ pending' = pending /\ sub' = sub
      /\ own' = own /\ again' = again /\ retries' = retries /\ wakes' = wakes /\ log' = log
      /\ WakeSubscribers /\ UNCHANGED readers
  BY DEF HookPublish
<1>2. setup' = setup /\ Retold' = Retold /\ Quieting' = Quieting /\ Locked' = Locked /\ Settled' = Settled
  BY <1>1 DEF readers, Retold, Quieting, Locked, Settled, Overtaken
<1>3. PICK from, to : /\ <<from, to>> \in {<<"startPublish", "running">>, <<"endPublish", "over">>}
                      /\ HookMoves(k, from, to)
  BY DEF HookPublish
<1>4. /\ hooks' \in [{"queued", "ended"} -> [HookSteps -> Nat]]
      /\ \A j \in {"queued", "ended"} : Executions(j)' = Executions(j)
  BY <1>ty, <1>3, HookMoved
<1>5. FollowTyped' /\ Written' /\ \A f \in Followers : Follows(f)'
  BY <1>ty, <1>1, <1>2, <1>4, Waking, Unlogged
<1>6. StreamTyped'
  BY <1>ty, <1>1, <1>2, <1>4 DEF StreamTyped
<1>7. Writers'
  BY <1>ty, <1>1, <1>2, <1>4 DEF Writers
<1> QED
  BY <1>5, <1>6, <1>7 DEF StreamInv

LEMMA HookDoneKeeps == ASSUME StreamInv, NEW k \in {"queued", "ended"}, HookDone(k) PROVE StreamInv'
<1>ty. StreamTyped /\ FollowTyped /\ Writers /\ Written
  BY DEF StreamInv
<1>1. /\ row' = row /\ purged' = purged /\ marked' = marked /\ sub' = sub /\ slot' = slot
      /\ own' = own /\ again' = again /\ retries' = retries /\ log' = log
      /\ UNCHANGED readers
  BY DEF HookDone
<1>2. setup' = setup /\ Retold' = Retold /\ Quieting' = Quieting /\ Locked' = Locked /\ Settled' = Settled
  BY <1>1 DEF readers, Retold, Quieting, Locked, Settled, Overtaken
<1>3. /\ hooks[k].over > 0 /\ hooks' = [hooks EXCEPT ![k].over = @ - 1] /\ pending' = pending - 1
      /\ wakes' = IF pending = 1 THEN wakes + 1 ELSE wakes
  BY DEF HookDone
<1>4. /\ hooks \in [{"queued", "ended"} -> [HookSteps -> Nat]] /\ hooks[k] \in [HookSteps -> Nat]
      /\ wakes \in Nat
  BY <1>ty DEF StreamTyped
<1>5. PICK h \in [HookSteps -> Nat] : h = hooks[k]
  BY <1>4
<1>6. PICK d \in Nat, s \in Nat, r \in Nat, e \in Nat, o \in Nat :
        /\ h["dispatched"] = d /\ h["startPublish"] = s /\ h["running"] = r
        /\ h["endPublish"] = e /\ h["over"] = o
  BY <1>5 DEF HookSteps
<1>7. PICK o2 \in Nat : o2 = o - 1
  BY <1>3, <1>5, <1>6
<1>8. PICK h2 : h2 = [h EXCEPT !["over"] = o2]
  OBVIOUS
<1>9. hooks' = [hooks EXCEPT ![k] = h2]
  BY <1>3, <1>4, <1>5, <1>6, <1>7, <1>8
<1>10. h2 \in [HookSteps -> Nat] /\ h2["dispatched"] = d /\ h2["startPublish"] = s /\ h2["running"] = r
       /\ h2["endPublish"] = e /\ h2["over"] = o2
  BY <1>6, <1>7, <1>8 DEF HookSteps
<1>11. hooks'[k] = h2 /\ \A j \in {"queued", "ended"} : j # k => hooks'[j] = hooks[j]
  BY <1>4, <1>9
<1>12. hooks' \in [{"queued", "ended"} -> [HookSteps -> Nat]]
  BY <1>4, <1>9, <1>10
<1>13. Executions(k) = d + s + r + e + o /\ Executions(k)' = d + s + r + e + o2
  BY <1>5, <1>6, <1>10, <1>11 DEF Executions
<1>14. Executions(k)' = Executions(k) - 1 /\ Executions(k) # 0
  BY <1>6, <1>7, <1>13
<1>15. \A j \in {"queued", "ended"} : j # k => Executions(j)' = Executions(j)
  BY <1>11 DEF Executions
<1>16. \A j \in {"queued", "ended"} :
         hooks'[j].startPublish = hooks[j].startPublish /\ hooks'[j].endPublish = hooks[j].endPublish
  BY <1>5, <1>6, <1>10, <1>11
<1>17. wakes' \in Nat /\ wakes' >= wakes
  BY <1>3, <1>4
<1>18. PublishDue => PublishDue'
  <2>1. wakes > 0 => wakes' > 0
    BY <1>4, <1>17
  <2> QED
    BY <1>1, <1>16, <2>1 DEF PublishDue
<1>19. slot' \in [Followers -> BOOLEAN]
  BY <1>ty, <1>1 DEF FollowTyped
<1>20. Executions("queued") \in Nat /\ Executions("ended") \in Nat
  BY <1>ty, ExecutionsMany
<1>21. Executions("ended") = 0 => Executions("ended")' = 0
  <2>1. CASE k = "ended"
    BY <1>14, <2>1
  <2>2. CASE k # "ended"
    BY <1>15, <2>2
  <2> QED
    BY <2>1, <2>2
<1>22. FollowTyped' /\ Written' /\ \A f \in Followers : Follows(f)'
  BY <1>1, <1>2, <1>18, <1>19, <1>21, Unlogged
<1>23. StreamTyped'
  BY <1>ty, <1>1, <1>2, <1>12, <1>17 DEF StreamTyped
<1>24. pending' = Executions("queued")' + Executions("ended")'
  <2>1. pending = Executions("queued") + Executions("ended")
    BY <1>ty DEF Writers
  <2>2. CASE k = "ended"
    <3>1. Executions("ended")' = Executions("ended") - 1 /\ Executions("queued")' = Executions("queued")
      BY <1>14, <1>15, <2>2
    <3> QED
      BY <1>3, <1>20, <2>1, <3>1
  <2>3. CASE k = "queued"
    <3>1. Executions("queued")' = Executions("queued") - 1 /\ Executions("ended")' = Executions("ended")
      BY <1>14, <1>15, <2>3
    <3> QED
      BY <1>3, <1>20, <2>1, <3>1
  <2> QED
    BY <2>2, <2>3
<1>25. Writers'
  BY <1>ty, <1>1, <1>2, <1>21, <1>24 DEF Writers
<1> QED
  BY <1>22, <1>23, <1>25 DEF StreamInv

-----------------------------------------------------------------------------
(* The stream stands *)

LEMMA InitStands == Init => StreamInv
<1> SUFFICES ASSUME Init PROVE StreamInv
  OBVIOUS
<1>1. /\ setup \in Setups /\ row = "queued" /\ purged = 0 /\ marked = FALSE /\ pending = 0 /\ wakes = 0
      /\ own = "none" /\ again = "none" /\ retries = 0
      /\ hooks = [k \in {"queued", "ended"} |-> [s \in HookSteps |-> 0]]
  BY DEF Init
<1>0. \/ log = <<>> /\ sub = "event"
      \/ log = <<"queued">> /\ sub = "done"
  BY DEF Init
<1>2. /\ fpc = [f \in Followers |-> "cursor"] /\ after = [f \in Followers |-> "head"]
      /\ cursor = [f \in Followers |-> 0] /\ slot = [f \in Followers |-> FALSE]
      /\ exhausted = [f \in Followers |-> FALSE] /\ first = [f \in Followers |-> TRUE]
      /\ view = [f \in Followers |-> "queued"] /\ heard = [f \in Followers |-> 0]
  BY DEF Init
<1>3. log \in Seq(Kind) /\ Len(log) \in Nat
  <2>1. "queued" \in Kind
    BY DEF Kind
  <2>2. CASE log = <<>>
    BY <2>2
  <2>3. CASE log = <<"queued">>
    BY <2>1, <2>3
  <2> QED
    BY <1>0, <2>2, <2>3
<1>4. StreamTyped
  <2>1. hooks \in [{"queued", "ended"} -> [HookSteps -> Nat]]
    BY <1>1
  <2>2. sub \in {"event", "publish", "dispatch", "done"} /\ purged <= Len(log)
    BY <1>0, <1>1, <1>3
  <2> QED
    BY <1>1, <1>3, <2>1, <2>2 DEF StreamTyped, Row
<1>5. FollowTyped
  BY <1>2 DEF FollowTyped, DetailSteps, Row
<1>6. \A k \in {"queued", "ended"} : Executions(k) = 0
  BY <1>1 DEF Executions, HookSteps
<1>7. Writers
  BY <1>1, <1>6 DEF Writers, Locked
<1>8. Retold = 0
  BY <1>1 DEF Retold
<1>9. Written
  <2>1. CASE log = <<>>
    <3>1. RetriesAt(log, 0) = {}
      BY DEF RetriesAt
    <3>2. RunOf(Len(log)) = 0
      BY <2>1, <3>1, FS_EmptySet DEF RunOf, RetriesAt
    <3>3. Ending(log, 1 .. Len(log)) = {}
      BY <2>1 DEF Ending
    <3> QED
      BY <1>0, <1>1, <1>8, <2>1, <3>2, <3>3 DEF Written, ShownOf
  <2>2. CASE log = <<"queued">>
    <3>1. Len(log) = 1 /\ log[1] = "queued" /\ log # <<>>
      BY <2>2
    <3>2. {k \in 1 .. Len(log) : log[k] = "retried"} = {}
      BY <3>1
    <3>3. RunOf(Len(log)) = 0
      BY <3>2, FS_EmptySet DEF RunOf
    <3>4. Ending(log, 1 .. Len(log)) = {1}
      BY <3>1, Announcing DEF Ending
    <3>5. {1} \in SUBSET Nat /\ \A i \in {1} : i <= 1
      OBVIOUS
    <3>6. Max({1}) = 1
      BY <3>5, LastIs
    <3>7. ShownOf(log, row, 1 .. Len(log)) = row
      BY <1>1, <3>1, <3>4, <3>6, Announcing DEF ShownOf
    <3> QED
      BY <1>8, <3>1, <3>3, <3>7 DEF Written
  <2> QED
    BY <1>0, <2>1, <2>2
<1>10. ASSUME NEW f \in Followers PROVE Follows(f)
  <2>1. /\ fpc[f] = "cursor" /\ cursor[f] = 0 /\ first[f] = TRUE /\ heard[f] = 0
    BY <1>2
  <2>2. Answers(f)
    BY <1>8, <2>1 DEF Answers
  <2>3. EndsWhole(f) /\ Caught(f) /\ Shows(f)
    BY <2>1 DEF EndsWhole, Caught, Shows, Checks
  <2> QED
    BY <1>3, <2>1, <2>2, <2>3 DEF Follows
<1> QED
  BY <1>4, <1>5, <1>7, <1>9, <1>10 DEF StreamInv

LEMMA StutterKeeps == ASSUME StreamInv, UNCHANGED vars PROVE StreamInv'
<1>ty. StreamTyped /\ FollowTyped /\ Writers /\ Written
  BY DEF StreamInv
<1>1. UNCHANGED writers /\ UNCHANGED readers /\ slot' = slot
  BY DEF vars
<1>2. /\ StreamTyped' /\ Writers' /\ Written' /\ log' = log /\ row' = row /\ purged' = purged /\ own' = own
      /\ Retold' = Retold /\ Quieting' = Quieting /\ Executions("ended")' = Executions("ended")
      /\ PublishDue' = PublishDue /\ Settled' = Settled
  BY <1>1, NothingWritten
<1>3. slot' \in [Followers -> BOOLEAN] /\ (log = <<>> => UNCHANGED <<sub, row, own, again, retries>>)
  BY <1>ty, <1>1 DEF FollowTyped, writers
<1>4. FollowTyped' /\ \A f \in Followers : Follows(f)'
  BY <1>1, <1>2, <1>3, Unlogged
<1> QED
  BY <1>2, <1>4 DEF StreamInv

LEMMA StreamStep == StreamInv /\ [Next]_vars => StreamInv'
<1> SUFFICES ASSUME StreamInv, [Next]_vars PROVE StreamInv'
  OBVIOUS
<1>1. CASE Submit
  BY <1>1, SubmitEventKeeps, SubmitPublishKeeps, SubmitDispatchKeeps DEF Submit
<1>2. CASE Claim \/ LateWake
  BY <1>2, ClaimKeeps, LateWakeKeeps
<1>3. CASE Owner
  BY <1>3, RunEventKeeps, RunPublishKeeps, FinalizeKeeps, EndPublishKeeps, EndDispatchKeeps,
     EndClearKeeps DEF Owner
<1>4. CASE Retry \/ RetryEvent \/ RetryPublish \/ Delete
  BY <1>4, RetryKeeps, RetryEventKeeps, RetryPublishKeeps, DeleteKeeps
<1>5. CASE \E k \in {"queued", "ended"} : Hook(k)
  BY <1>5, HookEventKeeps, HookPublishKeeps, HookDoneKeeps DEF Hook
<1>6. ASSUME NEW f \in Followers, Detail(f) PROVE StreamInv'
  BY <1>6, DetailCursorKeeps, DetailJobKeeps, DetailHookListKeeps, DetailHookPendingKeeps DEF Detail
<1>7. ASSUME NEW f \in Followers, Handler(f) PROVE StreamInv'
  BY <1>7, OpenKeeps, SubscribeKeeps, CheckRowKeeps, CheckFinalizingKeeps, CheckHooksKeeps,
     BacklogKeeps, DrainKeeps, SecondDrainKeeps, TurnsKeep DEF Handler
<1>8. ASSUME NEW f \in Followers, Redrain(f) \/ Cut(f) \/ EndStreams(f) PROVE StreamInv'
  BY <1>8, TurnsKeep
<1>9. CASE UNCHANGED vars
  BY <1>9, StutterKeeps
<1> QED
  BY <1>1, <1>2, <1>3, <1>4, <1>5, <1>6, <1>7, <1>8, <1>9 DEF Next

\* The inductive invariant holds of every behaviour.
LEMMA StreamStands == Spec => []StreamInv
<1> QED
  BY InitStands, StreamStep, PTL DEF Spec

LEMMA AllSent == ASSUME StreamInv, NEW f \in Followers PROVE PageFrom(cursor[f]) = {} <=> Beyond(f) = {}
<1>1. StreamTyped /\ cursor[f] \in Nat
  BY DEF StreamInv, FollowTyped
<1> PICK page, rest : page = PageFrom(cursor[f]) /\ rest = {i \in Visible : i > cursor[f]}
  OBVIOUS
<1>2. page \in SUBSET rest /\ (page = {} => rest = {})
  BY <1>1, Page
<1> QED
  BY <1>2 DEF Beyond

\* No event is missed: a stream that waits for a wake with an event still to
\* send has a wake pending or coming, and one that ends of itself has sent the
\* client every event of the run it ends with (runJobEventStream, eventsExhausted),
\* wherever an earlier one broke or a shutdown ended it (EndStreams).
THEOREM EventsReachFollowers == Spec => []EventsArrive
<1>1. StreamInv => EventsArrive
  <2> SUFFICES ASSUME StreamInv PROVE EventsArrive
    OBVIOUS
  <2>1. NoEventMissed
    <3> SUFFICES ASSUME ~ReadFails, NEW f \in Followers, fpc[f] = "wait", PageFrom(cursor[f]) # {}
        PROVE slot[f] \/ PublishDue
      BY DEF NoEventMissed
    <3>1. Beyond(f) # {} /\ Caught(f)
      BY AllSent DEF StreamInv, Follows
    <3> QED
      BY <3>1 DEF Caught
  <2>2. EndHasAll
    <3> SUFFICES ASSUME NEW f \in Followers \ StopAtTerminal, fpc[f] = "cursor", ~first[f],
                        NEW i \in Visible, i > cursor[f]
        PROVE RunOf(i) > heard[f] \/ log[i] \in {"deleted", "queued", "hook of queued"}
      BY DEF EndHasAll
    <3>1. EndsWhole(f) /\ i \in Beyond(f)
      BY DEF StreamInv, Follows, Beyond
    <3> QED
      BY <3>1 DEF EndsWhole
  <2> QED
    BY <2>1, <2>2 DEF EventsArrive
<1> QED
  BY <1>1, StreamStands, PTL

\* What a follower shows settles: once it has every event its view is the
\* store's row, whatever its snapshot's reads raced with (getDownload), and though
\* EndStreams made it pass over events (FollowJob reads the snapshot again).
THEOREM ViewsFollowTheStore == Spec => []ViewSettles
<1>1. StreamInv => ViewSettles
  <2> SUFFICES ASSUME StreamInv, NEW f \in Followers, fpc[f] = "wait", PageFrom(cursor[f]) = {},
                      ~Overtaken, own # "claimed", again # "event"
      PROVE view[f] = row
    BY DEF ViewSettles
  <2>1. Shows(f) /\ Beyond(f) = {} /\ Settled
    BY AllSent DEF StreamInv, Follows, Settled
  <2>2. Ending(log, Beyond(f)) = {}
    BY <2>1 DEF Ending
  <2> QED
    BY <2>1, <2>2 DEF Shows, ShownOf
<1> QED
  BY <1>1, StreamStands, PTL

-----------------------------------------------------------------------------
(* The stream as its readers know it *)

Reading == {f \in Followers : fpc[f] \in StreamSteps}
LogVars == <<log, purged, Reading, cursor, view>>

LEMMA EventRecorded ==
    ASSUME StreamInv, NEW kind \in Kind, Record(kind), purged' = purged \/ purged' = Len(log),
           UNCHANGED readers
    PROVE  Log!Next
<1>1. cursor' = cursor /\ view' = view /\ Reading' = Reading
  BY DEF readers, Reading
<1>2. Log!Record(kind)
  BY <1>1 DEF Record, Log!Record, Reading
<1> QED
  BY <1>2 DEF Log!Next

LEMMA Unread == ASSUME UNCHANGED readers, log' = log, purged' = purged PROVE UNCHANGED LogVars
  BY DEF readers, LogVars, Reading

\* What the writers do is an event recorded, or nothing.
LEMMA WriterSteps ==
    ASSUME StreamInv,
           \/ Submit \/ Claim \/ Owner \/ LateWake \/ Retry \/ RetryEvent \/ RetryPublish \/ Delete
           \/ \E k \in {"queued", "ended"} : Hook(k)
    PROVE  Log!Next \/ UNCHANGED LogVars
<1>1. CASE SubmitEvent \/ RunEvent \/ Finalize \/ RetryEvent \/ Delete
  <2>1. PICK kind \in {"queued", "started", "ended", "retried", "deleted"} : Record(kind)
    <3>1. CASE SubmitEvent BY <3>1 DEF SubmitEvent
    <3>2. CASE RunEvent BY <3>2 DEF RunEvent
    <3>3. CASE Finalize BY <3>3 DEF Finalize
    <3>4. CASE RetryEvent BY <3>4 DEF RetryEvent
    <3>5. CASE Delete BY <3>5 DEF Delete
    <3> QED
      BY <1>1, <3>1, <3>2, <3>3, <3>4, <3>5
  <2>2. (purged' = purged \/ purged' = Len(log)) /\ UNCHANGED readers
    BY <1>1 DEF SubmitEvent, RunEvent, Finalize, RetryEvent, Delete
  <2>3. kind \in Kind
    BY <2>1, Zenon DEF Kind
  <2> QED
    BY <2>1, <2>2, <2>3, EventRecorded
<1>2. CASE \/ SubmitPublish \/ SubmitDispatch \/ Claim \/ RunPublish \/ EndPublish \/ EndDispatch
           \/ EndClear \/ LateWake \/ Retry \/ RetryPublish
  <2>1. UNCHANGED readers /\ log' = log /\ purged' = purged
    BY <1>2 DEF SubmitPublish, SubmitDispatch, Claim, RunPublish, EndPublish, EndDispatch,
       EndClear, LateWake, Retry, RetryPublish
  <2> QED
    BY <2>1, Unread
<1>3. ASSUME NEW k \in {"queued", "ended"}, Hook(k) PROVE Log!Next \/ UNCHANGED LogVars
  <2>1. CASE HookEvent(k)
    <3>1. UNCHANGED readers /\ purged' = purged /\ (Record(HookKind[k]) \/ log' = log)
      BY <2>1 DEF HookEvent, HookRecords
    <3>2. HookKind[k] \in Kind
      <4>1. HookKind["queued"] = "hook of queued" /\ HookKind["ended"] = "hook of ended"
        BY DEF HookKind
      <4> QED
        BY <1>3, <4>1, Zenon DEF Kind
    <3> QED
      BY <3>1, <3>2, EventRecorded, Unread
  <2>2. CASE HookPublish(k) \/ HookDone(k)
    <3>1. UNCHANGED readers /\ log' = log /\ purged' = purged
      BY <2>2 DEF HookPublish, HookDone
    <3> QED
      BY <3>1, Unread
  <2> QED
    BY <1>3, <2>1, <2>2 DEF Hook
<1> QED
  BY <1>1, <1>2, <1>3 DEF Submit, Owner

\* Where a follower goes says whether it reads.
LEMMA GoesOn ==
    ASSUME StreamInv, NEW f \in Followers, NEW to, Goto(f, to)
    PROVE  Reading' = IF to \in StreamSteps THEN Reading \cup {f} ELSE Reading \ {f}
  BY DEF StreamInv, FollowTyped, Goto, Reading

LEMMA StepsAlike ==
    ASSUME StreamInv, NEW f \in Followers, NEW to, Goto(f, to), fpc[f] \in StreamSteps <=> to \in StreamSteps,
           UNCHANGED <<writers, cursor, view>>
    PROVE  UNCHANGED LogVars
<1>1. Reading' = Reading
  BY GoesOn DEF Reading
<1>2. log' = log /\ purged' = purged
  BY DEF writers
<1> QED
  BY <1>1, <1>2 DEF LogVars

\* What a follower does before it reads is a look at the job.
LEMMA Looks ==
    ASSUME StreamInv, NEW f \in Followers, fpc[f] \notin StreamSteps, NEW to, Goto(f, to), UNCHANGED writers,
           NEW c \in 0 .. Len(log), cursor' = [cursor EXCEPT ![f] = c],
           NEW s \in Row, view' = [view EXCEPT ![f] = s]
    PROVE  Log!Next
<1>1. f \notin Reading /\ Reading' \in {Reading, Reading \cup {f}}
  BY GoesOn DEF Reading
<1>2. log' = log /\ purged' = purged
  BY DEF writers
<1>3. Log!Look(f, c, s)
  BY <1>1, <1>2 DEF Log!Look, Reading
<1> QED
  BY <1>3 DEF Log!Next

LEMMA SnapshotSteps ==
    ASSUME StreamInv, NEW f \in Followers, Detail(f) PROVE Log!Next \/ UNCHANGED LogVars
<1>ty. /\ fpc \in [Followers -> DetailSteps \cup StreamSteps \cup {"returned", "gone"}]
       /\ cursor[f] \in 0 .. Len(log) /\ view[f] \in Row /\ Len(log) \in Nat /\ row \in Row
       /\ cursor = [cursor EXCEPT ![f] = cursor[f]] /\ view = [view EXCEPT ![f] = view[f]]
  BY DEF StreamInv, FollowTyped, StreamTyped, Follows
<1>in. /\ {"cursor", "reread", "job", "hookList", "hookPending", "returned", "gone"} \cap StreamSteps = {}
       /\ "queued" \in Row /\ 0 \in 0 .. Len(log)
  BY <1>ty DEF StreamSteps, Checks, Row
<1>1. CASE DetailCursor(f)
  <2>1. fpc[f] \notin StreamSteps /\ Goto(f, "job") /\ UNCHANGED writers /\ view' = view
    BY <1>1, <1>in DEF DetailCursor, Untouched
  <2>2. PICK c \in 0 .. Len(log) : cursor' = [cursor EXCEPT ![f] = c]
    BY <1>1, <1>ty DEF DetailCursor
  <2> QED
    BY <1>ty, <2>1, <2>2, Looks
<1>2. CASE DetailJob(f)
  <2>1. fpc[f] \notin StreamSteps /\ UNCHANGED writers
    BY <1>2, <1>in DEF DetailJob, Untouched
  <2>2. CASE Ends(f, "gone")
    <3>1. \E to : Goto(f, to)
      BY <2>2 DEF Ends
    <3>2. cursor' = [cursor EXCEPT ![f] = 0] /\ view' = [view EXCEPT ![f] = "queued"]
      BY <2>2 DEF Ends
    <3> QED
      BY <1>in, <2>1, <3>1, <3>2, Looks
  <2>3. CASE Goto(f, "hookList") /\ view' = [view EXCEPT ![f] = row] /\ cursor' = cursor
    BY <1>ty, <2>1, <2>3, Looks
  <2> QED
    BY <1>2, <2>2, <2>3 DEF DetailJob
<1>3. CASE DetailHookList(f)
  BY <1>3, <1>in, StepsAlike DEF DetailHookList, Untouched
<1>4. CASE DetailHookPending(f)
  <2>1. fpc[f] \notin StreamSteps /\ UNCHANGED writers
    BY <1>4, <1>in DEF DetailHookPending, Untouched
  <2>2. CASE Ends(f, "returned")
    <3>1. \E to : Goto(f, to)
      BY <2>2 DEF Ends
    <3>2. cursor' = [cursor EXCEPT ![f] = 0] /\ view' = [view EXCEPT ![f] = "queued"]
      BY <2>2 DEF Ends
    <3> QED
      BY <1>in, <2>1, <3>1, <3>2, Looks
  <2>3. CASE Goto(f, "open") /\ view' = view /\ \E c \in {0, cursor[f]} : cursor' = [cursor EXCEPT ![f] = c]
    <3>1. PICK c \in {0, cursor[f]} : cursor' = [cursor EXCEPT ![f] = c]
      BY <2>3
    <3>2. c \in 0 .. Len(log)
      BY <1>ty
    <3> QED
      BY <1>ty, <2>1, <2>3, <3>1, <3>2, Looks
  <2>4. Ends(f, "returned") \/ (Goto(f, "open") /\ view' = view
                                /\ \E c \in {0, cursor[f]} : cursor' = [cursor EXCEPT ![f] = c])
    BY <1>4 DEF DetailHookPending
  <2> QED
    BY <2>2, <2>3, <2>4
<1> QED
  BY <1>1, <1>2, <1>3, <1>4 DEF Detail

\* A page is the next events in order, and leaves none behind.
LEMMA PageRead ==
    ASSUME StreamInv, UNCHANGED writers, NEW f \in Followers, NEW page, page = PageFrom(cursor[f]),
           NEW next \in StreamSteps \cup {"cursor"}, Send(f, page, next), fpc[f] \in StreamSteps
    PROVE  Log!Next \/ UNCHANGED LogVars
<1>ty. StreamTyped /\ FollowTyped
  BY DEF StreamInv
<1>vi. cursor[f] \in Nat /\ view[f] \in Row
  BY <1>ty DEF FollowTyped
<1> PICK rest : rest = {i \in Visible : i > cursor[f]}
  OBVIOUS
<1>3. /\ page \in SUBSET rest /\ rest \in SUBSET (1 .. Len(log)) /\ Len(log) \in Nat
      /\ page = {} => rest = {}
      /\ page # {} => Max(page) \in page /\ page = {i \in rest : i <= Max(page)}
      /\ Full(page) \/ page = rest
  BY <1>ty, <1>vi, Page
<1>1. PICK to \in StreamSteps \cup {"cursor"} : Goto(f, to)
  BY DEF Send
<1>2. f \in Reading /\ Reading' \in {Reading, Reading \ {f}} /\ log' = log /\ purged' = purged
  BY <1>1, GoesOn DEF Reading, writers
<1>4. /\ cursor' = [cursor EXCEPT ![f] = IF page = {} THEN @ ELSE Max(page)]
      /\ view' = [view EXCEPT ![f] = ShownOf(log, @, page)]
  BY ShownIs DEF Send
<1>5. CASE page = {}
  <2>1. cursor' = cursor /\ view' = view
    BY <1>ty, <1>vi, <1>3, <1>4, <1>5 DEF FollowTyped, ShownOf, Ending
  <2>2. CASE Reading' = Reading
    BY <1>2, <2>1, <2>2 DEF LogVars
  <2>3. CASE Reading' = Reading \ {f}
    <3> PICK s \in Row : s = view[f]
      BY <1>ty, <1>vi, <1>3
    <3>1. Log!Stop(f, s)
      BY <1>2, <2>1, <2>3 DEF Log!Stop, Reading
    <3> QED
      BY <3>1 DEF Log!Next
  <2> QED
    BY <1>2, <2>2, <2>3
<1>6. CASE page # {}
  <2> PICK n : n = Max(page)
    OBVIOUS
  <2> PICK s : s = ShownOf(log, view[f], page)
    OBVIOUS
  <2>1. n \in page /\ n \in 1 .. Len(log)
    BY <1>3, <1>6
  <2>2. Log!Due(f, n) = page
    <3>1. page = {i \in rest : i <= n}
      BY <1>3, <1>6
    <3>2. \A i \in Visible : i \in Int /\ (i > cursor[f] <=> cursor[f] < i)
      BY <1>ty, <1>vi, <1>3 DEF Visible, StreamTyped
    <3> QED
      BY <3>1, <3>2 DEF Log!Due, Visible
  <2>3. Log!Tell(page, view[f], s) /\ s \in Row
    <3>1. {i \in page : log[i] \in DOMAIN Announced} = Ending(log, page)
      BY DEF Ending
    <3>2. CASE Ending(log, page) = {}
      BY <1>ty, <1>vi, <1>3, <3>1, <3>2 DEF Log!Tell, ShownOf
    <3>3. CASE Ending(log, page) # {}
      <4> PICK m : m = Max(Ending(log, page))
        OBVIOUS
      <4>1. /\ m \in Ending(log, page) /\ \A i \in Ending(log, page) : i <= m
            /\ log[m] \in DOMAIN Announced
        BY <1>ty, <1>vi, <1>3, <3>3, EndingLast
      <4>2. s = Announced[log[m]]
        BY <3>3 DEF ShownOf
      <4>3. s \in Row
        BY <4>1, <4>2, Announcing
      <4> QED
        BY <3>1, <4>1, <4>2, <4>3 DEF Log!Tell
    <3> QED
      BY <3>2, <3>3
  <2>4. cursor' = [cursor EXCEPT ![f] = n] /\ view' = [view EXCEPT ![f] = s]
    BY <1>4, <1>6
  <2>5. Log!Read(f, n, s)
    BY <1>2, <2>1, <2>2, <2>3, <2>4 DEF Log!Read, Reading
  <2> QED
    BY <2>1, <2>3, <2>5 DEF Log!Next
<1> QED
  BY <1>5, <1>6

LEMMA HandlerSteps ==
    ASSUME StreamInv, NEW f \in Followers, Handler(f) \/ Redrain(f) \/ Cut(f) \/ EndStreams(f)
    PROVE  Log!Next \/ UNCHANGED LogVars
<1>in. /\ {"open", "subscribe", "backlog", "drain", "drain2", "wait", "row", "finalizing", "hooks"}
            \in SUBSET StreamSteps
       /\ Subscribed \in SUBSET StreamSteps
       /\ "gone" \notin StreamSteps /\ "cursor" \notin StreamSteps /\ "reread" \notin StreamSteps
  BY DEF StreamSteps, Checks, Subscribed
<1>1. CASE Open(f)
  <2>1. fpc[f] = "open" /\ UNCHANGED writers
    BY <1>1 DEF Open, Untouched
  <2>2. CASE Ends(f, "gone")
    <3>1. f \in Reading /\ Reading' = Reading \ {f} /\ log' = log /\ purged' = purged
      BY <1>in, <2>1, <2>2, GoesOn DEF Ends, Reading, writers
    <3>2. Log!Stop(f, "queued")
      BY <2>2, <3>1 DEF Ends, Log!Stop, Reading
    <3> QED
      BY <3>2 DEF Log!Next, Row
  <2>3. CASE Goto(f, "subscribe") /\ UNCHANGED <<cursor, view>>
    BY <1>in, <2>1, <2>3, StepsAlike
  <2> QED
    BY <1>1, <2>2, <2>3 DEF Open
<1>2. CASE Subscribe(f) \/ Woken(f) \/ Redrain(f) \/ Cut(f)
  <2>1. PICK to \in StreamSteps : Goto(f, to)
    BY <1>2, <1>in DEF Subscribe, Woken, Redrain, Cut, CutShort
  <2>2. fpc[f] \in StreamSteps /\ UNCHANGED <<writers, cursor, view>>
    BY <1>2, <1>in DEF Subscribe, Woken, Redrain, Cut, CutShort, Untouched
  <2> QED
    BY <2>1, <2>2, StepsAlike
<1>5. CASE EndStreams(f)
  <2>1. fpc[f] \in StreamSteps /\ Goto(f, "reread") /\ UNCHANGED <<writers, cursor, view>>
    BY <1>5, <1>in DEF EndStreams, CutShort, Untouched
  <2>2. f \in Reading /\ Reading' = Reading \ {f} /\ log' = log /\ purged' = purged
    BY <1>in, <2>1, GoesOn DEF Reading, writers
  <2>3. Log!Stop(f, "queued")
    BY <2>1, <2>2 DEF Log!Stop, Reading
  <2> QED
    BY <2>3 DEF Log!Next, Row
<1>3. CASE CheckRow(f) \/ CheckFinalizing(f) \/ CheckHooks(f)
  <2>1. fpc[f] \in StreamSteps /\ UNCHANGED <<writers, cursor, view>>
    BY <1>3, <1>in DEF CheckRow, CheckFinalizing, CheckHooks, Untouched
  <2>2. \A yes : Answer(f, yes) => \E to \in StreamSteps : Goto(f, to)
    BY <1>in DEF Answer
  <2>3. \E to \in StreamSteps : Goto(f, to)
    BY <1>3, <1>in, <2>2 DEF CheckRow, CheckFinalizing, CheckHooks
  <2> QED
    BY <2>1, <2>3, StepsAlike
<1>4. CASE Backlog(f) \/ Drain(f) \/ SecondDrain(f)
  <2>1. fpc[f] \in StreamSteps /\ UNCHANGED writers
    BY <1>4, <1>in DEF Backlog, Drain, SecondDrain, Untouched
  <2>2. \/ \E next \in StreamSteps \cup {"cursor"} : Send(f, PageFrom(cursor[f]), next)
        \/ (\E to \in StreamSteps : Goto(f, to)) /\ UNCHANGED <<cursor, view>>
    BY <1>4, <1>in DEF Backlog, Drain, SecondDrain
  <2> QED
    BY <2>1, <2>2, PageRead, StepsAlike
<1> QED
  BY <1>1, <1>2, <1>3, <1>4, <1>5 DEF Handler

\* Through pages, wakes, failed reads and connections that break, a follower
\* gets the events after its snapshot's cursor in order, none twice and none left
\* out, until its stream ends, and shows what they tell (jobEvents, FollowJob;
\* docs/api.md on the stream).
THEOREM StreamServesReaders == Spec => ImplementsReaders
<1>1. Init => Log!Init
  <2> SUFFICES ASSUME Init PROVE Log!Init
    OBVIOUS
  <2>1. StreamInv
    BY InitStands
  <2>2. log \in Seq(Kind) /\ view \in [Followers -> Row]
    BY <2>1 DEF StreamInv, StreamTyped, FollowTyped
  <2>3. Reading = {}
    BY DEF Init, Reading, StreamSteps, Checks
  <2> QED
    BY <2>2, <2>3 DEF Init, Log!Init, Reading
<1>2. StreamInv /\ [Next]_vars => [Log!Next]_LogVars
  <2> SUFFICES ASSUME StreamInv, [Next]_vars PROVE Log!Next \/ UNCHANGED LogVars
    OBVIOUS
  <2>1. CASE UNCHANGED vars
    BY <2>1, Unread DEF vars, writers
  <2> QED
    BY <2>1, WriterSteps, SnapshotSteps, HandlerSteps DEF Next
<1> QED
  BY <1>1, <1>2, StreamStands, PTL DEF Spec, ImplementsReaders, Log!Spec, LogVars, Reading

-----------------------------------------------------------------------------
(* The outcomes of the hooks *)

\* The executions the pending count of a job counts, those that still have steps
\* to take before the streams could be left, and those that have begun.
Pendings == {"queued", "record", "slot", "pending"} \cup Running
Unended(j) == {h \in Hooks : job[h] = j /\ pc[h] \in Pendings}

OutcomesTyped ==
    /\ pc \in [Hooks -> Places] /\ job \in [Hooks -> Jobs \cup {NoJob}]
    /\ unfinished \in [Jobs -> Nat] /\ recorded \in [Hooks -> Nat] /\ told \in [Jobs -> Nat]
    /\ \A h \in Hooks : pc[h] = "none" <=> job[h] = NoJob
PendingCounts == \A j \in Jobs : unfinished[j] = Cardinality(Unended(j))
RecordedFirst ==
    \A h \in Hooks : pc[h] \in {"slot", "pending", "wake", "leave", "over"} => recorded[h] > 0
WakeToCome ==
    \A j \in Jobs : told[j] # 0 => \E h \in Hooks : job[h] = j /\ pc[h] \notin {"leave", "over"}

HooksInv == OutcomesTyped /\ PendingCounts /\ RecordedFirst /\ WakeToCome

LEMMA UnendedFinite == \A j : IsFiniteSet(Unended(j)) /\ Cardinality(Unended(j)) \in Nat
<1> TAKE j
<1>1. Unended(j) \in SUBSET Hooks /\ IsFiniteSet(Hooks)
  BY DispatcherAssumption DEF Unended
<1> QED
  BY <1>1, FS_Subset, FS_CardinalityType

\* An execution whose outcome is due keeps its job's count above zero.
LEMMA UnendedCounts ==
    ASSUME HooksInv, NEW h \in Hooks, pc[h] \in Pendings
    PROVE  job[h] \in Jobs /\ unfinished[job[h]] \in Nat /\ unfinished[job[h]] > 0
<1>1. job[h] \in Jobs
  BY DEF HooksInv, OutcomesTyped, Pendings, Running
<1>2. h \in Unended(job[h]) /\ unfinished[job[h]] = Cardinality(Unended(job[h]))
  BY <1>1 DEF HooksInv, PendingCounts, Unended
<1>3. Cardinality(Unended(job[h])) # 0
  BY <1>2, UnendedFinite, FS_EmptySet
<1> QED
  BY <1>1, <1>2, <1>3, UnendedFinite

\* And the other way round.
LEMMA CountsUnended ==
    ASSUME HooksInv, NEW j \in Jobs, unfinished[j] # 0
    PROVE  \E h \in Hooks : job[h] = j /\ pc[h] \in Pendings
<1>1. Cardinality(Unended(j)) # 0
  BY DEF HooksInv, PendingCounts
<1>2. Unended(j) # {}
  BY <1>1, FS_EmptySet
<1> QED
  BY <1>2 DEF Unended

LEMMA HooksInvInit == HooksInit => HooksInv
<1> SUFFICES ASSUME HooksInit PROVE HooksInv
  OBVIOUS
<1>1. \A j \in Jobs : Unended(j) = {}
  BY DEF HooksInit, Unended, Pendings, Running
<1>2. PendingCounts
  BY <1>1, FS_EmptySet DEF HooksInit, PendingCounts
<1>3. OutcomesTyped
  BY DispatcherAssumption DEF HooksInit, OutcomesTyped, Places
<1> QED
  BY <1>2, <1>3 DEF HooksInit, HooksInv, RecordedFirst, WakeToCome

LEMMA DispatchKeeps ==
    ASSUME HooksInv, NEW j \in Jobs, NEW hs \in SUBSET Hooks, Dispatch(j, hs)
    PROVE  HooksInv'
<1>1. /\ \A h \in hs : pc[h] = "none"
      /\ pc' = [h \in Hooks |-> IF h \in hs THEN "queued" ELSE pc[h]]
      /\ job' = [h \in Hooks |-> IF h \in hs THEN j ELSE job[h]]
      /\ unfinished' = [unfinished EXCEPT ![j] = @ + Cardinality(hs)]
      /\ recorded' = recorded /\ told' = told
  BY DEF Dispatch
<1>2. /\ pc \in [Hooks -> Places] /\ job \in [Hooks -> Jobs \cup {NoJob}]
      /\ unfinished \in [Jobs -> Nat]
      /\ \A h \in Hooks : pc[h] = "none" <=> job[h] = NoJob
  BY DEF HooksInv, OutcomesTyped
<1>3. IsFiniteSet(hs) /\ Cardinality(hs) \in Nat
  BY DispatcherAssumption, FS_Subset, FS_CardinalityType
<1>4. Unended(j)' = Unended(j) \cup hs /\ Unended(j) \cap hs = {}
  BY <1>1, <1>2, DispatcherAssumption DEF Unended, Pendings, Running
<1>5. Cardinality(Unended(j)') = Cardinality(Unended(j)) + Cardinality(hs)
  <2>1. IsFiniteSet(Unended(j)) /\ Cardinality(Unended(j)) \in Nat /\ Cardinality({}) = 0
    BY UnendedFinite, FS_EmptySet
  <2>2. Cardinality(Unended(j) \cup hs)
          = Cardinality(Unended(j)) + Cardinality(hs) - Cardinality(Unended(j) \cap hs)
    BY <1>3, <2>1, FS_Union
  <2>3. Cardinality(Unended(j) \cap hs) = 0
    BY <1>4, <2>1
  <2>4. Cardinality(Unended(j) \cup hs) = Cardinality(Unended(j)) + Cardinality(hs)
    BY <1>3, <2>1, <2>2, <2>3
  <2> QED
    BY <1>4, <2>4
<1>6. \A k \in Jobs : k # j => Unended(k)' = Unended(k)
  BY <1>1, <1>2, DispatcherAssumption DEF Unended, Pendings, Running
<1>7. PendingCounts'
  BY <1>1, <1>2, <1>5, <1>6 DEF HooksInv, PendingCounts
<1>8. OutcomesTyped'
  <2>1. unfinished' \in [Jobs -> Nat]
    BY <1>1, <1>2, <1>3
  <2>2. pc' \in [Hooks -> Places] /\ job' \in [Hooks -> Jobs \cup {NoJob}]
    BY <1>1, <1>2 DEF Places
  <2>3. \A h \in Hooks : pc'[h] = "none" <=> job'[h] = NoJob
    BY <1>1, <1>2, DispatcherAssumption
  <2> QED
    BY <1>1, <2>1, <2>2, <2>3 DEF HooksInv, OutcomesTyped
<1>9. RecordedFirst'
  BY <1>1, <1>2 DEF HooksInv, RecordedFirst
<1>10. WakeToCome'
  <2> SUFFICES ASSUME NEW k \in Jobs, told[k] # 0
      PROVE \E h \in Hooks : job'[h] = k /\ pc'[h] \notin {"leave", "over"}
    BY <1>1 DEF WakeToCome
  <2>1. PICK h \in Hooks : job[h] = k /\ pc[h] \notin {"leave", "over"}
    BY DEF HooksInv, WakeToCome
  <2>2. h \notin hs
    BY <1>1, <1>2, <2>1, DispatcherAssumption
  <2> QED
    BY <1>1, <2>1, <2>2
<1> QED
  BY <1>7, <1>8, <1>9, <1>10 DEF HooksInv

\* What every step of one execution has in common.
LEMMA Stepped ==
    ASSUME HooksInv, NEW h \in Hooks, NEW to \in Places \ {"none"}, pc[h] # "none",
           pc' = [pc EXCEPT ![h] = to], job' = job
    PROVE  /\ pc' \in [Hooks -> Places] /\ pc'[h] = to /\ \A i \in Hooks : i # h => pc'[i] = pc[i]
           /\ \A i \in Hooks : pc'[i] = "none" <=> job'[i] = NoJob
           /\ job[h] \in Jobs
           /\ pc[h] \in Pendings /\ to \in Pendings => \A j : Unended(j)' = Unended(j)
           /\ pc[h] \notin Pendings /\ to \notin Pendings => \A j : Unended(j)' = Unended(j)
           /\ pc[h] \in Pendings /\ to \notin Pendings =>
                /\ Unended(job[h])' = Unended(job[h]) \ {h}
                /\ \A j \in Jobs : j # job[h] => Unended(j)' = Unended(j)
<1>1. /\ pc \in [Hooks -> Places] /\ job \in [Hooks -> Jobs \cup {NoJob}]
      /\ \A i \in Hooks : pc[i] = "none" <=> job[i] = NoJob
  BY DEF HooksInv, OutcomesTyped
<1>2. /\ pc' \in [Hooks -> Places] /\ pc'[h] = to /\ \A i \in Hooks : i # h => pc'[i] = pc[i]
  BY <1>1
<1>3. \A i \in Hooks : pc'[i] = "none" <=> job'[i] = NoJob
  BY <1>1, <1>2
<1>4. job[h] \in Jobs
  BY <1>1
<1> QED
  BY <1>1, <1>2, <1>3, <1>4 DEF Unended

\* A step before the outcome is recorded, or the one that gives the slot back.
LEMMA UnendedStepKeeps ==
    ASSUME HooksInv, NEW h \in Hooks, NEW to \in Pendings, pc[h] \in Pendings,
           pc' = [pc EXCEPT ![h] = to], job' = job, unfinished' = unfinished,
           to \in {"slot", "pending"} => recorded'[h] > 0,
           recorded' \in [Hooks -> Nat], told' \in [Jobs -> Nat],
           \A i \in Hooks : recorded'[i] >= recorded[i],
           \A j \in Jobs : j # job[h] => told'[j] = told[j]
    PROVE  HooksInv'
<1>1. to \in Places \ {"none"} /\ pc[h] # "none" /\ to \notin {"wake", "leave", "over"}
  BY DEF Pendings, Places, Running, Ran
<1>2. /\ pc' \in [Hooks -> Places] /\ pc'[h] = to /\ \A i \in Hooks : i # h => pc'[i] = pc[i]
      /\ \A i \in Hooks : pc'[i] = "none" <=> job'[i] = NoJob
      /\ job[h] \in Jobs /\ \A j : Unended(j)' = Unended(j)
  BY <1>1, Stepped
<1>3. OutcomesTyped'
  BY <1>2 DEF HooksInv, OutcomesTyped
<1>4. PendingCounts'
  BY <1>2 DEF HooksInv, PendingCounts
<1>5. RecordedFirst'
  <2> SUFFICES ASSUME NEW i \in Hooks, pc'[i] \in {"slot", "pending", "wake", "leave", "over"}
      PROVE recorded'[i] > 0
    BY DEF RecordedFirst
  <2>1. CASE i = h
    BY <1>1, <1>2, <2>1
  <2>2. CASE i # h
    <3>1. recorded[i] > 0 /\ recorded[i] \in Nat /\ recorded'[i] \in Nat
      BY <1>2, <2>2 DEF HooksInv, RecordedFirst, OutcomesTyped
    <3> QED
      BY <3>1
  <2> QED
    BY <2>1, <2>2
<1>6. WakeToCome'
  <2> SUFFICES ASSUME NEW k \in Jobs, told'[k] # 0
      PROVE \E i \in Hooks : job'[i] = k /\ pc'[i] \notin {"leave", "over"}
    BY DEF WakeToCome
  <2>1. CASE k = job[h]
    BY <1>1, <1>2, <2>1
  <2>2. CASE k # job[h]
    <3>1. PICK i \in Hooks : job[i] = k /\ pc[i] \notin {"leave", "over"}
      BY <2>2 DEF HooksInv, WakeToCome
    <3> QED
      BY <3>1, <2>2, <1>2
  <2> QED
    BY <2>1, <2>2
<1> QED
  BY <1>3, <1>4, <1>5, <1>6 DEF HooksInv

LEMMA RunKeeps ==
    ASSUME HooksInv, NEW h \in Hooks,
           TakeSlot(h) \/ Attempt(h) \/ Succeed(h) \/ Fail(h) \/ WaitRetry(h) \/ ReleaseSlot(h)
    PROVE  HooksInv'
<1>1. \E to \in Pendings :
        /\ pc[h] \in Pendings /\ pc' = [pc EXCEPT ![h] = to]
        /\ to \in {"slot", "pending"} => pc[h] = "slot"
        /\ UNCHANGED <<job, unfinished, recorded, told>>
  BY DEF TakeSlot, Attempt, Succeed, Fail, WaitRetry, ReleaseSlot, Goes, Pendings, Running
<1>2. PICK to \in Pendings :
        /\ pc[h] \in Pendings /\ pc' = [pc EXCEPT ![h] = to]
        /\ to \in {"slot", "pending"} => pc[h] = "slot"
        /\ UNCHANGED <<job, unfinished, recorded, told>>
  BY <1>1
<1>3. recorded \in [Hooks -> Nat] /\ told \in [Jobs -> Nat] /\ (pc[h] = "slot" => recorded[h] > 0)
  BY DEF HooksInv, OutcomesTyped, RecordedFirst
<1>4. \A i \in Hooks : recorded'[i] >= recorded[i]
  BY <1>2, <1>3
<1> QED
  BY <1>2, <1>3, <1>4, UnendedStepKeeps

LEMMA RecordKeeps ==
    ASSUME HooksInv, NEW h \in Hooks, NotRun(h) \/ RecordOutcome(h)
    PROVE  HooksInv'
<1>1. \E to \in Pendings : pc[h] \in Pendings /\ pc' = [pc EXCEPT ![h] = to]
  BY DEF NotRun, RecordOutcome, Goes, Pendings
<1>2. PICK to \in Pendings : pc[h] \in Pendings /\ pc' = [pc EXCEPT ![h] = to]
  BY <1>1
<1>3. /\ recorded' = [recorded EXCEPT ![h] = @ + 1]
      /\ told' = [told EXCEPT ![job[h]] = unfinished[job[h]]]
      /\ job' = job /\ unfinished' = unfinished
  BY DEF NotRun, RecordOutcome, Recorded
<1>4. recorded \in [Hooks -> Nat] /\ told \in [Jobs -> Nat] /\ unfinished \in [Jobs -> Nat]
  BY DEF HooksInv, OutcomesTyped
<1>5. job[h] \in Jobs
  BY <1>2, UnendedCounts
<1>6. recorded' \in [Hooks -> Nat] /\ recorded'[h] > 0 /\ \A i \in Hooks : recorded'[i] >= recorded[i]
  BY <1>3, <1>4
<1>7. told' \in [Jobs -> Nat] /\ \A j \in Jobs : j # job[h] => told'[j] = told[j]
  BY <1>3, <1>4, <1>5
<1> QED
  BY <1>2, <1>3, <1>6, <1>7, UnendedStepKeeps

\* The count goes down, and whoever sees it reach zero goes on to the wake.
LEMMA DonePendingKeeps ==
    ASSUME HooksInv, NEW h \in Hooks, DonePending(h)
    PROVE  HooksInv'
<1>0. PICK j0 \in Jobs : j0 = job[h]
  BY UnendedCounts DEF DonePending, Goes, Pendings
<1>1. PICK to \in {"wake", "leave"} :
        /\ pc[h] = "pending" /\ pc' = [pc EXCEPT ![h] = to]
        /\ to = "leave" => unfinished[j0] # 1
        /\ unfinished' = [unfinished EXCEPT ![j0] = @ - 1]
        /\ UNCHANGED <<job, recorded, told>>
  BY <1>0 DEF DonePending, Goes
<1>2. to \in Places \ {"none"} /\ pc[h] \in Pendings /\ to \notin Pendings
  BY <1>1 DEF Pendings, Places, Running, Ran
<1>3. /\ pc' \in [Hooks -> Places] /\ pc'[h] = to /\ \A i \in Hooks : i # h => pc'[i] = pc[i]
      /\ \A i \in Hooks : pc'[i] = "none" <=> job'[i] = NoJob
      /\ Unended(j0)' = Unended(j0) \ {h}
      /\ \A j \in Jobs : j # j0 => Unended(j)' = Unended(j)
  BY <1>0, <1>1, <1>2, Stepped
<1>4. unfinished \in [Jobs -> Nat] /\ unfinished[j0] > 0
      /\ unfinished[j0] = Cardinality(Unended(j0)) /\ h \in Unended(j0)
  BY <1>0, <1>2, UnendedCounts DEF HooksInv, OutcomesTyped, PendingCounts, Unended
<1>5. Cardinality(Unended(j0)') = unfinished[j0] - 1
  BY <1>3, <1>4, UnendedFinite, FS_RemoveElement
<1>6. OutcomesTyped'
  BY <1>1, <1>3, <1>4 DEF HooksInv, OutcomesTyped
<1>7. PendingCounts'
  BY <1>1, <1>3, <1>4, <1>5 DEF HooksInv, PendingCounts
<1>8. RecordedFirst'
  BY <1>1, <1>3 DEF HooksInv, RecordedFirst
<1>9. WakeToCome'
  <2> SUFFICES ASSUME NEW k \in Jobs, told[k] # 0
      PROVE \E i \in Hooks : job'[i] = k /\ pc'[i] \notin {"leave", "over"}
    BY <1>1 DEF WakeToCome
  <2>1. CASE k = j0 /\ to = "wake"
    BY <2>1, <1>0, <1>1, <1>3
  <2>2. CASE k = j0 /\ to = "leave"
    <3>1. unfinished[j0] - 1 # 0
      BY <2>2, <1>1, <1>4
    <3>2. Unended(j0)' # {}
      BY <1>5, <3>1, FS_EmptySet
    <3>3. PICK i \in Hooks : job'[i] = j0 /\ pc'[i] \in Pendings
      BY <3>2 DEF Unended
    <3> QED
      BY <2>2, <3>3 DEF Pendings, Running
  <2>3. CASE k # j0
    <3>1. PICK i \in Hooks : job[i] = k /\ pc[i] \notin {"leave", "over"}
      BY DEF HooksInv, WakeToCome
    <3> QED
      BY <3>1, <2>3, <1>0, <1>1, <1>3
  <2> QED
    BY <2>1, <2>2, <2>3
<1> QED
  BY <1>6, <1>7, <1>8, <1>9 DEF HooksInv

LEMMA LeaveKeeps ==
    ASSUME HooksInv, NEW h \in Hooks, OnIdle(h) \/ Leave(h)
    PROVE  HooksInv'
<1>1. PICK to \in {"leave", "over"} :
        /\ pc[h] \in {"wake", "leave"} /\ pc' = [pc EXCEPT ![h] = to]
        /\ pc[h] = "leave" => told' = told
        /\ pc[h] = "wake" => told' = [told EXCEPT ![job[h]] = unfinished[job[h]]]
        /\ UNCHANGED <<job, recorded, unfinished>>
  BY DEF OnIdle, Leave, Goes
<1>2. to \in Places \ {"none"} /\ pc[h] \notin Pendings /\ to \notin Pendings /\ pc[h] # "none"
  BY <1>1 DEF Pendings, Places, Running, Ran
<1>3. /\ pc' \in [Hooks -> Places] /\ pc'[h] = to /\ \A i \in Hooks : i # h => pc'[i] = pc[i]
      /\ \A i \in Hooks : pc'[i] = "none" <=> job'[i] = NoJob
      /\ job[h] \in Jobs /\ \A j : Unended(j)' = Unended(j)
  BY <1>1, <1>2, Stepped
<1>4. told \in [Jobs -> Nat] /\ unfinished \in [Jobs -> Nat]
  BY DEF HooksInv, OutcomesTyped
<1>5. told' \in [Jobs -> Nat]
  BY <1>1, <1>3, <1>4
<1>6. OutcomesTyped'
  BY <1>1, <1>3, <1>5 DEF HooksInv, OutcomesTyped
<1>7. PendingCounts'
  BY <1>1, <1>3 DEF HooksInv, PendingCounts
<1>8. RecordedFirst'
  BY <1>1, <1>3 DEF HooksInv, RecordedFirst
<1>9. WakeToCome'
  <2> SUFFICES ASSUME NEW k \in Jobs, told'[k] # 0
      PROVE \E i \in Hooks : job'[i] = k /\ pc'[i] \notin {"leave", "over"}
    BY DEF WakeToCome
  <2>1. CASE k = job[h] /\ pc[h] = "wake"
    <3>1. unfinished[k] # 0
      BY <2>1, <1>1, <1>4
    <3>2. PICK i \in Hooks : job[i] = k /\ pc[i] \in Pendings
      BY <3>1, CountsUnended
    <3>3. i # h /\ pc[i] \notin {"leave", "over"}
      BY <3>2, <1>2 DEF Pendings, Running
    <3> QED
      BY <3>2, <3>3, <1>1, <1>3
  <2>2. CASE ~(k = job[h] /\ pc[h] = "wake")
    <3>1. told[k] # 0
      BY <2>2, <1>1, <1>4
    <3>2. PICK i \in Hooks : job[i] = k /\ pc[i] \notin {"leave", "over"}
      BY <3>1 DEF HooksInv, WakeToCome
    <3>3. i # h
      BY <2>2, <3>2, <1>1
    <3> QED
      BY <3>2, <3>3, <1>1, <1>3
  <2> QED
    BY <2>1, <2>2
<1> QED
  BY <1>6, <1>7, <1>8, <1>9 DEF HooksInv

LEMMA HooksInvStep == HooksInv /\ [HooksNext]_hooksVars => HooksInv'
<1> SUFFICES ASSUME HooksInv, [HooksNext]_hooksVars PROVE HooksInv'
  OBVIOUS
<1>1. CASE UNCHANGED <<pc, job, unfinished, recorded, told>>
  BY <1>1 DEF HooksInv, OutcomesTyped, PendingCounts, RecordedFirst, WakeToCome, Unended
<1>2. CASE \E j \in Jobs, hs \in SUBSET Hooks : Dispatch(j, hs)
  BY <1>2, DispatchKeeps
<1>3. CASE \E h \in Hooks : ExecuteStep(h)
  BY <1>3, RunKeeps, RecordKeeps, DonePendingKeeps, LeaveKeeps DEF ExecuteStep
<1>4. CASE ShutdownStep
  BY <1>1, <1>4 DEF ShutdownStep, Close, StopRetries, WaitGroupEmpty, AbortRuns, ShutdownReturns,
                    HooksUnchanged, hookVars
<1>5. CASE UNCHANGED hooksVars
  BY <1>1, <1>5 DEF hooksVars, hookVars
<1> QED
  BY <1>2, <1>3, <1>4, <1>5 DEF HooksNext

LEMMA HooksInvHolds == HooksInv => OutcomesArrive
<1> SUFFICES ASSUME HooksInv PROVE OutcomesArrive
  OBVIOUS
<1>1. PendingCoversOutcomes
  <2> SUFFICES ASSUME NEW h \in Hooks, pc[h] # "none", recorded[h] = 0
      PROVE unfinished[job[h]] > 0
    BY DEF PendingCoversOutcomes
  <2>1. pc[h] \in Pendings
    BY DEF HooksInv, OutcomesTyped, RecordedFirst, Places, Ran, Pendings
  <2> QED
    BY <2>1, UnendedCounts
<1>2. LastWakeFindsIdle
  BY DEF HooksInv, WakeToCome, LastWakeFindsIdle
<1> QED
  BY <1>1, <1>2 DEF OutcomesArrive

\* No stream loses a hook's outcome: a job's count stays above zero until each of
\* its executions has recorded one, and the wake that follows the last one finds
\* it at zero (execute and donePending, src/internal/hooks/dispatcher.go).
THEOREM OutcomesReachStreams == HooksSpec => []OutcomesArrive
  BY HooksInvInit, HooksInvStep, HooksInvHolds, PTL DEF HooksSpec

=============================================================================

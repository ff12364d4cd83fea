---------------------------- MODULE MirrorProofs ----------------------------
(***************************************************************************)
(* What holds, for every value of the constants, of what is kept of        *)
(* something that changes elsewhere: a service's token (TokenCache), the   *)
(* configuration of a file (ConfigStore), a track's progress as its events *)
(* tell it (ItemMeter), a file fetched from a server (RangeTransfer), the  *)
(* newest songs of a library (LibrarySync), the log that clients tail and  *)
(* page through (LogStore). Each part has an inductive invariant of its    *)
(* own; they share no state.                                               *)
(***************************************************************************)
EXTENDS TokenCache, ConfigStore, ItemMeter, RangeTransfer, LibrarySync, LogStore, FiniteSetTheorems, WellFoundedInduction, TLAPS

-----------------------------------------------------------------------------
(* The token that requests and the refresher share *)

\* Fetches, the one under way included, have each a reason, and one more is due
\* whenever a request could find it must fetch.
Fetching == IF fetching.by = "nobody" THEN 0 ELSE 1
Useless == cached.value = 0 \/ cached.value \in dead \/ cached.value = failed
Owed ==
    /\ fetched + Fetching <= due
    /\ fetching.by = "nobody" /\ Useless => fetched + 1 <= due

\* A token whose renewal has not failed is renewed before it expires.
Renewed == cached.value # 0 /\ cached.value # failed
InTime ==
    /\ wake <= now + 1
    /\ Renewed /\ refresher = "idle" => now + Lead <= cached.until /\ wake + Lead <= cached.until
    /\ Renewed /\ refresher = "waits" => now + Lead <= cached.until
    /\ refresher = "fetches" <=> fetching.by = "refresher"
    /\ fetching.by = "refresher" => fetching.since <= now /\ now <= fetching.since + MaxFetch
    /\ fetching.by = "refresher" /\ Renewed => fetching.since + Lead <= cached.until
    /\ fetching.by \in TokenUsers => ~Renewed

UserRecords == [step : {"none", "again", "sent", "waits"}, token : Nat, retry : BOOLEAN]
TokenTyped ==
    /\ now \in Nat /\ wake \in Nat /\ fetched \in Nat /\ due \in Nat /\ failed \in 0..fetched
    /\ cached \in [value : 0..fetched, until : Nat] /\ dead \subseteq 1..fetched
    /\ refresher \in {"idle", "waits", "fetches"}
    /\ fetching \in [by : TokenUsers \cup {"nobody", "refresher"}, since : Nat]
    /\ fetching.by = "nobody" => fetching = NotFetching
    /\ user \in [TokenUsers -> UserRecords]

TokenInv == TokenTyped /\ Owed /\ InTime /\ NeverLapses

LEMMA UserGetsToken ==
    ASSUME NEW f \in [TokenUsers -> UserRecords], NEW u \in TokenUsers, NEW n \in Nat
    PROVE  [f EXCEPT ![u].step = "sent", ![u].token = n] \in [TokenUsers -> UserRecords]
<1>1. [f EXCEPT ![u].step = "sent"] \in [TokenUsers -> UserRecords]
  BY DEF UserRecords
<1>2. PICK h \in [TokenUsers -> UserRecords] : h = [f EXCEPT ![u].step = "sent"]
  BY <1>1
<1>3. [h EXCEPT ![u].token = n] \in [TokenUsers -> UserRecords]
  BY DEF UserRecords
<1> QED BY <1>2, <1>3

LEMMA NoFetchIsIdle == NotFetching.by = "nobody" /\ NotFetching.since = 0
  BY DEF NotFetching

LEMMA TokenInvInit == TokenInit => TokenInv
  BY TokenAssumption, NoFetchIsIdle
  DEF TokenInit, TokenInv, TokenTyped, Owed, Useless, Fetching, InTime, Renewed, NeverLapses, NotFetching, NoUser, UserRecords

\* The end of a fetch: a token that is new, or what was there before.
LEMMA StoresKeeps ==
    ASSUME TokenInv, NEW by, Stores(by), by # "nobody",
           user' \in [TokenUsers -> UserRecords],
           IF by = "refresher" THEN refresher' = "idle" ELSE by \in TokenUsers /\ refresher' = refresher
    PROVE  TokenInv'
<1> USE TokenAssumption
<1>1. /\ fetching.by = by /\ fetched' = fetched + 1
      /\ cached' = [value |-> fetched + 1, until |-> now + TokenLife]
      /\ fetching' = NotFetching
      /\ UNCHANGED <<now, wake, dead, due, failed, starved>>
  BY DEF Stores
<1>2. TokenTyped /\ Owed /\ InTime /\ NeverLapses
  BY DEF TokenInv
<1>3. cached'.value = fetched + 1 /\ cached'.until = now + TokenLife /\ fetching'.by = "nobody"
  BY <1>1, NoFetchIsIdle
<1>4. TokenTyped'
  BY <1>1, <1>2, <1>3, NoFetchIsIdle DEF TokenTyped, NotFetching
<1>5. Owed'
  BY <1>1, <1>2, <1>3 DEF TokenTyped, Owed, Useless, Fetching
<1>6. refresher' # "fetches"
  BY <1>1, <1>2 DEF TokenTyped, InTime
<1>7. InTime'
  BY <1>1, <1>2, <1>3, <1>6 DEF TokenTyped, InTime, Renewed
<1> QED BY <1>1, <1>2, <1>4, <1>5, <1>7 DEF TokenInv, NeverLapses

LEMMA FetchFailsKeeps ==
    ASSUME TokenInv, NEW by, FetchFails(by), by # "nobody",
           user' \in [TokenUsers -> UserRecords],
           IF by = "refresher" THEN refresher' = "idle" /\ failed' = cached.value
           ELSE by \in TokenUsers /\ UNCHANGED <<refresher, failed>>
    PROVE  TokenInv'
<1> USE TokenAssumption
<1>1. /\ fetching.by = by /\ fetching' = NotFetching
      /\ UNCHANGED <<now, wake, cached, fetched, dead, due, starved>>
  BY DEF FetchFails
<1>2. TokenTyped /\ Owed /\ InTime /\ NeverLapses
  BY DEF TokenInv
<1>3. fetching'.by = "nobody"
  BY <1>1, NoFetchIsIdle
<1>4. TokenTyped'
  BY <1>1, <1>2, <1>3, NoFetchIsIdle DEF TokenTyped, NotFetching
<1>5. Owed'
  BY <1>1, <1>2, <1>3 DEF TokenTyped, Owed, Useless, Fetching
<1>6. refresher' # "fetches" /\ ~Renewed'
  BY <1>1, <1>2 DEF TokenTyped, InTime, Renewed
<1>7. InTime'
  BY <1>1, <1>2, <1>3, <1>6 DEF TokenTyped, InTime
<1> QED BY <1>1, <1>2, <1>4, <1>5, <1>7 DEF TokenInv, NeverLapses

LEMMA UserKeepsTokenInv ==
    ASSUME TokenInv, NEW u \in TokenUsers, Asks(u) \/ Rechecks(u) \/ UserFetched(u) \/ Answered(u)
    PROVE  TokenInv'
<1> USE TokenAssumption
<1>ty. TokenTyped /\ Owed /\ InTime /\ NeverLapses
  BY DEF TokenInv
<1>no. NoUser \in UserRecords
  BY DEF NoUser, UserRecords
<1>1. CASE Asks(u)
  <2> DEFINE new == [step |-> IF TokenLasts THEN "sent" ELSE "waits",
                     token |-> IF TokenLasts THEN cached.value ELSE 0,
                     retry |-> user[u].step = "none"]
  <2>1. /\ user' = [user EXCEPT ![u] = new]
        /\ starved' = (starved \/ (cached.value \notin {0, failed} /\ ~TokenLasts))
        /\ UNCHANGED <<now, wake, cached, refresher, fetching, fetched, dead, due, failed>>
    BY <1>1 DEF Asks
  <2>2. new \in UserRecords
    BY <1>ty DEF TokenTyped, UserRecords
  <2> HIDE DEF new
  <2>3. user' \in [TokenUsers -> UserRecords]
    BY <1>ty, <2>1, <2>2 DEF TokenTyped
  <2>4. Renewed => TokenLasts
    BY <1>ty DEF TokenTyped, InTime, Renewed, TokenLasts
  <2>5. ~starved'
    BY <1>ty, <2>1, <2>4 DEF NeverLapses, Renewed
  <2> QED BY <1>ty, <2>1, <2>3, <2>5 DEF TokenInv, TokenTyped, Owed, Fetching, Useless, InTime, Renewed, NeverLapses
<1>2. CASE Rechecks(u)
  <2>1. CASE TokenLasts
    <3>1. /\ user' = [user EXCEPT ![u].step = "sent", ![u].token = cached.value]
          /\ UNCHANGED <<now, wake, cached, refresher, fetching, fetched, dead, due, failed, starved>>
      BY <1>2, <2>1 DEF Rechecks
    <3>2. user' \in [TokenUsers -> UserRecords]
      <4>1. cached.value \in Nat /\ user \in [TokenUsers -> UserRecords]
        BY <1>ty DEF TokenTyped
      <4> QED BY <3>1, <4>1, UserGetsToken
    <3> QED BY <1>ty, <3>1, <3>2 DEF TokenInv, TokenTyped, Owed, Fetching, Useless, InTime, Renewed, NeverLapses
  <2>2. CASE ~TokenLasts
    <3>1. /\ fetching = NotFetching /\ fetching' = [by |-> u, since |-> now]
          /\ UNCHANGED <<now, wake, cached, refresher, user, fetched, dead, due, failed, starved>>
      BY <1>2, <2>2 DEF Rechecks
    <3>2. fetching.by = "nobody" /\ fetching'.by = u /\ u \notin {"nobody", "refresher"}
      BY <3>1, NoFetchIsIdle
    <3>3. ~Renewed
      BY <1>ty, <2>2, <3>2 DEF TokenTyped, InTime, Renewed, TokenLasts
    <3>4. Useless
      BY <3>3 DEF Renewed, Useless
    <3>5. TokenTyped'
      BY <1>ty, <3>1, <3>2 DEF TokenTyped
    <3>6. Owed'
      BY <1>ty, <3>1, <3>2, <3>4 DEF TokenTyped, Owed, Fetching
    <3>7. InTime'
      BY <1>ty, <3>1, <3>2, <3>3 DEF TokenTyped, InTime, Renewed
    <3> QED BY <1>ty, <3>1, <3>5, <3>6, <3>7 DEF TokenInv, NeverLapses
  <2> QED BY <2>1, <2>2
<1>3. CASE UserFetched(u)
  <2>1. CASE Stores(u) /\ user' = [user EXCEPT ![u].step = "sent", ![u].token = fetched + 1] /\ UNCHANGED refresher
    <3>1. user' \in [TokenUsers -> UserRecords]
      <4>1. fetched + 1 \in Nat /\ user \in [TokenUsers -> UserRecords]
        BY <1>ty DEF TokenTyped
      <4> QED BY <2>1, <4>1, UserGetsToken
    <3> QED BY <2>1, <3>1, StoresKeeps
  <2>2. CASE FetchFails(u) /\ user' = [user EXCEPT ![u] = NoUser] /\ UNCHANGED <<refresher, failed>>
    <3>1. user' \in [TokenUsers -> UserRecords]
      BY <1>ty, <1>no, <2>2 DEF TokenTyped
    <3> QED BY <2>2, <3>1, FetchFailsKeeps
  <2> QED BY <1>3, <2>1, <2>2 DEF UserFetched
<1>4. CASE Answered(u)
  <2>1. UNCHANGED <<now, wake, refresher, fetching, fetched, dead, due, failed, starved>>
    BY <1>4 DEF Answered
  <2>2. user' = [user EXCEPT ![u].step = "again"] \/ user' = [user EXCEPT ![u] = NoUser]
    BY <1>4 DEF Answered
  <2>3. user' \in [TokenUsers -> UserRecords]
    BY <1>ty, <1>no, <2>2 DEF TokenTyped, UserRecords
  <2>4. CASE UNCHANGED cached
    BY <1>ty, <2>1, <2>3, <2>4 DEF TokenInv, TokenTyped, Owed, Fetching, Useless, InTime, Renewed, NeverLapses
  <2>5. CASE cached' = [value |-> 0, until |-> 0] /\ cached.value \in dead
    <3>1. cached'.value = 0 /\ cached'.until = 0 /\ Useless /\ ~Renewed'
      BY <2>5 DEF Renewed, Useless
    <3>2. TokenTyped'
      BY <1>ty, <2>1, <2>3, <2>5 DEF TokenTyped
    <3>3. Owed' /\ InTime'
      BY <1>ty, <2>1, <3>1 DEF TokenTyped, Owed, Fetching, InTime
    <3> QED BY <1>ty, <2>1, <3>2, <3>3 DEF TokenInv, NeverLapses
  <2> QED BY <1>4, <2>4, <2>5 DEF Answered, Invalidates
<1> QED BY <1>1, <1>2, <1>3, <1>4

LEMMA OthersKeepTokenInv ==
    ASSUME TokenInv, RefresherWakes \/ RefresherRechecks \/ RefresherFetched \/ TokenDies \/ Ticks
    PROVE  TokenInv'
<1> USE TokenAssumption
<1>ty. TokenTyped /\ Owed /\ InTime /\ NeverLapses
  BY DEF TokenInv
<1>1. CASE RefresherWakes
  <2>1. /\ refresher = "idle" /\ now >= wake /\ wake' = now + 1
        /\ refresher' = IF Expiring THEN "waits" ELSE "idle"
        /\ UNCHANGED <<now, cached, user, fetching, fetched, dead, due, failed, starved>>
    BY <1>1 DEF RefresherWakes
  <2>2. TokenTyped' /\ Owed'
    BY <1>ty, <2>1 DEF TokenTyped, Owed, Useless, Fetching
  <2>3. InTime'
    BY <1>ty, <2>1 DEF TokenTyped, InTime, Renewed, Expiring
  <2> QED BY <1>ty, <2>1, <2>2, <2>3 DEF TokenInv, NeverLapses
<1>2. CASE RefresherRechecks
  <2>1. CASE Expiring
    <3>1. /\ refresher = "waits" /\ fetching = NotFetching
          /\ due' = due + 1 /\ fetching' = [by |-> "refresher", since |-> now] /\ refresher' = "fetches"
          /\ UNCHANGED <<now, wake, cached, user, fetched, dead, failed, starved>>
      BY <1>2, <2>1 DEF RefresherRechecks
    <3>2. fetching.by = "nobody" /\ fetching'.by = "refresher" /\ fetching'.since = now
      BY <3>1, NoFetchIsIdle
    <3>3. TokenTyped' /\ Owed'
      BY <1>ty, <3>1, <3>2 DEF TokenTyped, Owed, Useless, Fetching
    <3>4. InTime'
      BY <1>ty, <3>1, <3>2 DEF TokenTyped, InTime, Renewed
    <3> QED BY <1>ty, <3>1, <3>3, <3>4 DEF TokenInv, NeverLapses
  <2>2. CASE ~Expiring
    <3>1. /\ refresher = "waits" /\ refresher' = "idle"
          /\ UNCHANGED <<now, wake, cached, user, fetching, fetched, dead, due, failed, starved>>
      BY <1>2, <2>2 DEF RefresherRechecks
    <3>2. TokenTyped' /\ Owed'
      BY <1>ty, <3>1 DEF TokenTyped, Owed, Useless, Fetching
    <3>3. InTime'
      BY <1>ty, <2>2, <3>1 DEF TokenTyped, InTime, Renewed, Expiring
    <3> QED BY <1>ty, <3>1, <3>2, <3>3 DEF TokenInv, NeverLapses
  <2> QED BY <2>1, <2>2
<1>3. CASE RefresherFetched
  <2>1. refresher' = "idle" /\ UNCHANGED user /\ user \in [TokenUsers -> UserRecords]
    BY <1>3, <1>ty DEF RefresherFetched, TokenTyped
  <2>2. CASE Stores("refresher")
    BY <2>1, <2>2, StoresKeeps
  <2>3. CASE FetchFails("refresher") /\ failed' = cached.value
    BY <2>1, <2>3, FetchFailsKeeps
  <2> QED BY <1>3, <2>2, <2>3 DEF RefresherFetched
<1>4. CASE TokenDies
  <2>1. PICK t \in 1..fetched \ dead :
            dead' = dead \union {t} /\ due' = IF t = cached.value THEN due + 1 ELSE due
    BY <1>4 DEF TokenDies
  <2>2. UNCHANGED <<now, wake, cached, refresher, user, fetching, fetched, failed, starved>>
    BY <1>4 DEF TokenDies
  <2>3. TokenTyped' /\ Owed'
    BY <1>ty, <2>1, <2>2 DEF TokenTyped, Owed, Useless, Fetching
  <2>4. InTime'
    BY <1>ty, <2>2 DEF InTime, Renewed
  <2> QED BY <1>ty, <2>2, <2>3, <2>4 DEF TokenInv, NeverLapses
<1>5. CASE Ticks
  <2>1. /\ now' = now + 1 /\ ~(refresher = "idle" /\ now >= wake)
        /\ fetching = NotFetching => refresher # "waits"
        /\ fetching # NotFetching => now - fetching.since < MaxFetch
        /\ UNCHANGED <<wake, cached, refresher, user, fetching, fetched, dead, due, failed, starved>>
    BY <1>5 DEF Ticks
  <2>2. TokenTyped' /\ Owed'
    BY <1>ty, <2>1 DEF TokenTyped, Owed, Useless, Fetching
  <2>3. InTime'
    BY <1>ty, <2>1, NoFetchIsIdle DEF TokenTyped, InTime, Renewed
  <2> QED BY <1>ty, <2>1, <2>2, <2>3 DEF TokenInv, NeverLapses
<1> QED BY <1>1, <1>2, <1>3, <1>4, <1>5

LEMMA TokenInvStep == TokenInv /\ [TokenNext]_tokenVars => TokenInv'
<1> SUFFICES ASSUME TokenInv, [TokenNext]_tokenVars PROVE TokenInv'
  OBVIOUS
<1>1. CASE UNCHANGED tokenVars
  BY <1>1 DEF TokenInv, TokenTyped, Owed, Fetching, Useless, InTime, Renewed, NeverLapses, tokenVars
<1>2. CASE \E u \in TokenUsers : Asks(u) \/ Rechecks(u) \/ UserFetched(u) \/ Answered(u)
  BY <1>2, UserKeepsTokenInv
<1>3. CASE RefresherWakes \/ RefresherRechecks \/ RefresherFetched \/ TokenDies \/ Ticks
  BY <1>3, OthersKeepTokenInv
<1> QED BY <1>1, <1>2, <1>3 DEF TokenNext

LEMMA TokenInvHolds == TokenInv => TokenHolds
<1> SUFFICES ASSUME TokenInv PROVE TokenHolds
  OBVIOUS
<1>1. TokenTyped /\ Owed /\ NeverLapses
  BY DEF TokenInv
<1>2. CASE fetching = NotFetching
  <2>1. {fetching} \ {NotFetching} = {} /\ fetching.by = "nobody"
    BY <1>2, NoFetchIsIdle
  <2>2. Cardinality({fetching} \ {NotFetching}) = 0
    BY <2>1, FS_EmptySet
  <2> QED BY <1>1, <2>1, <2>2 DEF TokenTyped, Owed, Fetching, FetchesAreDue, TokenHolds
<1>3. CASE fetching # NotFetching
  <2>1. {fetching} \ {NotFetching} = {fetching} /\ fetching.by # "nobody"
    BY <1>1, <1>3 DEF TokenTyped
  <2>2. Cardinality({fetching} \ {NotFetching}) = 1
    BY <2>1, FS_Singleton
  <2> QED BY <1>1, <2>1, <2>2 DEF TokenTyped, Owed, Fetching, FetchesAreDue, TokenHolds
<1> QED BY <1>2, <1>3

\* However requests, checks of the refresher and 401s overlap, no more tokens
\* are fetched than there were reasons to, and no request finds its token
\* expired while the refresher's fetches succeed (applemusic/tokencache.go).
THEOREM TokensAreFetchedInTime == TokenSpec => []TokenHolds
<1>1. TokenInit => TokenInv
  BY TokenInvInit
<1>2. TokenInv /\ [TokenNext]_tokenVars => TokenInv'
  BY TokenInvStep
<1>3. TokenInv => TokenHolds
  BY TokenInvHolds
<1> QED BY <1>1, <1>2, <1>3, PTL DEF TokenSpec

-----------------------------------------------------------------------------
(* The configuration and its file *)

AllValues == Values.level \cup Values.quality \cup Values.listen
Config == {cfg \in [Keys -> AllValues] : \A k \in Keys : cfg[k] \in Values[k]}
Holding == {"shared", "read", "merged", "loaded", "saved"}
Applying == {"none", "apply", "set", "check"}
PutRecords == [step : Holding \cup Applying, body : Bodies \cup {DefaultConfig}, cfg : Config, disk : Config,
               applied : Values.level]
ConfigTyped ==
    /\ file \in Config \cup {Missing} /\ snapshot \in Config /\ level \in Values.level
    /\ put \in [ConfigClients -> PutRecords] /\ wanted \in [Keys -> SUBSET AllValues]

\* What a request has read: the file's runtime keys, as they were left or as
\* an edit left them meanwhile; then the body's over them; then, read from the
\* disk again, the startup key too.
Took(cfg, body) ==
    \A k \in RuntimeKeys : IF body[k] = "keep" THEN cfg[k] \in wanted[k] ELSE cfg[k] = body[k]
PutKeeps(c) ==
    /\ put[c].step \in Holding => saving = c /\ put[c].body \in Bodies
    /\ put[c].step \in {"shared", "read"} /\ file # Missing =>
           \A k \in RuntimeKeys : put[c].cfg[k] \in wanted[k]
    /\ put[c].step = "merged" => Took(put[c].cfg, put[c].body)
    /\ put[c].step = "loaded" =>
           Took(put[c].disk, put[c].body) /\ put[c].disk["listen"] \in wanted["listen"]
\* A file that was deleted had nothing to keep.
NothingKept == file = Missing => \A k \in Keys : wanted[k] = Values[k]

\* Who leaves the log system at another level is about to look again.
Chases(c) == \/ put[c].step \in {"apply", "set"}
             \/ put[c].step = "check" /\ put[c].applied # snapshot.level
LevelChases == level # snapshot.level => \E c \in ConfigClients : Chases(c)

ConfigInv ==
    ConfigTyped /\ EditsAreKept /\ NothingKept /\ (\A c \in ConfigClients : PutKeeps(c)) /\ LevelChases

LEMMA KeyNames == Keys = {"level", "quality", "listen"} /\ RuntimeKeys = {"level", "quality"}
  BY DEF Keys, RuntimeKeys

LEMMA ConfigsCombine ==
    ASSUME NEW x \in Config, NEW y \in Config
    PROVE  /\ CopyRuntimeFields(x, y) \in Config
           /\ \A k \in RuntimeKeys : CopyRuntimeFields(x, y)[k] = y[k]
           /\ CopyRuntimeFields(x, y)["listen"] = x["listen"]
           /\ CopyRuntimeFields(x, y).level = y.level
           /\ \A env \in {EnvListen, "unset"} : Overlaid(x, env) \in Config
           /\ \A env \in {EnvListen, "unset"} : \A k \in RuntimeKeys : Overlaid(x, env)[k] = x[k]
  BY DEF Config, CopyRuntimeFields, Overlaid, Values, AllValues, Keys, RuntimeKeys

LEMMA ConfigsMerge ==
    ASSUME NEW x \in Config, NEW body \in Bodies
    PROVE  /\ Onto(x, body) \in Config
           /\ \A k \in Keys : Onto(x, body)[k] = IF body[k] = "keep" THEN x[k] ELSE body[k]
  BY DEF Config, Onto, Bodies, Values, AllValues, Keys

LEMMA ConfigLevels ==
    /\ DefaultConfig \in Config /\ DefaultConfig.level = "info"
    /\ Missing \notin Config
    /\ \A x \in Config : x.level \in Values.level /\ x.level = x["level"] /\ \A k \in Keys : x[k] \in Values[k]
  BY DEF Config, DefaultConfig, Missing, Values, AllValues, Keys

LEMMA NoRequestTyped ==
    /\ \A s \in Applying : [NoRequest EXCEPT !.step = s] \in PutRecords /\ [NoRequest EXCEPT !.step = s].step = s
    /\ NoRequest \in PutRecords /\ NoRequest.step = "none"
  BY ConfigLevels DEF NoRequest, PutRecords, Applying, Values

LEMMA ConfigInvInit == ConfigInit => ConfigInv
<1> SUFFICES ASSUME ConfigInit PROVE ConfigInv
  OBVIOUS
<1>1. /\ file = DefaultConfig /\ snapshot = Overlaid(DefaultConfig, EnvListen)
      /\ level = DefaultConfig.level /\ put = [c \in ConfigClients |-> NoRequest]
      /\ wanted = [k \in Keys |-> {DefaultConfig[k]}]
  BY DEF ConfigInit
<1>2. ConfigTyped
  <2>1. wanted \in [Keys -> SUBSET AllValues]
    BY <1>1 DEF Keys, DefaultConfig, AllValues, Values
  <2> QED BY <1>1, <2>1, ConfigLevels, ConfigsCombine, NoRequestTyped DEF ConfigTyped
<1>3. EditsAreKept /\ NothingKept
  BY <1>1, ConfigLevels DEF EditsAreKept, NothingKept
<1>4. \A c \in ConfigClients : PutKeeps(c)
  BY <1>1, NoRequestTyped DEF PutKeeps, Holding
<1>5. snapshot.level = level
  BY <1>1, ConfigLevels, ConfigsCombine, KeyNames
<1> QED BY <1>2, <1>3, <1>4, <1>5 DEF ConfigInv, LevelChases

\* A request that lets go of what it did, or goes on, changes its record alone.
LEMMA PutMoves ==
    ASSUME ConfigInv, NEW c \in ConfigClients, NEW r \in PutRecords, put' = [put EXCEPT ![c] = r]
    PROVE  /\ put' \in [ConfigClients -> PutRecords]
           /\ \A d \in ConfigClients : put'[d] = IF d = c THEN r ELSE put[d]
  BY DEF ConfigInv, ConfigTyped

\* While one holds saveMu no other request has read anything.
LEMMA OneSaves ==
    ASSUME ConfigInv, NEW c \in ConfigClients, saving = "free" \/ put[c].step \in Holding,
           NEW d \in ConfigClients, d # c, "free" \notin ConfigClients
    PROVE  put[d].step \notin Holding
  BY DEF ConfigInv, PutKeeps

LEMMA LeavesKeeps ==
    ASSUME ConfigInv, NEW c \in ConfigClients, NEW s \in {"none", "apply"}, Leaves(c, s),
           UNCHANGED <<file, level, wanted>>,
           snapshot' \in Config, s = "none" => snapshot'.level = snapshot.level /\ ~Chases(c),
           \A d \in ConfigClients : d # c /\ put[d].step \in Holding => saving' = saving
    PROVE  ConfigInv'
<1>ty. ConfigTyped /\ EditsAreKept /\ NothingKept /\ (\A d \in ConfigClients : PutKeeps(d)) /\ LevelChases
  BY DEF ConfigInv
<1> DEFINE r == [NoRequest EXCEPT !.step = s]
<1>1. r \in PutRecords /\ r.step = s
  BY NoRequestTyped DEF Applying
<1>2. put' = [put EXCEPT ![c] = r]
  BY DEF Leaves
<1> HIDE DEF r
<1>3. \A d \in ConfigClients : put'[d] = IF d = c THEN r ELSE put[d]
  BY <1>1, <1>2, PutMoves
<1>4. ConfigTyped'
  BY <1>ty, <1>1, <1>2, PutMoves DEF ConfigTyped
<1>5. EditsAreKept' /\ NothingKept'
  BY <1>ty DEF EditsAreKept, NothingKept
<1>6. ASSUME NEW d \in ConfigClients PROVE PutKeeps(d)'
  BY <1>ty, <1>1, <1>3 DEF PutKeeps, Took, Holding
<1>7. LevelChases'
  <2>1. CASE s = "apply"
    BY <2>1, <1>1, <1>3 DEF LevelChases, Chases
  <2>2. CASE s = "none"
    <3>1. snapshot'.level = snapshot.level
      BY <2>2
    <3>2. \A d \in ConfigClients : Chases(d) => d # c
      BY <2>2
    <3>3. \A d \in ConfigClients : Chases(d) => Chases(d)'
      BY <3>1, <3>2, <1>3 DEF Chases
    <3> QED BY <1>ty, <3>1, <3>3 DEF LevelChases
  <2> QED BY <2>1, <2>2
<1> QED BY <1>4, <1>5, <1>6, <1>7 DEF ConfigInv

\* A step of a PUT that keeps saveMu and goes on to hold more.
LEMMA HoldsOn ==
    ASSUME ConfigInv, NEW c \in ConfigClients, NEW r \in PutRecords, put' = [put EXCEPT ![c] = r],
           r.step \in Holding, put[c].step \in Holding \cup {"none"},
           UNCHANGED <<file, level, wanted>>, snapshot' \in Config, snapshot'.level = snapshot.level,
           PutKeeps(c)', saving = "free" \/ UNCHANGED saving, "free" \notin ConfigClients
    PROVE  ConfigInv'
<1>ty. ConfigTyped /\ EditsAreKept /\ NothingKept /\ (\A d \in ConfigClients : PutKeeps(d)) /\ LevelChases
  BY DEF ConfigInv
<1>3. \A d \in ConfigClients : put'[d] = IF d = c THEN r ELSE put[d]
  BY PutMoves
<1>4. ConfigTyped'
  BY <1>ty, PutMoves DEF ConfigTyped
<1>5. EditsAreKept' /\ NothingKept'
  BY <1>ty DEF EditsAreKept, NothingKept
<1>6. ASSUME NEW d \in ConfigClients, d # c PROVE PutKeeps(d)'
  BY <1>ty, <1>3, <1>6, ConfigAssumption DEF PutKeeps, Took, Holding
<1>7. LevelChases'
  <2>1. \A d \in ConfigClients : Chases(d) => Chases(d)'
    BY <1>3 DEF Chases, Holding
  <2> QED BY <1>ty, <2>1 DEF LevelChases
<1> QED BY <1>4, <1>5, <1>6, <1>7 DEF ConfigInv

LEMMA FilesLoad ==
    ASSUME ConfigTyped
    PROVE  OnDisk \in Config /\ (file # Missing => file \in Config /\ OnDisk = file)
  BY ConfigLevels DEF ConfigTyped, OnDisk

LEMMA PutReadsKeeps == ASSUME ConfigInv, NEW c \in ConfigClients, PutReads(c) PROVE ConfigInv'
<1> USE ConfigAssumption
<1>ty. ConfigTyped /\ EditsAreKept /\ NothingKept
  BY DEF ConfigInv
<1>1. put[c].step = "none" /\ saving = "free" /\ UNCHANGED <<file, snapshot, level, wanted>>
  BY DEF PutReads, IsAt
<1>2. PICK body \in Bodies :
        LET takes(cfg, goes) ==
                 /\ put' = [put EXCEPT ![c].step = goes, ![c].body = body, ![c].cfg = cfg]
                 /\ saving' = c IN
        CASE file = Missing -> takes(snapshot, "shared")
          [] Loads(EnvListen) -> takes(CopyRuntimeFields(snapshot, Overlaid(file, EnvListen)), "read")
          [] OTHER -> UNCHANGED <<put, saving>>
  BY DEF PutReads
<1>3. ASSUME NEW cfg \in Config, NEW s \in {"shared", "read"}, saving' = c,
             put' = [put EXCEPT ![c].step = s, ![c].body = body, ![c].cfg = cfg],
             file # Missing => \A k \in RuntimeKeys : cfg[k] \in wanted[k]
      PROVE  ConfigInv'
  <2>1. put[c] \in PutRecords
    BY <1>ty DEF ConfigTyped
  <2> DEFINE r == [[[put[c] EXCEPT !.step = s] EXCEPT !.body = body] EXCEPT !.cfg = cfg]
  <2>2. r \in PutRecords /\ r.step = s /\ r.body = body /\ r.cfg = cfg
    BY <2>1 DEF PutRecords, Holding
  <2>3. put' = [put EXCEPT ![c] = r]
    BY <1>3, <1>ty DEF ConfigTyped
  <2> HIDE DEF r
  <2>4. put'[c] = r
    BY <1>ty, <2>2, <2>3 DEF ConfigTyped
  <2>5. PutKeeps(c)'
    BY <1>1, <1>3, <2>2, <2>4 DEF PutKeeps, Holding
  <2> QED BY <1>1, <1>ty, <2>2, <2>3, <2>5, HoldsOn DEF Holding, ConfigTyped
<1>4. CASE file = Missing
  <2>1. /\ put' = [put EXCEPT ![c].step = "shared", ![c].body = body, ![c].cfg = snapshot] /\ saving' = c
    BY <1>2, <1>4 DEF Loads
  <2> QED BY <1>3, <1>4, <1>ty, <2>1 DEF ConfigTyped
<1>5. CASE file # Missing /\ Loads(EnvListen)
  <2> DEFINE cfg == CopyRuntimeFields(snapshot, Overlaid(file, EnvListen))
  <2>1. /\ put' = [put EXCEPT ![c].step = "read", ![c].body = body, ![c].cfg = cfg] /\ saving' = c
    BY <1>2, <1>5
  <2>2. file \in Config /\ snapshot \in Config
    BY <1>ty, <1>5, FilesLoad DEF ConfigTyped
  <2>3. cfg \in Config /\ \A k \in RuntimeKeys : cfg[k] = file[k]
    BY <2>2, ConfigsCombine
  <2>4. \A k \in RuntimeKeys : cfg[k] \in wanted[k]
    BY <1>ty, <1>5, <2>3, KeyNames DEF EditsAreKept
  <2> HIDE DEF cfg
  <2> QED BY <1>3, <2>1, <2>3, <2>4
<1>6. CASE file # Missing /\ ~Loads(EnvListen)
  <2>1. UNCHANGED <<put, saving>>
    BY <1>2, <1>6
  <2> QED BY <1>1, <2>1 DEF ConfigInv, ConfigTyped, EditsAreKept, NothingKept, PutKeeps, Took, LevelChases, Chases
<1> QED BY <1>4, <1>5, <1>6

LEMMA GivesUpKeeps ==
    ASSUME ConfigInv, NEW c \in ConfigClients, put[c].step \in Holding, GivesUpPut(c),
           UNCHANGED <<file, level, wanted>>, snapshot' \in Config, snapshot'.level = snapshot.level
    PROVE  ConfigInv'
<1>1. Leaves(c, "none") /\ saving' = "free"
  BY DEF GivesUpPut
<1>2. ~Chases(c)
  BY DEF Chases, Holding
<1>3. \A d \in ConfigClients : d # c => put[d].step \notin Holding
  BY OneSaves, ConfigAssumption
<1> QED BY <1>1, <1>2, <1>3, LeavesKeeps

LEMMA PutMergesKeeps == ASSUME ConfigInv, NEW c \in ConfigClients, PutMerges(c) PROVE ConfigInv'
<1> USE ConfigAssumption
<1>ty. ConfigTyped /\ EditsAreKept /\ NothingKept /\ PutKeeps(c)
  BY DEF ConfigInv
<1> DEFINE merged == Onto(put[c].cfg, put[c].body)
<1>1. /\ put[c].step \in {"shared", "read"} /\ UNCHANGED <<file, level, wanted>>
      /\ snapshot' = IF put[c].step = "shared" THEN [snapshot EXCEPT !.quality = merged.quality] ELSE snapshot
  BY DEF PutMerges, IsAt
<1>2. put[c] \in PutRecords /\ put[c].cfg \in Config /\ put[c].body \in Bodies
  BY <1>ty, <1>1 DEF ConfigTyped, PutRecords, PutKeeps, Holding
<1>3. merged \in Config /\ \A k \in Keys : merged[k] = IF put[c].body[k] = "keep" THEN put[c].cfg[k] ELSE put[c].body[k]
  BY <1>2, ConfigsMerge
<1>4. PICK m \in Config : m = merged
  BY <1>3
<1>5. snapshot' \in Config /\ snapshot'.level = snapshot.level
  BY <1>1, <1>4, <1>ty DEF ConfigTyped, Config, Keys, Values, AllValues
<1>6. CASE GivesUpPut(c)
  BY <1>1, <1>5, <1>6, GivesUpKeeps DEF Holding
<1>7. CASE put' = [put EXCEPT ![c].step = "merged", ![c].cfg = m] /\ UNCHANGED saving
  <2> DEFINE r == [[put[c] EXCEPT !.step = "merged"] EXCEPT !.cfg = m]
  <2>1. r \in PutRecords /\ r.step = "merged" /\ r.cfg = m /\ r.body = put[c].body
    BY <1>2 DEF PutRecords, Holding
  <2>2. put' = [put EXCEPT ![c] = r]
    BY <1>7, <1>ty DEF ConfigTyped
  <2> HIDE DEF r
  <2>3. put'[c] = r
    BY <1>ty, <2>1, <2>2 DEF ConfigTyped
  <2>4. ASSUME NEW k \in RuntimeKeys
        PROVE  IF put[c].body[k] = "keep" THEN m[k] \in wanted[k] ELSE m[k] = put[c].body[k]
    <3>1. k \in Keys
      BY KeyNames
    <3>2. m[k] = IF put[c].body[k] = "keep" THEN put[c].cfg[k] ELSE put[c].body[k]
      BY <3>1, <1>3, <1>4
    <3>3. put[c].cfg[k] \in wanted[k]
      BY <3>1, <1>1, <1>2, <1>ty, ConfigLevels DEF PutKeeps, NothingKept
    <3> QED BY <3>2, <3>3
  <2>5. PutKeeps(c)'
    BY <1>1, <1>7, <1>ty, <2>1, <2>3, <2>4 DEF PutKeeps, Took, Holding
  <2> QED BY <1>1, <1>5, <1>7, <2>1, <2>2, <2>5, HoldsOn DEF Holding
<1> QED BY <1>4, <1>6, <1>7 DEF PutMerges

LEMMA PutLoadsDiskKeeps == ASSUME ConfigInv, NEW c \in ConfigClients, PutLoadsDisk(c) PROVE ConfigInv'
<1> USE ConfigAssumption
<1>ty. ConfigTyped /\ EditsAreKept /\ NothingKept /\ PutKeeps(c)
  BY DEF ConfigInv
<1>1. put[c].step = "merged" /\ UNCHANGED <<file, snapshot, level, wanted>>
  BY DEF PutLoadsDisk, IsAt
<1>2. put[c] \in PutRecords /\ put[c].cfg \in Config
  BY <1>ty DEF ConfigTyped, PutRecords
<1>3. CASE GivesUpPut(c)
  BY <1>1, <1>3, <1>ty, GivesUpKeeps DEF Holding, ConfigTyped
<1>4. CASE /\ put' = [put EXCEPT ![c].step = "loaded", ![c].disk = CopyRuntimeFields(OnDisk, put[c].cfg)]
           /\ UNCHANGED saving
  <2>1. PICK m \in Config : m = CopyRuntimeFields(OnDisk, put[c].cfg)
    BY <1>ty, <1>2, FilesLoad, ConfigsCombine
  <2>2. /\ \A k \in RuntimeKeys : m[k] = put[c].cfg[k]
        /\ m["listen"] = OnDisk["listen"]
    BY <1>ty, <1>2, <2>1, FilesLoad, ConfigsCombine
  <2>3. OnDisk["listen"] \in wanted["listen"]
    BY <1>ty, FilesLoad, ConfigLevels, KeyNames DEF EditsAreKept, NothingKept
  <2> DEFINE r == [[put[c] EXCEPT !.step = "loaded"] EXCEPT !.disk = m]
  <2>4. r \in PutRecords /\ r.step = "loaded" /\ r.disk = m /\ r.body = put[c].body
    BY <1>2 DEF PutRecords, Holding
  <2>5. put' = [put EXCEPT ![c] = r]
    BY <1>4, <1>ty, <2>1 DEF ConfigTyped
  <2> HIDE DEF r
  <2>6. put'[c] = r
    BY <1>ty, <2>4, <2>5 DEF ConfigTyped
  <2>7. PutKeeps(c)'
    BY <1>1, <1>4, <1>ty, <2>2, <2>3, <2>4, <2>6 DEF PutKeeps, Took, Holding
  <2> QED BY <1>1, <1>4, <1>ty, <2>4, <2>5, <2>7, HoldsOn DEF Holding, ConfigTyped
<1> QED BY <1>3, <1>4 DEF PutLoadsDisk

LEMMA PutRenamesKeeps == ASSUME ConfigInv, NEW c \in ConfigClients, PutRenames(c) PROVE ConfigInv'
<1> USE ConfigAssumption
<1>ty. ConfigTyped /\ EditsAreKept /\ NothingKept /\ PutKeeps(c) /\ LevelChases
  BY DEF ConfigInv
<1>1. put[c].step = "loaded" /\ UNCHANGED <<snapshot, level>>
  BY DEF PutRenames, IsAt
<1>2. put[c] \in PutRecords /\ put[c].disk \in Config /\ put[c].body \in Bodies
  BY <1>ty, <1>1 DEF ConfigTyped, PutRecords, PutKeeps, Holding
<1>3. CASE GivesUpPut(c) /\ UNCHANGED <<file, wanted>>
  BY <1>1, <1>3, <1>ty, GivesUpKeeps DEF Holding, ConfigTyped
<1>4. CASE /\ file' = put[c].disk /\ MovesTo(c, "saved") /\ UNCHANGED saving
           /\ wanted' = [k \in Keys |->
                IF k \in RuntimeKeys /\ put[c].body[k] # "keep" THEN {put[c].body[k]} ELSE wanted[k]]
  <2> DEFINE r == [put[c] EXCEPT !.step = "saved"]
  <2>1. r \in PutRecords /\ r.step = "saved" /\ r.body = put[c].body
    BY <1>2 DEF PutRecords, Holding
  <2>2. put' = [put EXCEPT ![c] = r]
    BY <1>4, <1>ty DEF MovesTo, ConfigTyped
  <2> HIDE DEF r
  <2>3. \A d \in ConfigClients : put'[d] = IF d = c THEN r ELSE put[d]
    BY <1>ty, <2>1, <2>2 DEF ConfigTyped
  <2>4. \A k \in Keys : put[c].disk[k] \in wanted'[k]
    BY <1>1, <1>4, <1>ty, KeyNames DEF PutKeeps, Took
  <2>5. file' # Missing
    BY <1>2, <1>4, ConfigLevels
  <2>6. ConfigTyped'
    <3>1. \A k \in RuntimeKeys : put[c].body[k] # "keep" => put[c].body[k] \in AllValues
      BY <1>2 DEF Bodies, RuntimeKeys, Values, AllValues
    <3>2. wanted' \in [Keys -> SUBSET AllValues]
      BY <1>4, <1>ty, <3>1 DEF ConfigTyped
    <3> QED BY <1>1, <1>2, <1>4, <1>ty, <2>1, <2>2, <3>2 DEF ConfigTyped
  <2>7. EditsAreKept' /\ NothingKept'
    BY <1>4, <2>4, <2>5 DEF EditsAreKept, NothingKept
  <2>8. \A d \in ConfigClients : d # c => put[d].step \notin Holding
    BY <1>1, OneSaves DEF Holding
  <2>9. ASSUME NEW d \in ConfigClients PROVE PutKeeps(d)'
    <3>1. CASE d = c
      BY <3>1, <1>1, <1>2, <1>4, <1>ty, <2>1, <2>3 DEF PutKeeps, Holding
    <3>2. CASE d # c
      BY <3>2, <2>3, <2>8 DEF PutKeeps, Holding
    <3> QED BY <3>1, <3>2
  <2>10. LevelChases'
    BY <1>1, <1>ty, <2>3 DEF LevelChases, Chases
  <2> QED BY <2>6, <2>7, <2>9, <2>10 DEF ConfigInv
<1> QED BY <1>3, <1>4 DEF PutRenames

LEMMA PutSwapsKeeps ==
    ASSUME ConfigInv, NEW c \in ConfigClients, PutSwaps(c) \/ ReloadRequest(c) PROVE ConfigInv'
<1> USE ConfigAssumption
<1>ty. ConfigTyped
  BY DEF ConfigInv
<1>1. CASE PutSwaps(c)
  <2>1. /\ put[c].step = "saved" /\ snapshot' = put[c].cfg /\ Leaves(c, "apply")
        /\ UNCHANGED <<file, level, wanted>>
    BY <1>1 DEF PutSwaps, IsAt
  <2>2. put[c].cfg \in Config
    BY <1>ty DEF ConfigTyped, PutRecords
  <2>3. \A d \in ConfigClients : d # c => put[d].step \notin Holding
    BY <2>1, OneSaves DEF Holding
  <2> QED BY <2>1, <2>2, <2>3, LeavesKeeps
<1>2. CASE ReloadRequest(c)
  <2>1. /\ put[c].step = "none" /\ saving = "free" /\ MovesTo(c, "apply")
        /\ snapshot' = IF Loads(EnvListen)
                       THEN CopyRuntimeFields(snapshot, Overlaid(file, EnvListen)) ELSE snapshot
        /\ UNCHANGED <<file, saving, level, wanted>>
    BY <1>2 DEF ReloadRequest, IsAt
  <2>2. snapshot' \in Config
    BY <1>ty, <2>1, FilesLoad, ConfigsCombine DEF Loads, ConfigTyped
  <2> DEFINE r == [put[c] EXCEPT !.step = "apply"]
  <2>3. r \in PutRecords /\ r.step = "apply"
    BY <1>ty DEF ConfigTyped, PutRecords, Applying
  <2>4. put' = [put EXCEPT ![c] = r]
    BY <2>1, <1>ty DEF MovesTo, ConfigTyped
  <2> HIDE DEF r
  <2>5. \A d \in ConfigClients : put'[d] = IF d = c THEN r ELSE put[d]
    BY <1>ty, <2>3, <2>4 DEF ConfigTyped
  <2>6. ConfigTyped'
    BY <1>ty, <2>1, <2>2, <2>3, <2>4 DEF ConfigTyped
  <2>7. EditsAreKept' /\ NothingKept' /\ \A d \in ConfigClients : PutKeeps(d)'
    BY <2>1, <2>3, <2>5 DEF ConfigInv, EditsAreKept, NothingKept, PutKeeps, Took, Holding
  <2>8. LevelChases'
    BY <2>3, <2>5 DEF LevelChases, Chases
  <2> QED BY <2>6, <2>7, <2>8 DEF ConfigInv
<1> QED BY <1>1, <1>2

LEMMA LevelKeeps ==
    ASSUME ConfigInv, NEW c \in ConfigClients, ReadsLevel(c) \/ SetsLevel(c) \/ ChecksLevel(c) PROVE ConfigInv'
<1> USE ConfigAssumption
<1>ty. ConfigTyped /\ EditsAreKept /\ NothingKept /\ (\A d \in ConfigClients : PutKeeps(d)) /\ LevelChases
  BY DEF ConfigInv
<1>1. CASE ReadsLevel(c)
  <2>1. /\ put[c].step = "apply" /\ put' = [put EXCEPT ![c].step = "set", ![c].applied = snapshot.level]
        /\ UNCHANGED <<file, snapshot, saving, level, wanted>>
    BY <1>1 DEF ReadsLevel, IsAt
  <2> DEFINE r == [[put[c] EXCEPT !.step = "set"] EXCEPT !.applied = snapshot.level]
  <2>2. r \in PutRecords /\ r.step = "set"
    BY <1>ty, ConfigLevels DEF ConfigTyped, PutRecords, Applying
  <2>3. put' = [put EXCEPT ![c] = r]
    BY <2>1, <1>ty DEF ConfigTyped
  <2> HIDE DEF r
  <2>4. \A d \in ConfigClients : put'[d] = IF d = c THEN r ELSE put[d]
    BY <2>2, <2>3, PutMoves
  <2>5. ConfigTyped' /\ EditsAreKept' /\ NothingKept'
    BY <1>ty, <2>1, <2>2, <2>3, PutMoves DEF ConfigTyped, EditsAreKept, NothingKept
  <2>6. ASSUME NEW d \in ConfigClients PROVE PutKeeps(d)'
    <3>1. CASE d = c
      BY <3>1, <2>2, <2>4 DEF PutKeeps, Holding
    <3>2. CASE d # c
      <4>1. put'[d] = put[d] /\ PutKeeps(d)
        BY <3>2, <2>4, <1>ty
      <4> QED BY <4>1, <2>1 DEF PutKeeps, Took
    <3> QED BY <3>1, <3>2
  <2>7. LevelChases'
    BY <2>2, <2>4 DEF LevelChases, Chases
  <2> QED BY <2>5, <2>6, <2>7 DEF ConfigInv
<1>2. CASE SetsLevel(c)
  <2>1. /\ put[c].step = "set" /\ level' = put[c].applied /\ MovesTo(c, "check")
        /\ UNCHANGED <<file, snapshot, saving, wanted>>
    BY <1>2 DEF SetsLevel, IsAt
  <2> DEFINE r == [put[c] EXCEPT !.step = "check"]
  <2>2. r \in PutRecords /\ r.step = "check" /\ r.applied = put[c].applied /\ put[c].applied \in Values.level
    BY <1>ty DEF ConfigTyped, PutRecords, Applying
  <2>3. put' = [put EXCEPT ![c] = r]
    BY <2>1, <1>ty DEF ConfigTyped, MovesTo
  <2> HIDE DEF r
  <2>4. \A d \in ConfigClients : put'[d] = IF d = c THEN r ELSE put[d]
    BY <2>2, <2>3, PutMoves
  <2>5. ConfigTyped' /\ EditsAreKept' /\ NothingKept'
    BY <1>ty, <2>1, <2>2, <2>3, PutMoves DEF ConfigTyped, EditsAreKept, NothingKept
  <2>6. \A d \in ConfigClients : PutKeeps(d)'
    BY <1>ty, <2>1, <2>2, <2>4 DEF PutKeeps, Took, Holding
  <2>7. LevelChases'
    BY <2>1, <2>2, <2>4 DEF LevelChases, Chases
  <2> QED BY <2>5, <2>6, <2>7 DEF ConfigInv
<1>3. CASE ChecksLevel(c)
  <2>1. /\ put[c].step = "check"
        /\ Leaves(c, IF snapshot.level = put[c].applied THEN "none" ELSE "apply")
        /\ UNCHANGED <<file, snapshot, saving, level, wanted>>
    BY <1>3 DEF ChecksLevel, IsAt
  <2>2. snapshot' \in Config
    BY <1>ty, <2>1 DEF ConfigTyped
  <2>3. CASE snapshot.level = put[c].applied
    <3>1. Leaves(c, "none") /\ ~Chases(c) /\ snapshot'.level = snapshot.level
      BY <2>1, <2>3 DEF Chases
    <3> QED BY <2>1, <2>2, <3>1, LeavesKeeps
  <2>4. CASE snapshot.level # put[c].applied
    <3>1. Leaves(c, "apply")
      BY <2>1, <2>4
    <3> QED BY <2>1, <2>2, <3>1, LeavesKeeps
  <2> QED BY <2>3, <2>4
<1> QED BY <1>1, <1>2, <1>3

LEMMA HandEditsKeeps == ASSUME ConfigInv, HandEdits PROVE ConfigInv'
<1> USE ConfigAssumption
<1>ty. ConfigTyped /\ EditsAreKept /\ NothingKept /\ (\A d \in ConfigClients : PutKeeps(d)) /\ LevelChases
  BY DEF ConfigInv
<1>1. UNCHANGED <<snapshot, saving, level, put>>
  BY DEF HandEdits
<1>2. LevelChases'
  BY <1>1, <1>ty DEF LevelChases, Chases
<1>3. ASSUME NEW k \in Keys, NEW v \in {"debug", "aac", "any", "bad"}, v \in Values[k], file # Missing,
             file' = [file EXCEPT ![k] = v],
             wanted' = [wanted EXCEPT ![k] = IF saving # "free" THEN @ \union {v} ELSE {v}]
      PROVE  ConfigInv'
  <2>1. /\ file' \in Config /\ \A j \in Keys : file'[j] = IF j = k THEN v ELSE file[j]
        /\ wanted' \in [Keys -> SUBSET AllValues]
    BY <1>3, <1>ty DEF ConfigTyped, Config, Keys, Values, AllValues
  <2>2. \A j \in Keys : wanted'[j] = IF j # k THEN wanted[j] ELSE IF saving # "free" THEN wanted[k] \union {v} ELSE {v}
    BY <1>3, <1>ty DEF ConfigTyped
  <2>3. file' # Missing
    BY <2>1, ConfigLevels
  <2>4. ConfigTyped' /\ EditsAreKept' /\ NothingKept'
    BY <1>1, <1>3, <1>ty, <2>1, <2>2, <2>3 DEF ConfigTyped, EditsAreKept, NothingKept
  <2>5. ASSUME NEW d \in ConfigClients PROVE PutKeeps(d)'
    <3>1. CASE put[d].step \in Holding
      <4>1. saving # "free" /\ \A j \in Keys : wanted[j] \subseteq wanted'[j]
        BY <3>1, <1>ty, <2>2 DEF PutKeeps
      <4> QED BY <1>1, <1>3, <1>ty, <4>1, KeyNames DEF PutKeeps, Took
    <3>2. CASE put[d].step \notin Holding
      BY <3>2, <1>1 DEF PutKeeps, Holding
    <3> QED BY <3>1, <3>2
  <2> QED BY <1>2, <2>4, <2>5 DEF ConfigInv
<1>4. CASE file # Missing /\ file' = Missing /\ wanted' = [k \in Keys |-> Values[k]]
  <2>1. \A k \in Keys : wanted'[k] = Values[k]
    BY <1>4
  <2>2. wanted' \in [Keys -> SUBSET AllValues]
    BY <1>4 DEF Keys, Values, AllValues
  <2>3. ConfigTyped' /\ EditsAreKept' /\ NothingKept'
    BY <1>1, <1>4, <1>ty, <2>1, <2>2 DEF ConfigTyped, EditsAreKept, NothingKept
  <2>4. ASSUME NEW d \in ConfigClients PROVE PutKeeps(d)'
    <3>1. put[d].cfg \in Config /\ put[d].disk \in Config
      BY <1>ty DEF ConfigTyped, PutRecords
    <3> QED BY <1>1, <1>4, <1>ty, <2>1, <3>1, ConfigLevels, KeyNames DEF PutKeeps, Took
  <2> QED BY <1>2, <2>3, <2>4 DEF ConfigInv
<1>5. \/ \E k \in Keys, v \in {"debug", "aac", "any", "bad"} :
            /\ v \in Values[k] /\ file # Missing /\ file' = [file EXCEPT ![k] = v]
            /\ wanted' = [wanted EXCEPT ![k] = IF saving # "free" THEN @ \union {v} ELSE {v}]
      \/ file # Missing /\ file' = Missing /\ wanted' = [k \in Keys |-> Values[k]]
  BY DEF HandEdits
<1> QED BY <1>3, <1>4, <1>5

LEMMA RestartKeeps == ASSUME ConfigInv, ConfigRestarts PROVE ConfigInv'
<1> USE ConfigAssumption
<1>ty. ConfigTyped /\ EditsAreKept /\ NothingKept
  BY DEF ConfigInv
<1>1. /\ file' = OnDisk /\ snapshot' = Overlaid(OnDisk, EnvListen) /\ level' = OnDisk.level
      /\ put' = [c \in ConfigClients |-> NoRequest] /\ UNCHANGED wanted
  BY DEF ConfigRestarts
<1>2. OnDisk \in Config /\ file' # Missing
  BY <1>ty, <1>1, FilesLoad, ConfigLevels
<1>3. /\ snapshot' \in Config /\ level' \in Values.level /\ snapshot'.level = level'
  BY <1>1, <1>2, ConfigLevels, ConfigsCombine, KeyNames
<1>4. ConfigTyped'
  BY <1>ty, <1>1, <1>2, <1>3, NoRequestTyped DEF ConfigTyped
<1>5. EditsAreKept' /\ NothingKept'
  BY <1>ty, <1>1, <1>2, FilesLoad, ConfigLevels DEF EditsAreKept, NothingKept
<1>6. ASSUME NEW c \in ConfigClients PROVE PutKeeps(c)'
  BY <1>1, NoRequestTyped DEF PutKeeps, Holding
<1> QED BY <1>3, <1>4, <1>5, <1>6 DEF ConfigInv, LevelChases

LEMMA ConfigInvStep == ConfigInv /\ [ConfigNext]_configVars => ConfigInv'
<1> SUFFICES ASSUME ConfigInv, [ConfigNext]_configVars PROVE ConfigInv'
  OBVIOUS
<1>1. CASE UNCHANGED configVars
  BY <1>1 DEF ConfigInv, ConfigTyped, EditsAreKept, NothingKept, PutKeeps, Took, LevelChases, Chases, configVars
<1>2. ASSUME NEW c \in ConfigClients,
             \/ PutReads(c) \/ PutMerges(c) \/ PutLoadsDisk(c) \/ PutRenames(c) \/ PutSwaps(c)
             \/ ReloadRequest(c) \/ ReadsLevel(c) \/ SetsLevel(c) \/ ChecksLevel(c)
      PROVE  ConfigInv'
  BY <1>2, PutReadsKeeps, PutMergesKeeps, PutLoadsDiskKeeps, PutRenamesKeeps, PutSwapsKeeps, LevelKeeps
<1> QED BY <1>1, <1>2, HandEditsKeeps, RestartKeeps DEF ConfigNext

LEMMA ConfigInvHolds == ConfigInv => ConfigHolds
  BY DEF ConfigInv, ConfigHolds, LevelFollows, LevelChases, Chases, IsAt

\* What a PUT or a hand edit put into config.yaml stays there through later
\* PUTs, failed writes, deletions and restarts, and the log system runs at the
\* configuration's level between requests (config/store.go, logging).
THEOREM EditsStay == ConfigSpec => []ConfigHolds
<1>1. ConfigInit => ConfigInv
  BY ConfigInvInit
<1>2. ConfigInv /\ [ConfigNext]_configVars => ConfigInv'
  BY ConfigInvStep
<1>3. ConfigInv => ConfigHolds
  BY ConfigInvHolds
<1> QED BY <1>1, <1>2, <1>3, PTL DEF ConfigSpec

-----------------------------------------------------------------------------
(* A track as its events tell it *)

\* What the run told last is the item as it is, but for meters the gate holds.
Alike(x, y) == Percent(x.download) = Percent(y.download) /\ Percent(x.decrypt) = Percent(y.decrypt)
StagesOf(x) == x.stages \cup {"resolved"}
Begun == {"resolving", "waiting_download", "downloading", "waiting_decrypt", "decrypting",
          "remuxing", "saving", "tagging"}
MeterValues == 0..FullMeter
Items == [status : {"queued"} \cup Begun \cup Endings,
          download : MeterValues, decrypt : MeterValues, stages : SUBSET Stages]
ClockTyped == time \in Nat /\ lastEmit \in Int /\ lastEmit <= time
StepTyped ==
    /\ step \in {"goes", "selects", "waits", "falls back"}
    /\ run \in {"on", "lost", "shutdown"} \cup Endings
MeterTyped == item \in Items /\ ClockTyped /\ StepTyped

Spaced ==
    /\ moves[1] \in Int /\ moves[2] \in Int
    /\ moves[2] - moves[1] >= EventInterval
    /\ lastEmit = -1 => moves[2] = -EventInterval
    /\ lastEmit # -1 => moves[2] <= lastEmit

ToldQueued == lastTold.status = "" /\ step = "goes" /\ ~heldBack /\ ~Resolved
ToldBegun ==
    /\ item.status \in Begun /\ lastTold.status = item.status /\ reader.status = item.status
    /\ StagesOf(reader) = StagesOf(item)
    /\ step = "goes" => lastTold.stages = item.stages /\ (heldBack \/ Alike(lastTold, item))
    /\ heldBack \/ Alike(reader, item)
    /\ step # "goes" => ~heldBack /\ Resolved
    /\ Resolved \/ (~heldBack /\ item.status = "resolving")
Told ==
    /\ run = "on" => (item.status = "queued" /\ ToldQueued) \/ ToldBegun
    /\ run \in Endings => reader = item /\ row = item
MeterInv == MeterTyped /\ Spaced /\ Told

LEMMA MeterLimits == FullMeter \in Nat /\ EventInterval \in Nat
  BY MeterAssumption

LEMMA MeterEnds == 0 \in MeterValues /\ FullMeter \in MeterValues
  BY MeterLimits DEF MeterValues

LEMMA MeterInvInit == MeterInit => MeterInv
<1> USE MeterLimits
<1> SUFFICES ASSUME MeterInit PROVE MeterInv
  OBVIOUS
<1>1. /\ item = NewItem /\ lastTold = [NewItem EXCEPT !.status = "", !.download = -2, !.decrypt = -2]
      /\ heldBack = FALSE /\ lastEmit = -1 /\ time = 0 /\ moves = <<-2 * EventInterval, -EventInterval>>
      /\ run = "on" /\ step = "goes"
  BY DEF MeterInit
<1>2. item \in Items /\ item.status = "queued" /\ item.download = 0 /\ item.decrypt = 0 /\ item.stages = {}
  BY <1>1, MeterEnds DEF NewItem, Items
<1>3. lastTold.status = ""
  BY <1>1 DEF NewItem, Items
<1>4. moves[1] = -2 * EventInterval /\ moves[2] = -EventInterval
  BY <1>1
<1>5. MeterTyped
  <2>1. ClockTyped
    BY <1>1 DEF ClockTyped
  <2> QED BY <1>1, <1>2, <2>1 DEF MeterTyped, StepTyped
<1>6. Spaced
  BY <1>1, <1>4 DEF Spaced
<1>7. Told
  BY <1>1, <1>2, <1>3 DEF Told, ToldQueued, Resolved, Endings
<1> QED BY <1>5, <1>6, <1>7 DEF MeterInv

\* What a phase makes of the item.
LEMMA ItemWith ==
    ASSUME NEW x \in Items, NEW s \in Begun, NEW d \in MeterValues, NEW e \in MeterValues, NEW t \in SUBSET Stages
    PROVE  /\ [x EXCEPT !.status = s, !.download = d] \in Items
           /\ [x EXCEPT !.status = s, !.decrypt = d] \in Items
           /\ [x EXCEPT !.status = s, !.download = d, !.decrypt = e] \in Items
           /\ [x EXCEPT !.download = d, !.decrypt = e, !.stages = t] \in Items
           /\ [x EXCEPT !.stages = t, !.download = d, !.decrypt = e] \in Items
  BY DEF Items

LEMMA ClockStays ==
    ASSUME ClockTyped, UNCHANGED time, lastEmit' = lastEmit \/ lastEmit' = time PROVE ClockTyped'
  BY DEF ClockTyped

\* An event that is no meter's leaves the distances.
LEMMA SpacedStays ==
    ASSUME ClockTyped, Spaced, UNCHANGED moves, lastEmit' = lastEmit \/ lastEmit' = time PROVE Spaced'
<1>1. moves'[1] = moves[1] /\ moves'[2] = moves[2]
  OBVIOUS
<1>2. /\ time \in Nat /\ lastEmit \in Int /\ lastEmit <= time /\ moves[2] \in Int
      /\ EventInterval \in Nat
  BY MeterLimits DEF ClockTyped, Spaced
<1>3. moves[2] <= time
  BY <1>2 DEF Spaced
<1>4. CASE lastEmit' = time
  BY <1>1, <1>2, <1>3, <1>4 DEF Spaced
<1>5. CASE lastEmit' = lastEmit
  BY <1>1, <1>5 DEF Spaced
<1> QED BY <1>4, <1>5

\* What stageSetter lets out: all of it, or meters alone that the gate allows,
\* or nothing.
LEMMA SetTells ==
    ASSUME MeterInv, run = "on", NEW new \in Items, Set(new),
           new.status \in Begun,
           "resolved" \in new.stages \/ (new.status = "resolving" /\ new.status # lastTold.status),
           step = "goes" \/ (item.status \in Begun /\ new = [item EXCEPT !.status = new.status]),
           step' = "goes", UNCHANGED <<run, time>>
    PROVE  MeterInv'
<1> USE MeterLimits
<1>ty. MeterTyped /\ Spaced /\ Told
  BY DEF MeterInv
<1>1. item' = new
  BY DEF Set
<1>2. CASE PublishItem(new) /\ (UNCHANGED moves \/ (Allows /\ moves' = <<moves[2], time>>))
  <2>1. lastTold' = new /\ lastEmit' = time /\ heldBack' = FALSE /\ row' = new /\ reader' = new
    BY <1>2 DEF PublishItem
  <2>2. MeterTyped'
    BY <1>ty, <1>1, <1>2, <2>1, ClockStays DEF MeterTyped, StepTyped
  <2>3. Spaced'
    <3>1. CASE UNCHANGED moves
      BY <1>ty, <2>1, <3>1, SpacedStays DEF MeterTyped
    <3>2. CASE Allows /\ moves' = <<moves[2], time>>
      <4>1. moves'[1] = moves[2] /\ moves'[2] = time /\ moves[2] \in Int
        BY <1>ty, <3>2 DEF Spaced
      <4>2. time \in Nat /\ lastEmit \in Int /\ lastEmit <= time
        BY <1>ty DEF MeterTyped, ClockTyped
      <4>3. time - moves[2] >= EventInterval
        <5>1. CASE lastEmit = -1
          BY <1>ty, <4>2, <5>1 DEF Spaced
        <5>2. CASE lastEmit # -1
          BY <1>ty, <3>2, <4>1, <4>2, <5>2 DEF Spaced, Allows
        <5> QED BY <5>1, <5>2
      <4> QED BY <2>1, <4>1, <4>2, <4>3 DEF Spaced
    <3> QED BY <1>2, <3>1, <3>2
  <2>4. ToldBegun'
    BY <1>1, <2>1 DEF ToldBegun, Alike, StagesOf, Resolved
  <2> QED BY <2>2, <2>3, <2>4 DEF MeterInv, Told, Endings
<1>3. CASE /\ new.status = lastTold.status /\ ~StagesChanged(new)
           /\ heldBack' = (heldBack \/ MetersChanged(new))
           /\ UNCHANGED <<lastTold, lastEmit, row, reader, moves>>
  <2>1. new.status = lastTold.status /\ new.stages = lastTold.stages
    BY <1>3 DEF StagesChanged
  <2>2. item.status # "queued" /\ ToldBegun
    <3>1. lastTold.status # ""
      BY <2>1 DEF Begun
    <3>2. ToldBegun
      BY <1>ty, <3>1 DEF Told, ToldQueued
    <3> QED BY <3>2 DEF ToldBegun, Begun
  <2>3. "resolved" \in new.stages
    BY <2>1
  <2>4. heldBack' \/ (~heldBack /\ Alike(lastTold, new))
    BY <1>3 DEF MetersChanged, Alike
  <2>5. StagesOf(reader) = StagesOf(new)
    BY <2>1, <2>2 DEF ToldBegun, StagesOf, Items
  <2>6. heldBack' \/ Alike(reader, new)
    BY <2>2, <2>4 DEF ToldBegun, Alike, Items
  <2>7. ToldBegun'
    BY <1>1, <1>3, <2>1, <2>2, <2>3, <2>4, <2>5, <2>6 DEF ToldBegun, Resolved, Alike, StagesOf
  <2>8. MeterTyped' /\ Spaced'
    BY <1>ty, <1>1, <1>3, SpacedStays, ClockStays DEF MeterTyped, StepTyped
  <2>9. run' \notin Endings
    BY DEF Endings
  <2> QED BY <2>7, <2>8, <2>9 DEF MeterInv, Told
<1>4. CASE new.status # lastTold.status \/ StagesChanged(new)
  <2>1. PublishItem(new) /\ UNCHANGED moves
    BY <1>4 DEF Set
  <2> QED BY <2>1, <1>2
<1>5. CASE MetersChanged(new) /\ Allows
  <2>1. PublishItem(new) /\ (UNCHANGED moves \/ moves' = <<moves[2], time>>)
    BY <1>5 DEF Set
  <2> QED BY <2>1, <1>2, <1>5
<1>6. CASE new.status = lastTold.status /\ ~StagesChanged(new) /\ ~(MetersChanged(new) /\ Allows)
  BY <1>3, <1>6, Zenon DEF Set
<1> QED BY <1>4, <1>5, <1>6

\* The phases of a track: each changes a status, a stage or a meter.
LEMMA PhasesKeep ==
    ASSUME MeterInv,
           \/ Selects \/ WaitsForSlot \/ StartsDownload \/ DownloadProgress
           \/ WaitsForKey \/ StartsDecrypt \/ DecryptProgress \/ Remuxes \/ Finalizes \/ DecryptsAgain
    PROVE  MeterInv'
<1> USE MeterLimits
<1>ty. MeterTyped /\ Told
  BY DEF MeterInv
<1>1. run = "on" /\ item.status # "queued" => ToldBegun
  BY <1>ty DEF Told
<1>2. ASSUME NEW s \in Begun, run = "on", step \in {"selects", "waits"}, step' = "goes",
             Set([item EXCEPT !.status = s]), UNCHANGED <<time, run>>
      PROVE  MeterInv'
  <2>1. PICK new \in Items : new = [item EXCEPT !.status = s]
    BY <1>ty DEF MeterTyped, Items, Begun
  <2>2. new.status = s /\ new.stages = item.stages /\ new.download = item.download /\ new.decrypt = item.decrypt
    BY <1>ty, <2>1 DEF MeterTyped, Items
  <2>3. ToldBegun /\ item.status \in Begun /\ "resolved" \in item.stages
    BY <1>ty, <1>2 DEF Told, ToldQueued, ToldBegun, Resolved
  <2>4. new = [item EXCEPT !.status = new.status] /\ Set(new)
    BY <1>2, <2>1, <2>2
  <2> QED BY <1>2, <1>ty, <2>2, <2>3, <2>4, SetTells DEF MeterTyped
<1>3. ASSUME NEW new \in Items, run = "on", step = "goes", item.status # "queued", item.status # "resolving" \/ Resolved,
             Sets(new), new.status \in Begun, item.stages \subseteq new.stages
      PROVE  MeterInv'
  <2>1. "resolved" \in new.stages
    BY <1>1, <1>3 DEF ToldBegun, Resolved
  <2> QED BY <1>3, <2>1, SetTells DEF Sets
<1>it. item \in Items
  BY <1>ty DEF MeterTyped
<1>4. ASSUME NEW s \in Begun, (AtStatus("resolving") /\ Resolved) \/ item.status \in Begun \ {"resolving"},
             run = "on", step = "goes", Sets([item EXCEPT !.status = s])
      PROVE  MeterInv'
  <2>1. PICK new \in Items : new = [item EXCEPT !.status = s]
    BY <1>it DEF Items, Begun
  <2>2. new.status = s /\ new.stages = item.stages /\ new.download = item.download /\ new.decrypt = item.decrypt
    BY <1>it, <2>1 DEF Items
  <2> QED BY <1>3, <1>4, <1>it, <2>1, <2>2 DEF Begun, AtStatus
<1>5. ASSUME NEW t \in Stages, item.status \in Begun \ {"resolving"},
             run = "on", step = "goes", Sets([item EXCEPT !.stages = @ \union {t}])
      PROVE  MeterInv'
  <2>1. PICK new \in Items : new = [item EXCEPT !.stages = @ \union {t}]
    BY <1>it DEF Items
  <2>2. new.status = item.status /\ new.stages = item.stages \union {t}
        /\ new.download = item.download /\ new.decrypt = item.decrypt
    BY <1>it, <2>1 DEF Items
  <2> QED BY <1>3, <1>5, <1>it, <2>1, <2>2 DEF Begun
<1>6. CASE Selects \/ DecryptsAgain
  BY <1>2, <1>6 DEF Selects, DecryptsAgain, Begun
<1>7. CASE WaitsForSlot \/ WaitsForKey
  BY <1>4, <1>7 DEF WaitsForSlot, WaitsForKey, AtStatus, Begun
<1>8. CASE StartsDownload
  <2>1. PICK new \in Items : new = [item EXCEPT !.status = "downloading", !.download = 0]
    BY <1>it, ItemWith, MeterEnds DEF Begun
  <2>2. new.status = "downloading" /\ new.stages = item.stages /\ new.download = 0 /\ new.decrypt = item.decrypt
    BY <1>it, <2>1 DEF Items
  <2>3. Sets(new) /\ run = "on" /\ step = "goes" /\ item.status = "waiting_download"
    BY <1>8, <2>1 DEF StartsDownload, AtStatus
  <2> QED BY <1>3, <1>it, <2>2, <2>3 DEF Begun
<1>9. CASE StartsDecrypt
  <2>1. PICK new \in Items : new = [item EXCEPT !.status = "decrypting", !.download = FullMeter, !.decrypt = 0]
    BY <1>it, ItemWith, MeterEnds DEF Begun
  <2>2. new.status = "decrypting" /\ new.stages = item.stages /\ new.download = FullMeter /\ new.decrypt = 0
    BY <1>it, <2>1 DEF Items
  <2>3. Sets(new) /\ run = "on" /\ step = "goes" /\ item.status = "waiting_decrypt"
    BY <1>9, <2>1 DEF StartsDecrypt, AtStatus
  <2> QED BY <1>3, <1>it, <2>2, <2>3 DEF Begun
<1>10. CASE Remuxes
  <2>1. PICK new \in Items : new = [item EXCEPT !.status = "remuxing", !.decrypt = FullMeter]
    BY <1>it, ItemWith, MeterEnds DEF Begun
  <2>2. new.status = "remuxing" /\ new.stages = item.stages /\ new.download = item.download /\ new.decrypt = FullMeter
    BY <1>it, <2>1 DEF Items
  <2>3. Sets(new) /\ run = "on" /\ step = "goes" /\ item.status = "decrypting"
    BY <1>10, <2>1 DEF Remuxes, AtStatus
  <2> QED BY <1>3, <1>it, <2>2, <2>3 DEF Begun
<1>11. CASE DownloadProgress
  <2>1. PICK m \in item.download + 1..FullMeter : Sets([item EXCEPT !.download = m])
    BY <1>11 DEF DownloadProgress
  <2>2. m \in MeterValues
    BY <1>it, <2>1 DEF Items, MeterValues
  <2>3. PICK new \in Items : new = [item EXCEPT !.download = m]
    BY <1>it, <2>2 DEF Items
  <2>4. new.status = item.status /\ new.stages = item.stages /\ new.download = m /\ new.decrypt = item.decrypt
    BY <1>it, <2>3 DEF Items
  <2>5. Sets(new) /\ run = "on" /\ step = "goes" /\ item.status = "downloading"
    BY <1>11, <2>1, <2>3 DEF DownloadProgress, AtStatus
  <2> QED BY <1>3, <1>it, <2>2, <2>4, <2>5 DEF Begun
<1>12. CASE DecryptProgress
  <2>1. PICK m \in item.decrypt + 1..FullMeter : Sets([item EXCEPT !.decrypt = m])
    BY <1>12 DEF DecryptProgress
  <2>2. m \in MeterValues
    BY <1>it, <2>1 DEF Items, MeterValues
  <2>3. PICK new \in Items : new = [item EXCEPT !.decrypt = m]
    BY <1>it, <2>2 DEF Items
  <2>4. new.status = item.status /\ new.stages = item.stages /\ new.decrypt = m /\ new.download = item.download
    BY <1>it, <2>3 DEF Items
  <2>5. Sets(new) /\ run = "on" /\ step = "goes" /\ item.status = "decrypting"
    BY <1>12, <2>1, <2>3 DEF DecryptProgress, AtStatus
  <2> QED BY <1>3, <1>it, <2>2, <2>4, <2>5 DEF Begun
<1>13. CASE Finalizes
  BY <1>4, <1>5, <1>13 DEF Finalizes, Marks, AtStatus, Begun, Stages
<1> QED BY <1>6, <1>7, <1>8, <1>9, <1>10, <1>11, <1>12, <1>13

\* The first status, the flag that has no event, and the failures.
LEMMA TurnsKeep ==
    ASSUME MeterInv, Resolves \/ RetryEvent \/ CodecFailed \/ CodecFallback PROVE MeterInv'
<1> USE MeterLimits
<1>ty. MeterTyped /\ Spaced /\ Told
  BY DEF MeterInv
<1>it. item \in Items
  BY <1>ty DEF MeterTyped
<1>1. CASE AtStatus("queued") /\ Sets([item EXCEPT !.status = "resolving"])
  <2>1. PICK new \in Items : new = [item EXCEPT !.status = "resolving"]
    BY <1>it DEF Items, Begun
  <2>2. new.status = "resolving" /\ new.download = item.download /\ new.decrypt = item.decrypt
    BY <1>it, <2>1 DEF Items
  <2>3. run = "on" /\ step = "goes" /\ lastTold.status = ""
    BY <1>1, <1>ty DEF AtStatus, Told, ToldQueued, ToldBegun, Begun
  <2> QED BY <1>1, <1>it, <2>1, <2>2, <2>3, SetTells DEF Sets, Begun
<1>2. CASE /\ AtStatus("resolving") /\ ~Resolved
           /\ item' = [item EXCEPT !.stages = @ \union {"resolved"}] /\ row' = item'
           /\ step' = "selects"
           /\ UNCHANGED <<lastTold, heldBack, lastEmit, reader, moves, time, codec, fetches, run>>
  <2>1. PICK new \in Items : new = [item EXCEPT !.stages = @ \union {"resolved"}]
    BY <1>it DEF Items, Stages
  <2>2. /\ new.status = "resolving" /\ new.stages = item.stages \union {"resolved"}
        /\ new.download = item.download /\ new.decrypt = item.decrypt
    BY <1>it, <1>2, <2>1 DEF Items, AtStatus
  <2>3. ToldBegun /\ ~heldBack /\ item' = new
    BY <1>2, <1>ty, <2>1 DEF AtStatus, Told, ToldBegun
  <2>4. ToldBegun'
    BY <1>2, <2>2, <2>3 DEF ToldBegun, Alike, StagesOf, Resolved, AtStatus
  <2>5. MeterTyped' /\ Spaced'
    BY <1>2, <1>it, <1>ty, <2>2, <2>3, SpacedStays, ClockStays DEF MeterTyped, StepTyped
  <2> QED BY <1>2, <2>4, <2>5 DEF MeterInv, Told, AtStatus, Endings
<1>3. ASSUME run = "on", item.status # "queued", EventGoes(item), step' \in {"selects", "waits", "falls back"}, Resolved,
             UNCHANGED <<item, moves, time, run>>
      PROVE  MeterInv'
  <2>1. ToldBegun
    BY <1>3, <1>ty DEF Told
  <2>2. CASE heldBack
    <3>1. lastTold' = item /\ lastEmit' = time /\ heldBack' = FALSE /\ row' = item /\ reader' = item
      BY <1>3, <2>2 DEF EventGoes, PublishItem
    <3>2. ToldBegun'
      BY <1>3, <2>1, <3>1 DEF ToldBegun, Alike, StagesOf, Resolved
    <3>3. MeterTyped' /\ Spaced'
      BY <1>3, <1>ty, <3>1, SpacedStays, ClockStays DEF MeterTyped, StepTyped
    <3> QED BY <1>3, <3>2, <3>3 DEF MeterInv, Told, Endings
  <2>3. CASE ~heldBack
    <3>1. row' = item /\ reader' = item /\ UNCHANGED <<lastTold, lastEmit, heldBack>>
      BY <1>3, <2>3 DEF EventGoes
    <3>2. ToldBegun'
      BY <1>3, <2>1, <2>3, <3>1 DEF ToldBegun, Alike, StagesOf, Resolved
    <3>3. MeterTyped' /\ Spaced'
      BY <1>3, <1>ty, <3>1, SpacedStays, ClockStays DEF MeterTyped, StepTyped
    <3> QED BY <1>3, <3>2, <3>3 DEF MeterInv, Told, Endings
  <2> QED BY <2>2, <2>3
<1>4. CASE RetryEvent
  <2>1. /\ run = "on" /\ step' \in {"selects", "waits"} /\ EventGoes(item) /\ UNCHANGED <<item, moves, time, run>>
        /\ item.status \in Begun \ {"resolving"}
    BY <1>4 DEF RetryEvent, Again, AtStatus, Begun
  <2>2. ToldBegun
    BY <1>ty, <2>1 DEF Told, Begun
  <2>3. Resolved
    BY <2>1, <2>2 DEF ToldBegun
  <2> QED BY <1>3, <2>1, <2>3 DEF Begun
<1>5. CASE CodecFailed
  <2>1. /\ run = "on" /\ Resolved /\ step' = "falls back" /\ EventGoes(item) /\ UNCHANGED <<item, moves, time, run>>
    BY <1>5 DEF CodecFailed
  <2>2. item.status # "queued"
    BY <1>ty, <2>1 DEF Told, ToldQueued, ToldBegun, Begun
  <2> QED BY <1>3, <2>1, <2>2
<1>6. CASE CodecFallback
  <2>1. PICK new \in Items : new = [item EXCEPT !.download = 0, !.decrypt = 0, !.stages = {"resolved"}]
    <3>1. {"resolved"} \in SUBSET Stages
      BY DEF Stages
    <3>2. PICK t \in SUBSET Stages : t = {"resolved"}
      BY <3>1
    <3> QED BY <1>it, <3>2, MeterEnds DEF Items
  <2>2. new.status = item.status /\ new.stages = {"resolved"} /\ new.download = 0 /\ new.decrypt = 0
    BY <1>it, <2>1 DEF Items
  <2>3. /\ run = "on" /\ step = "falls back" /\ step' = "selects" /\ item' = new /\ reader' = new
        /\ UNCHANGED <<lastTold, heldBack, lastEmit, moves, time, run>>
    BY <1>6, <2>1 DEF CodecFallback
  <2>4. ToldBegun
    BY <1>ty, <2>3 DEF Told, ToldQueued
  <2>5. ToldBegun'
    BY <2>2, <2>3, <2>4 DEF ToldBegun, Alike, StagesOf, Resolved
  <2>6. MeterTyped' /\ Spaced'
    BY <1>ty, <2>2, <2>3, SpacedStays, ClockStays DEF MeterTyped, StepTyped
  <2> QED BY <2>3, <2>5, <2>6 DEF MeterInv, Told, Endings
<1> QED BY <1>1, <1>2, <1>4, <1>5, <1>6 DEF Resolves

\* An end: the last writes went through, or the run is lost.
LEMMA EndsKeeps ==
    ASSUME MeterInv, run = "on", NEW new \in Items, new.status \in Endings,
           NEW oldRow, NEW oldReader, EndsItem(new, oldRow, oldReader),
           UNCHANGED <<lastTold, lastEmit>> \/ (lastTold' = item /\ lastEmit' = time)
    PROVE  MeterInv'
<1> USE MeterLimits
<1>ty. MeterTyped /\ Spaced
  BY DEF MeterInv
<1>1. /\ item' = new /\ heldBack' = FALSE /\ UNCHANGED <<time, moves, step>>
      /\ run' = IF row' = new /\ reader' = new THEN new.status ELSE "lost"
  BY DEF EndsItem
<1>2. MeterTyped'
  BY <1>ty, <1>1, ClockStays DEF MeterTyped, StepTyped
<1>3. Spaced'
  BY <1>ty, <1>1, SpacedStays DEF MeterTyped
<1>4. run' # "on" /\ (run' \in Endings => reader' = item' /\ row' = item')
  BY <1>1 DEF Endings
<1> QED BY <1>2, <1>3, <1>4 DEF MeterInv, Told

LEMMA EndingsKeep ==
    ASSUME MeterInv, ItemCompletes \/ Skips \/ ItemFails \/ IsCancelled \/ ShutsDown \/ MeterTime
    PROVE  MeterInv'
<1> USE MeterLimits
<1>ty. MeterTyped /\ Spaced /\ Told
  BY DEF MeterInv
<1>it. item \in Items
  BY <1>ty DEF MeterTyped
<1>e. ASSUME NEW s \in Endings
      PROVE  /\ Ended(s) \in Items /\ Ended(s).status = s /\ Ended(s).download = item.download
             /\ Ended(s).decrypt = item.decrypt
  BY <1>it DEF Ended, Items
<1>1. CASE ItemCompletes
  <2>1. PICK e \in Items : e = Ended("completed") /\ e.status = "completed"
    BY <1>e DEF Endings
  <2>2. PICK new \in Items : new = [e EXCEPT !.stages = @ \union {"saved"}, !.download = FullMeter, !.decrypt = FullMeter]
    <3>1. e.stages \union {"saved"} \in SUBSET Stages
      BY <2>1 DEF Items, Stages
    <3>2. PICK t \in SUBSET Stages : t = e.stages \union {"saved"}
      BY <3>1
    <3>3. [e EXCEPT !.stages = t, !.download = FullMeter, !.decrypt = FullMeter] \in Items
      BY <2>1, <3>2, MeterEnds DEF Items
    <3>4. [e EXCEPT !.stages = @ \union {"saved"}, !.download = FullMeter, !.decrypt = FullMeter]
            = [e EXCEPT !.stages = t, !.download = FullMeter, !.decrypt = FullMeter]
      BY <3>2
    <3> QED BY <3>3, <3>4
  <2>3. new.status = "completed" /\ new.download = FullMeter /\ new.decrypt = FullMeter
    BY <2>1, <2>2 DEF Items
  <2>4. run = "on" /\ UNCHANGED <<lastTold, lastEmit>> /\ EndsItem(new, row, reader)
    BY <1>1, <2>1, <2>2 DEF ItemCompletes, AtStatus
  <2> QED BY <2>3, <2>4, EndsKeeps DEF Endings
<1>2. CASE Skips
  <2>1. run = "on" /\ UNCHANGED <<lastTold, lastEmit>> /\ EndsItem(Ended("skipped"), row, reader)
    BY <1>2 DEF Skips, AtStatus
  <2> QED BY <1>it, <1>e, <2>1, EndsKeeps DEF Endings
<1>3. CASE ItemFails
  <2>1. CASE heldBack
    <3>1. run = "on" /\ lastTold' = item /\ lastEmit' = time /\ EndsItem(Ended("failed"), item, item)
      BY <1>3, <2>1 DEF ItemFails
    <3> QED BY <1>it, <1>e, <3>1, EndsKeeps DEF Endings
  <2>2. CASE ~heldBack
    <3>1. run = "on" /\ UNCHANGED <<lastTold, lastEmit>> /\ EndsItem(Ended("failed"), row, reader)
      BY <1>3, <2>2 DEF ItemFails
    <3> QED BY <1>it, <1>e, <3>1, EndsKeeps DEF Endings
  <2> QED BY <2>1, <2>2
<1>4. CASE IsCancelled
  <2>1. run = "on" /\ UNCHANGED <<lastTold, lastEmit>> /\ EndsItem(Ended("cancelled"), row, reader)
    BY <1>4 DEF IsCancelled
  <2> QED BY <1>it, <1>e, <2>1, EndsKeeps DEF Endings
<1>5. CASE ShutsDown
  BY <1>5, <1>ty DEF ShutsDown, MeterInv, MeterTyped, ClockTyped, StepTyped, Spaced, Told, Endings
<1>6. CASE MeterTime
  <2>1. run = "on" /\ time' = time + 1
        /\ UNCHANGED <<item, lastTold, heldBack, lastEmit, row, reader, moves, codec, fetches, run, step>>
    BY <1>6 DEF MeterTime
  <2>2. MeterTyped' /\ Spaced'
    <3>1. ClockTyped'
      BY <2>1, <1>ty DEF MeterTyped, ClockTyped
    <3>2. Spaced'
      BY <2>1, <1>ty DEF Spaced
    <3> QED BY <2>1, <1>ty, <3>1, <3>2 DEF MeterTyped, StepTyped
  <2>3. Told'
    BY <2>1, <1>ty DEF Told, ToldQueued, ToldBegun, Resolved, Alike, StagesOf
  <2> QED BY <2>2, <2>3 DEF MeterInv
<1> QED BY <1>1, <1>2, <1>3, <1>4, <1>5, <1>6

LEMMA MeterInvStep == MeterInv /\ [MeterNext]_meterVars => MeterInv'
<1> SUFFICES ASSUME MeterInv, [MeterNext]_meterVars PROVE MeterInv'
  OBVIOUS
<1>1. CASE UNCHANGED meterVars
  BY <1>1 DEF MeterInv, MeterTyped, ClockTyped, StepTyped, Spaced, Told, ToldQueued, ToldBegun, Resolved, Alike, StagesOf, meterVars
<1>2. CASE MeterNext
  BY <1>2, PhasesKeep, TurnsKeep, EndingsKeep DEF MeterNext
<1> QED BY <1>1, <1>2

LEMMA MeterInvHolds == MeterInv => MeterSettles
  BY DEF MeterInv, Told, ToldQueued, ToldBegun, Alike, StagesOf, Spaced, MeterSettles

\* The spacing of meter events loses nothing: a running track's reader is a
\* held meter behind at most, an ended one's has the item as it ended, and
\* meter events keep their distance (media/progress_gate.go).
THEOREM MetersSettle == MeterSpec => []MeterSettles
<1>1. MeterInit => MeterInv
  BY MeterInvInit
<1>2. MeterInv /\ [MeterNext]_meterVars => MeterInv'
  BY MeterInvStep
<1>3. MeterInv => MeterSettles
  BY MeterInvHolds
<1> QED BY <1>1, <1>2, <1>3, PTL DEF MeterSpec

-----------------------------------------------------------------------------
(* The transfer of a track *)

\* Bytes that are an object's first ones, and metadata that is an object's.
Begins(b, o) == Len(b) <= SizeOf[o] /\ \A i \in 1 .. Len(b) : b[i] = o
Describes(m, o) ==
    /\ m.src = SourceOf[o] /\ m.etag = ETagOf[o] /\ m.mod = ModifiedOf[o]
    /\ m.total \in {0, SizeOf[o]}

\* The bytes the transfer under way extends, and the objects they may be of.
Sink == IF mode = "file" THEN bytes ELSE buf
Here == {o \in Objects : SourceOf[o] = src}

TransferStages == {"idle", "load", "clean", "cleanMeta", "request", "open", "sidecar",
           "body", "close", "mark", "returned", "drop"}
RangeTyped ==
    /\ current \in [Sources -> Objects] /\ \A s \in Sources : SourceOf[current[s]] = s
    /\ bytes \in Seq(Objects) /\ buf \in Seq(Objects) /\ synced \in 0 .. Len(bytes)
    /\ sidecar \in Metas /\ meta \in Metas
    /\ stage \in TransferStages /\ mode \in {"file", "memory"} /\ src \in Sources
    /\ held \in Nat /\ begin \in Nat
    /\ mode = "memory" => stage \in {"idle", "request", "body", "returned"}

\* The files left on disk: whatever is there is the beginning of the object the
\* metadata names, all of it and synced when they say so.
Checkpoint ==
    bytes # NoFile /\ sidecar # NoMeta =>
        \E o \in Objects :
            /\ Begins(bytes, o) /\ Describes(sidecar, o)
            /\ sidecar.complete => Len(bytes) = SizeOf[o] /\ synced = Len(bytes)

\* Before a request: what is held is the beginning of what meta describes.
Asking ==
    stage = "request" =>
        /\ held = Len(Sink)
        /\ held = 0 => meta = NoMeta
        /\ held > 0 => \E o \in Here :
             /\ Begins(Sink, o) /\ Describes(meta, o) /\ Validator(meta) # NoTag
             /\ mode = "file" /\ meta.complete => held = SizeOf[o]

\* While an answer is read: it goes on where the bytes held end, and they are of
\* its object.
Reading ==
    stage \in {"open", "sidecar", "body"} =>
        /\ answer.obj \in Here
        /\ meta = Meta(src, ETagOf[answer.obj], ModifiedOf[answer.obj], answer.total, FALSE)
        /\ answer.total \in {0, SizeOf[answer.obj]}
        /\ answer.start = begin /\ answer.end \in Int /\ answer.end < SizeOf[answer.obj]
        /\ answer.total = 0 => answer.end = SizeOf[answer.obj] - 1
        /\ begin <= held /\ held <= answer.end + 1
        /\ stage = "open" => held = begin
        /\ stage # "open" \/ held > 0 => held = Len(Sink) /\ Begins(Sink, answer.obj)
        /\ stage = "body" /\ mode = "file" => sidecar = meta

\* At the end all of one object is there; and what is removed is gone.
AllThere ==
    /\ stage \in {"close", "mark", "returned"} =>
         \E o \in Here :
            /\ Begins(Sink, o) /\ Len(Sink) = SizeOf[o]
            /\ stage # "returned" => Describes(meta, o) /\ held = Len(Sink)
    /\ stage = "mark" => synced = Len(bytes)
    /\ stage \in {"cleanMeta", "drop"} => bytes = NoFile

RangeInv == RangeTyped /\ Checkpoint /\ Asking /\ Reading /\ AllThere

LEMMA TagsAreTags ==
    ASSUME NEW o \in Objects
    PROVE  /\ ETagOf[o] \in Tags /\ ModifiedOf[o] \in Tags /\ NoTag \in Tags
           /\ SourceOf[o] \in Sources /\ SizeOf[o] \in Nat \ {0}
BY ValidatorsAssumption DEF Tags, Sources

LEMMA NoMetaIsMeta == NoMeta \in Metas
BY DEF NoMeta, Meta, Metas, Tags

\* An answer that If-Range lets through and whose validators are not seen to
\* differ is of the object the bytes held are of.
LEMMA SameObject ==
    ASSUME NEW o \in Objects, NEW p \in Objects, SourceOf[o] = SourceOf[p],
           Describes(meta, o), Validator(meta) # NoTag, RangeHolds(p), ~Changed(p)
    PROVE  o = p
<1> SUFFICES ASSUME o # p PROVE FALSE
  OBVIOUS
<1>1. /\ meta.etag = ETagOf[o] /\ meta.mod = ModifiedOf[o]
  BY DEF Describes
<1>2. /\ ETagOf[o] = NoTag \/ ETagOf[o] # ETagOf[p]
      /\ ModifiedOf[o] = NoTag \/ ModifiedOf[o] # ModifiedOf[p]
      /\ ETagOf[o] = ModifiedOf[p] => ETagOf[o] = NoTag
      /\ ETagOf[p] = ModifiedOf[o] => ETagOf[p] = NoTag
  BY ValidatorsAssumption
<1>3. Validator(meta) \in {ETagOf[o], ModifiedOf[o]}
  BY <1>1 DEF Validator
<1>4. Validator(meta) \notin {NoTag, ETagOf[p], ModifiedOf[p]}
  BY <1>2, <1>3
<1>5. Lax /\ ETagOf[p] # NoTag
  BY <1>4 DEF RangeHolds
<1>6. {ETagOf[o], ModifiedOf[o]} # {NoTag}
  BY <1>3
<1>7. \/ ETagOf[o] # NoTag /\ ETagOf[p] # NoTag
      \/ ModifiedOf[o] # NoTag /\ ModifiedOf[p] # NoTag
  BY <1>5, <1>6, LaxAssumption
<1>8. Changed(p)
  BY <1>1, <1>2, <1>7 DEF Changed
<1> QED
  BY <1>8

\* What a server may answer.
LEMMA AnswerIs ==
    ASSUME NEW o \in Objects, NEW n \in Nat, NEW r \in Answers(o, n)
    PROVE  /\ r.code \in {200, 206, 416} /\ r.obj = o /\ r.start \in Nat
           /\ r.end \in Int /\ r.end < SizeOf[o] /\ r.total \in {0, SizeOf[o]}
           /\ r.total = 0 => r.end = SizeOf[o] - 1
           /\ r.code = 200 => r.start = 0 /\ r.end = SizeOf[o] - 1
           /\ r.code = 206 => r.start = n /\ n <= r.end /\ r.total = SizeOf[o]
           /\ r.code = 416 => r.total = SizeOf[o]
           /\ r.code # 200 /\ n > 0 => RangeHolds(o)
           /\ r.code = 416 => n > 0
<1>1. SizeOf[o] \in Nat /\ SizeOf[o] > 0
  BY ValidatorsAssumption
<1>2. CASE r \in Full(o)
  BY <1>1, <1>2 DEF Full
<1>3. CASE n = 0 /\ r \in Part(o, 0)
  BY <1>1, <1>3 DEF Part
<1>4. CASE n > 0 /\ RangeHolds(o) /\ n < SizeOf[o] /\ r \in Part(o, n)
  BY <1>1, <1>4 DEF Part
<1>5. CASE n > 0 /\ RangeHolds(o) /\ r \in Unsatisfied(o)
  BY <1>1, <1>5 DEF Unsatisfied
<1> QED
  BY <1>2, <1>3, <1>4, <1>5 DEF Answers

LEMMA RangeInit == TransferInit => RangeInv
<1> SUFFICES ASSUME TransferInit PROVE RangeInv
  OBVIOUS
<1>1. bytes = <<>> /\ synced = 0 /\ sidecar = NoMeta /\ stage = "idle" /\ buf = <<>>
      /\ held = 0 /\ meta = NoMeta /\ begin = 0 /\ mode \in Modes /\ src \in Sources
  BY DEF TransferInit, NoFile
<1>2. mode \in {"file", "memory"}
  BY <1>1, TransferBoundsAssumption
<1>3. RangeTyped
  BY <1>1, <1>2, NoMetaIsMeta DEF RangeTyped, TransferStages, TransferInit
<1> QED
  BY <1>1, <1>3 DEF RangeInv, Checkpoint, Asking, Reading, AllThere, NoFile

LEMMA ChangeKeeps ==
    ASSUME RangeInv, NEW o \in Objects, ObjectChanges(o)
    PROVE  RangeInv'
<1>1. /\ current' = [current EXCEPT ![SourceOf[o]] = o]
      /\ UNCHANGED <<bytes, synced, sidecar, stage, mode, src, buf, held, meta, answer, begin>>
  BY DEF ObjectChanges, checkpoint
<1>2. RangeTyped'
  BY <1>1, TagsAreTags DEF RangeInv, RangeTyped
<1>3. Checkpoint'
  BY <1>1 DEF RangeInv, Checkpoint
<1>4. Asking'
  BY <1>1 DEF RangeInv, Asking, Sink, Here, Validator
<1>5. Reading'
  BY <1>1 DEF RangeInv, Reading, Sink, Here
<1>6. AllThere'
  BY <1>1 DEF RangeInv, AllThere, Sink, Here
<1> QED
  BY <1>2, <1>3, <1>4, <1>5, <1>6 DEF RangeInv

LEMMA CallKeeps ==
    ASSUME RangeInv, NEW m \in Modes, NEW s \in Sources, Call(m, s)
    PROVE  RangeInv'
<1>1. /\ mode' = m /\ src' = s /\ buf' = <<>> /\ held' = 0 /\ meta' = NoMeta /\ begin' = 0
      /\ m = "file" => stage' = "load"
      /\ m # "file" => stage' = "request"
      /\ UNCHANGED <<current, bytes, synced, sidecar>>
  BY DEF Call, checkpoint
<1>2. m \in {"file", "memory"}
  BY TransferBoundsAssumption
<1>3. RangeTyped'
  BY <1>1, <1>2, NoMetaIsMeta DEF RangeInv, RangeTyped, TransferStages
<1>4. Checkpoint'
  BY <1>1 DEF RangeInv, Checkpoint
<1>5. Asking'
  BY <1>1, <1>2 DEF Asking, Sink
<1>6. Reading' /\ AllThere'
  BY <1>1, <1>2 DEF Reading, AllThere
<1> QED
  BY <1>3, <1>4, <1>5, <1>6 DEF RangeInv

LEMMA LoadKeeps ==
    ASSUME RangeInv, Load
    PROVE  RangeInv'
<1>1. /\ stage = "load" /\ mode = "file"
      /\ UNCHANGED <<current, bytes, synced, sidecar, mode, src, buf, answer, begin>>
  BY DEF Load, checkpoint, RangeInv, RangeTyped
<1>2. Checkpoint'
  BY <1>1 DEF RangeInv, Checkpoint
<1>3. CASE Usable
  <2>1. stage' = "request" /\ held' = Len(bytes) /\ meta' = sidecar
    BY <1>3 DEF Load
  <2>2. RangeTyped'
    BY <1>1, <2>1 DEF RangeInv, RangeTyped, TransferStages
  <2>3. bytes # NoFile /\ sidecar # NoMeta /\ sidecar.src = src /\ Validator(sidecar) # NoTag
    BY <1>3 DEF Usable
  <2>4. PICK o \in Objects :
           /\ Begins(bytes, o) /\ Describes(sidecar, o)
           /\ sidecar.complete => Len(bytes) = SizeOf[o]
    BY <2>3 DEF RangeInv, Checkpoint
  <2>5. SourceOf[o] = src
    BY <2>3, <2>4 DEF Describes
  <2>6. held' # 0
    BY <2>1, <2>3 DEF NoFile, RangeInv, RangeTyped
  <2>7. Sink' = bytes
    BY <1>1 DEF Sink
  <2>8. Validator(meta)' # NoTag
    BY <2>1, <2>3 DEF Validator
  <2>9. o \in Here'
    BY <1>1, <2>5 DEF Here
  <2>10. Begins(Sink, o)' /\ Describes(meta, o)' /\ (meta.complete => held = SizeOf[o])'
    BY <2>1, <2>4, <2>7 DEF Begins, Describes
  <2>11. Asking'
    BY <2>1, <2>6, <2>7, <2>8, <2>9, <2>10 DEF Asking
  <2> QED
    BY <1>2, <2>1, <2>2, <2>11 DEF RangeInv, Reading, AllThere
<1>4. CASE ~Usable
  <2>1. stage' = "clean" /\ UNCHANGED <<held, meta>>
    BY <1>4 DEF Load
  <2>2. RangeTyped'
    BY <1>1, <2>1 DEF RangeInv, RangeTyped, TransferStages
  <2> QED
    BY <1>2, <2>1, <2>2 DEF RangeInv, Asking, Reading, AllThere
<1> QED
  BY <1>3, <1>4

LEMMA RemovesKeep ==
    ASSUME RangeInv, RemoveFile \/ RemoveSidecar \/ Consume \/ ConsumeSidecar
    PROVE  RangeInv'
<1>1. CASE RemoveFile \/ Consume
  <2>1. /\ stage' \in {"cleanMeta", "drop"} /\ bytes' = <<>> /\ synced' = 0
        /\ mode = "file"
        /\ UNCHANGED <<current, sidecar, mode, src, buf, held, meta, answer, begin>>
    BY <1>1 DEF RemoveFile, Consume, NoFile, RangeInv, RangeTyped
  <2>2. RangeTyped'
    BY <2>1 DEF RangeInv, RangeTyped, TransferStages
  <2> QED
    BY <2>1, <2>2 DEF RangeInv, Checkpoint, Asking, Reading, AllThere, NoFile
<1>2. CASE RemoveSidecar
  <2>1. /\ stage' = "request" /\ sidecar' = NoMeta /\ held' = 0 /\ meta' = NoMeta
        /\ mode = "file" /\ bytes = <<>>
        /\ UNCHANGED <<current, bytes, synced, mode, src, buf, answer, begin>>
    BY <1>2 DEF RemoveSidecar, NoFile, RangeInv, RangeTyped, AllThere
  <2>2. RangeTyped'
    BY <2>1, NoMetaIsMeta DEF RangeInv, RangeTyped, TransferStages
  <2>3. Asking'
    BY <2>1 DEF Asking, Sink
  <2> QED
    BY <2>1, <2>2, <2>3 DEF RangeInv, Checkpoint, Reading, AllThere, NoFile
<1>3. CASE ConsumeSidecar
  <2>1. /\ stage' = "idle" /\ sidecar' = NoMeta
        /\ UNCHANGED <<current, bytes, synced, mode, src, buf, held, meta, answer, begin>>
    BY <1>3 DEF ConsumeSidecar
  <2>2. RangeTyped'
    BY <2>1, NoMetaIsMeta DEF RangeInv, RangeTyped, TransferStages
  <2> QED
    BY <2>1, <2>2 DEF RangeInv, Checkpoint, Asking, Reading, AllThere
<1> QED
  BY <1>1, <1>2, <1>3

\* An accepted answer goes on where the bytes held end, of the same object.
LEMMA AcceptKeeps ==
    ASSUME RangeInv, stage = "request", NEW r \in Answers(current[src], held),
           r.code \in {200, 206}, r.code = 206 => Extends(r), Accept(r),
           UNCHANGED <<current, bytes, synced, sidecar, mode, src>>
    PROVE  RangeInv'
<1>0. PICK o \in Objects : o = current[src]
  BY DEF RangeInv, RangeTyped
<1>1. /\ o \in Here /\ o \in Objects /\ SourceOf[o] = src /\ held \in Nat
      /\ mode \in {"file", "memory"} /\ bytes \in Seq(Objects) /\ buf \in Seq(Objects)
  BY <1>0 DEF RangeInv, RangeTyped, Here
<1>2. SizeOf[o] \in Nat /\ SizeOf[o] > 0
  BY <1>1, ValidatorsAssumption
<1>3. /\ r.obj = o /\ r.start \in Nat
      /\ r.end \in Int /\ r.end < SizeOf[o] /\ r.total \in {0, SizeOf[o]}
      /\ r.total = 0 => r.end = SizeOf[o] - 1
      /\ r.code = 200 => r.start = 0 /\ r.end = SizeOf[o] - 1
      /\ r.code = 206 => r.start = held /\ held <= r.end
      /\ r.code # 200 /\ held > 0 => RangeHolds(o)
  BY <1>0, <1>1, AnswerIs
<1>4. /\ held' = PrefixOf(r) /\ begin' = PrefixOf(r) /\ answer' = r
      /\ mode = "memory" => buf' = SubSeq(buf, 1, PrefixOf(r))
      /\ mode # "memory" => buf' = buf
      /\ stage' \in {"idle", "open", "body"}
      /\ mode = "file" => stage' = "open"
      /\ mode = "memory" => stage' \in {"idle", "body"}
  BY <1>1 DEF Accept
<1>5. r.start = PrefixOf(r) /\ PrefixOf(r) \in Nat /\ PrefixOf(r) <= r.end + 1
  BY <1>1, <1>2, <1>3 DEF PrefixOf
<1>6. held = Len(Sink) /\ (held = 0 => meta = NoMeta)
  BY DEF RangeInv, Asking
\* The bytes kept are of the answer's object.
<1>7. PrefixOf(r) > 0 =>
        /\ r.code = 206 /\ PrefixOf(r) = held /\ Begins(Sink, o) /\ Describes(meta, o)
  <2> SUFFICES ASSUME PrefixOf(r) > 0
      PROVE /\ r.code = 206 /\ PrefixOf(r) = held /\ Begins(Sink, o) /\ Describes(meta, o)
    OBVIOUS
  <2>1. r.code = 206 /\ PrefixOf(r) = held /\ held > 0
    BY DEF PrefixOf
  <2>2. PICK q \in Here : Begins(Sink, q) /\ Describes(meta, q) /\ Validator(meta) # NoTag
    BY <2>1 DEF RangeInv, Asking
  <2>3. RangeHolds(o) /\ ~Changed(o)
    BY <2>1, <1>3 DEF Extends
  <2>4. q = o
    BY <1>1, <2>2, <2>3, SameObject DEF Here
  <2> QED
    BY <2>1, <2>2, <2>4
<1>8. meta' = Meta(src, ETagOf[o], ModifiedOf[o], r.total, FALSE)
  <2>1. CASE r.code = 200
    <3>1. meta' = Meta(src, FirstTag(ETagOf[o], NoTag), FirstTag(ModifiedOf[o], NoTag), r.total, FALSE)
      BY <2>1, <1>3 DEF Accept, NoMeta, Meta
    <3> QED
      BY <3>1 DEF FirstTag
  <2>2. CASE r.code = 206
    <3>1. meta' = Meta(src, FirstTag(ETagOf[o], meta.etag), FirstTag(ModifiedOf[o], meta.mod), r.total, FALSE)
      BY <2>2, <1>3 DEF Accept
    <3>2. CASE held = 0
      <4>1. meta.etag = NoTag /\ meta.mod = NoTag
        BY <3>2, <1>6 DEF NoMeta, Meta
      <4> QED
        BY <3>1, <4>1 DEF FirstTag
    <3>3. CASE held > 0
      <4>1. meta.etag = ETagOf[o] /\ meta.mod = ModifiedOf[o]
        BY <2>2, <3>3, <1>7 DEF PrefixOf, Describes
      <4> QED
        BY <3>1, <4>1 DEF FirstTag
    <3>4. held = 0 \/ held > 0
      BY <1>1
    <3> QED
      BY <3>2, <3>3, <3>4
  <2> QED
    BY <2>1, <2>2
<1>9. meta' \in Metas
  <2>1. r.total \in Nat
    BY <1>2, <1>3
  <2>2. Meta(SourceOf[o], ETagOf[o], ModifiedOf[o], r.total, FALSE) \in Metas
    BY <1>1, <2>1, TagsAreTags DEF Meta, Metas
  <2> QED
    BY <2>2, <1>1, <1>8
<1>10. buf' \in Seq(Objects)
  <2>1. CASE PrefixOf(r) = 0
    BY <2>1, <1>1, <1>4
  <2>2. CASE PrefixOf(r) > 0 /\ mode = "memory"
    <3>1. PrefixOf(r) = Len(buf)
      BY <2>2, <1>6, <1>7 DEF Sink
    <3> QED
      BY <2>2, <3>1, <1>1, <1>4
  <2> QED
    BY <2>1, <2>2, <1>1, <1>4, <1>5
<1>11. RangeTyped'
  BY <1>1, <1>4, <1>5, <1>9, <1>10 DEF RangeInv, RangeTyped, TransferStages
<1>12. Checkpoint'
  BY DEF RangeInv, Checkpoint
<1>13. stage' = "body" \/ held' > 0 => held' = Len(Sink') /\ Begins(Sink, o)'
  <2>1. CASE PrefixOf(r) > 0
    <3>1. Sink' = Sink
      <4>1. CASE mode = "memory"
        <5>1. PrefixOf(r) = Len(buf)
          BY <2>1, <4>1, <1>6, <1>7 DEF Sink
        <5> QED
          BY <4>1, <5>1, <1>1, <1>4 DEF Sink
      <4> QED
        BY <4>1, <1>1 DEF Sink
    <3> QED
      BY <2>1, <3>1, <1>4, <1>6, <1>7 DEF Begins
  <2>2. CASE PrefixOf(r) = 0 /\ mode = "memory"
    <3>1. Sink' = <<>>
      BY <2>2, <1>1, <1>4 DEF Sink
    <3> QED
      BY <2>2, <3>1, <1>2, <1>4 DEF Begins
  <2> QED
    BY <2>1, <2>2, <1>1, <1>4, <1>5
<1>14. Reading'
  <2>1. o \in Here'
    BY <1>1 DEF Here
  <2>2. /\ answer'.obj = o /\ answer'.total = r.total /\ answer'.start = r.start
        /\ answer'.end = r.end /\ begin' = PrefixOf(r) /\ held' = PrefixOf(r) /\ src' = src
    BY <1>3, <1>4
  <2>3. stage' = "body" => mode' # "file"
    BY <1>1, <1>4
  <2>4. meta' = Meta(src', ETagOf[answer'.obj], ModifiedOf[answer'.obj], answer'.total, FALSE)
    BY <2>2, <1>8
  <2>5. /\ answer'.total \in {0, SizeOf[answer'.obj]}
        /\ answer'.start = begin' /\ answer'.end \in Int /\ answer'.end < SizeOf[answer'.obj]
        /\ answer'.total = 0 => answer'.end = SizeOf[answer'.obj] - 1
        /\ begin' <= held' /\ held' <= answer'.end + 1 /\ held' = begin'
    BY <2>2, <1>3, <1>5
  <2>6. stage' \in {"open", "sidecar", "body"} /\ (stage' # "open" \/ held' > 0) =>
          held' = Len(Sink') /\ Begins(Sink, answer.obj)'
    <3>1. Begins(Sink, o)' => Begins(Sink, answer.obj)'
      BY <2>2 DEF Begins
    <3> QED
      BY <1>4, <1>13, <3>1
  <2> QED
    BY <2>1, <2>2, <2>3, <2>4, <2>5, <2>6 DEF Reading
<1>15. Asking' /\ AllThere'
  BY <1>4 DEF Asking, AllThere
<1> QED
  BY <1>11, <1>12, <1>14, <1>15 DEF RangeInv

\* What is held is all there is, as the server confirms.
LEMMA CompleteKeeps ==
    ASSUME RangeInv, stage = "request", NEW r \in Answers(current[src], held),
           r.code = 416, Completes(r),
           meta' = [meta EXCEPT !.total = r.total],
           stage' = IF mode = "file" THEN "close" ELSE "returned",
           UNCHANGED <<held, begin, buf, answer>>,
           UNCHANGED <<current, bytes, synced, sidecar, mode, src>>
    PROVE  RangeInv'
<1>0. PICK o \in Objects : o = current[src]
  BY DEF RangeInv, RangeTyped
<1>1. /\ o \in Here /\ o \in Objects /\ SourceOf[o] = src /\ held \in Nat
      /\ mode \in {"file", "memory"} /\ meta \in Metas
  BY <1>0 DEF RangeInv, RangeTyped, Here
<1>2. r.total = SizeOf[o] /\ held > 0 /\ RangeHolds(o) /\ r.obj = o
  BY <1>0, <1>1, AnswerIs
<1>3. held = SizeOf[o] /\ ~Changed(o)
  BY <1>2 DEF Completes
<1>4. PICK q \in Here : Begins(Sink, q) /\ Describes(meta, q) /\ Validator(meta) # NoTag
  BY <1>2 DEF RangeInv, Asking
<1>5. q = o
  BY <1>1, <1>2, <1>3, <1>4, SameObject DEF Here
<1>6. held = Len(Sink) /\ Sink' = Sink /\ o \in Here'
  BY <1>1 DEF RangeInv, Asking, Sink, Here
<1>7. meta' \in Metas
  BY <1>1, <1>2, ValidatorsAssumption DEF Metas
<1>8. Describes(meta, o)'
  BY <1>1, <1>2, <1>4, <1>5 DEF Describes, Metas
<1>9. stage' \in {"close", "returned"} /\ (mode = "memory" => stage' = "returned")
  BY <1>1
<1>10. RangeTyped'
  BY <1>7, <1>9 DEF RangeInv, RangeTyped, TransferStages
<1>11. Checkpoint'
  BY DEF RangeInv, Checkpoint
<1>12. Begins(Sink, o)' /\ (Len(Sink) = SizeOf[o])' /\ (held = Len(Sink))'
  BY <1>3, <1>4, <1>5, <1>6 DEF Begins
<1>13. AllThere'
  BY <1>6, <1>8, <1>9, <1>12 DEF AllThere
<1>14. Asking' /\ Reading'
  BY <1>9 DEF Asking, Reading
<1> QED
  BY <1>10, <1>11, <1>13, <1>14 DEF RangeInv

LEMMA RequestKeeps ==
    ASSUME RangeInv, Request
    PROVE  RangeInv'
<1>1. stage = "request" /\ UNCHANGED <<current, bytes, synced, sidecar, mode, src>>
  BY DEF Request, checkpoint
<1>2. PICK r \in Answers(current[src], held) :
         \/ r.code = 200 /\ Accept(r)
         \/ r.code = 206 /\ Extends(r) /\ Accept(r)
         \/ /\ r.code = 416 /\ Completes(r)
            /\ meta' = [meta EXCEPT !.total = r.total]
            /\ stage' = IF mode = "file" THEN "close" ELSE "returned"
            /\ UNCHANGED <<held, begin, buf, answer, again>>
         \/ r.code = 206 /\ ~Extends(r) /\ Reject
         \/ r.code = 416 /\ ~Completes(r) /\ Reject
  BY DEF Request
<1>3. CASE r.code \in {200, 206} /\ (r.code = 206 => Extends(r)) /\ Accept(r)
  BY <1>1, <1>3, AcceptKeeps
<1>4. CASE /\ r.code = 416 /\ Completes(r)
           /\ meta' = [meta EXCEPT !.total = r.total]
           /\ stage' = IF mode = "file" THEN "close" ELSE "returned"
           /\ UNCHANGED <<held, begin, buf, answer>>
  BY <1>1, <1>4, CompleteKeeps
<1>5. CASE Reject
  <2>1. /\ stage' \in {"clean", "idle"} /\ (mode # "file" => stage' = "idle")
        /\ UNCHANGED <<held, begin, buf, meta, answer>>
    BY <1>5 DEF Reject
  <2>2. RangeTyped'
    BY <1>1, <2>1 DEF RangeInv, RangeTyped, TransferStages
  <2>3. Checkpoint'
    BY <1>1 DEF RangeInv, Checkpoint
  <2> QED
    BY <2>1, <2>2, <2>3 DEF RangeInv, Asking, Reading, AllThere
<1> QED
  BY <1>2, <1>3, <1>4, <1>5

LEMMA OpensKeep ==
    ASSUME RangeInv, OpenObject \/ WriteSidecar
    PROVE  RangeInv'
<1>1. mode = "file" /\ stage \in {"open", "sidecar"} /\ Sink = bytes
  BY DEF RangeInv, RangeTyped, OpenObject, WriteSidecar, Sink
<1>0. PICK o \in Objects : o = answer.obj
  BY <1>1 DEF RangeInv, Reading, Here
<1>2. /\ o \in Here /\ SourceOf[o] = src
      /\ meta = Meta(src, ETagOf[o], ModifiedOf[o], answer.total, FALSE)
      /\ answer.total \in {0, SizeOf[o]}
      /\ stage # "open" \/ held > 0 => held = Len(bytes) /\ Begins(bytes, o)
  BY <1>0, <1>1 DEF RangeInv, Reading, Here
<1>3. SizeOf[o] \in Nat /\ held \in Nat
  BY <1>2, ValidatorsAssumption DEF RangeInv, RangeTyped
<1>4. CASE OpenObject
  <2>1. /\ stage = "open" /\ stage' = "sidecar"
        /\ held = 0 => bytes' = <<>> /\ synced' = 0
        /\ held # 0 => bytes' = bytes /\ synced' = synced
        /\ UNCHANGED <<current, sidecar, mode, src, buf, held, meta, answer, begin>>
    BY <1>4 DEF OpenObject, NoFile
  <2>2. RangeTyped'
    <3>1. CASE held = 0
      BY <2>1, <3>1 DEF RangeInv, RangeTyped, TransferStages
    <3>2. CASE held # 0
      BY <2>1, <3>2 DEF RangeInv, RangeTyped, TransferStages
    <3> QED
      BY <3>1, <3>2
  <2>3. Checkpoint'
    <3>1. CASE held = 0
      BY <2>1, <3>1 DEF Checkpoint, NoFile
    <3>2. CASE held # 0
      BY <2>1, <3>2 DEF RangeInv, Checkpoint
    <3> QED
      BY <3>1, <3>2
  <2>4. Sink' = bytes' /\ held' = Len(bytes') /\ Begins(bytes', o)
    <3>1. CASE held = 0
      BY <1>1, <1>3, <2>1, <3>1 DEF Sink, Begins
    <3>2. CASE held # 0
      BY <1>1, <1>2, <1>3, <2>1, <3>2 DEF Sink, Begins
    <3> QED
      BY <3>1, <3>2
  <2>5. Reading'
    <3>1. Here' = Here
      BY <2>1 DEF Here
    <3>2. Begins(Sink, answer.obj)'
      BY <1>0, <2>1, <2>4 DEF Begins
    <3> QED
      BY <2>1, <2>4, <3>1, <3>2 DEF RangeInv, Reading
  <2> QED
    BY <2>1, <2>2, <2>3, <2>5 DEF RangeInv, Asking, AllThere
<1>5. CASE WriteSidecar
  <2>1. /\ stage = "sidecar" /\ stage' = "body" /\ sidecar' = meta
        /\ UNCHANGED <<current, bytes, synced, mode, src, buf, held, meta, answer, begin>>
    BY <1>5 DEF WriteSidecar
  <2>2. RangeTyped'
    BY <2>1 DEF RangeInv, RangeTyped, TransferStages
  <2>3. Checkpoint'
    <3>1. meta.src = src /\ meta.etag = ETagOf[o] /\ meta.mod = ModifiedOf[o]
          /\ meta.total = answer.total /\ meta.complete = FALSE
      BY <1>2 DEF Meta
    <3>2. Begins(bytes, o)' /\ Describes(sidecar, o)' /\ ~sidecar'.complete
      BY <1>2, <2>1, <3>1 DEF Describes, Begins
    <3> QED
      BY <3>2 DEF Checkpoint
  <2>4. Reading'
    <3>1. Here' = Here /\ Sink' = Sink
      BY <2>1 DEF Here, Sink
    <3>2. Begins(Sink, answer.obj)' /\ held' = Len(Sink')
      BY <1>0, <1>1, <1>2, <2>1, <3>1 DEF Begins
    <3> QED
      BY <2>1, <3>1, <3>2 DEF RangeInv, Reading
  <2> QED
    BY <2>1, <2>2, <2>3, <2>4 DEF RangeInv, Asking, AllThere
<1> QED
  BY <1>4, <1>5

LEMMA ByteKeeps ==
    ASSUME RangeInv, Byte
    PROVE  RangeInv'
<1>0. /\ stage = "body" /\ answer.start + held - begin <= answer.end
      /\ UNCHANGED <<current, synced, sidecar, mode, src, meta, answer, begin>>
  BY DEF Byte, Position
<1>1. PICK o \in Objects : o = answer.obj
  BY <1>0 DEF RangeInv, Reading, Here
<1>2. /\ o \in Here /\ SourceOf[o] = src
      /\ meta = Meta(src, ETagOf[o], ModifiedOf[o], answer.total, FALSE)
      /\ answer.total \in {0, SizeOf[o]}
      /\ answer.start = begin /\ answer.end \in Int /\ answer.end < SizeOf[o]
      /\ held = Len(Sink) /\ Begins(Sink, o) /\ (mode = "file" => sidecar = meta)
  BY <1>0, <1>1 DEF RangeInv, Reading, Here
<1>3. /\ bytes \in Seq(Objects) /\ buf \in Seq(Objects) /\ held \in Nat /\ begin \in Nat
      /\ mode \in {"file", "memory"} /\ SizeOf[o] \in Nat /\ begin <= held
      /\ synced \in 0 .. Len(bytes)
  BY <1>0, ValidatorsAssumption DEF RangeInv, RangeTyped, Reading
<1>4. CASE MemoryFull
  <2>1. mode = "memory" /\ stage' = "idle" /\ UNCHANGED <<bytes, buf, held>>
    BY <1>4 DEF MemoryFull, Byte
  <2>2. RangeTyped'
    BY <1>0, <2>1 DEF RangeInv, RangeTyped, TransferStages
  <2>3. Checkpoint'
    BY <1>0, <2>1 DEF RangeInv, Checkpoint
  <2> QED
    BY <2>1, <2>2, <2>3 DEF RangeInv, Asking, Reading, AllThere
<1>5. CASE ~MemoryFull
  <2>1. /\ held' = held + 1 /\ stage' = "body"
        /\ mode = "file" => bytes' = Append(bytes, o) /\ buf' = buf
        /\ mode # "file" => buf' = Append(buf, o) /\ bytes' = bytes
    BY <1>0, <1>1, <1>5 DEF Byte
  <2>2. held < answer.end + 1 /\ held + 1 <= SizeOf[o]
    BY <1>0, <1>2, <1>3
  <2>3. Sink' = Append(Sink, o) /\ Sink \in Seq(Objects)
    BY <1>0, <1>3, <2>1 DEF Sink
  <2>4. Len(Sink') = Len(Sink) + 1 /\ \A i \in 1 .. Len(Sink) + 1 : Sink'[i] = o
    BY <1>2, <2>3 DEF Begins
  <2>5. held' = Len(Sink') /\ Begins(Sink', o)
    BY <1>2, <2>1, <2>2, <2>4 DEF Begins
  <2>6. bytes' \in Seq(Objects) /\ Len(bytes) <= Len(bytes')
    <3>1. CASE mode = "file"
      BY <3>1, <1>3, <2>1
    <3>2. CASE mode # "file"
      BY <3>2, <1>3, <2>1
    <3> QED
      BY <3>1, <3>2
  <2>7. buf' \in Seq(Objects)
    BY <1>3, <2>1
  <2>8. RangeTyped'
    <3>1. synced' \in 0 .. Len(bytes') /\ held' \in Nat
      BY <1>0, <1>3, <2>1, <2>6
    <3> QED
      BY <1>0, <2>1, <2>6, <2>7, <3>1 DEF RangeInv, RangeTyped
  <2>9. Checkpoint'
    <3>1. CASE mode = "file"
      <4>1. sidecar' = meta /\ Sink' = bytes'
        BY <1>0, <1>2, <3>1 DEF Sink
      <4>2. /\ meta.src = src /\ meta.etag = ETagOf[o] /\ meta.mod = ModifiedOf[o]
            /\ meta.total = answer.total /\ meta.complete = FALSE
        BY <1>2 DEF Meta
      <4>3. Begins(bytes, o)' /\ Describes(sidecar, o)' /\ ~sidecar'.complete
        BY <1>2, <2>5, <4>1, <4>2 DEF Describes, Begins
      <4> QED
        BY <4>3 DEF Checkpoint
    <3>2. CASE mode # "file"
      BY <3>2, <1>0, <2>1 DEF RangeInv, Checkpoint
    <3> QED
      BY <3>1, <3>2
  <2>10. Reading'
    <3>1. Here' = Here
      BY <1>0 DEF Here
    <3>2. Begins(Sink, answer.obj)'
      BY <1>0, <1>1, <2>5 DEF Begins
    <3>3. begin' <= held' /\ held' <= answer'.end + 1
      BY <1>0, <1>2, <1>3, <2>1, <2>2
    <3> QED
      BY <1>0, <2>1, <2>5, <3>1, <3>2, <3>3 DEF RangeInv, Reading
  <2> QED
    BY <2>1, <2>8, <2>9, <2>10 DEF RangeInv, Asking, AllThere
<1> QED
  BY <1>4, <1>5

\* A body that breaks off: what is synced is what is there, and the bytes held
\* in memory may be asked for again.
LEMMA BrokenKeeps ==
    ASSUME RangeInv, stage = "body", Broken,
           UNCHANGED <<current, bytes, sidecar, mode, src, buf, held, meta, answer, begin>>
    PROVE  RangeInv'
<1>0. mode \in {"file", "memory"} /\ bytes \in Seq(Objects) /\ synced \in 0 .. Len(bytes)
  BY DEF RangeInv, RangeTyped
<1>1. CASE stage' = "request"
  <2>1. /\ mode = "memory" /\ held > 0 /\ Validator(meta) # NoTag /\ synced' = synced
    BY <1>1 DEF Broken
  <2>2. RangeTyped'
    BY <1>1, <2>1 DEF RangeInv, RangeTyped, TransferStages
  <2>3. Checkpoint'
    BY <2>1 DEF RangeInv, Checkpoint
  <2>4. Asking'
    <3>1. PICK o \in Here : o = answer.obj
      BY DEF RangeInv, Reading
    <3>2. Sink' = Sink /\ Here' = Here /\ Validator(meta)' # NoTag /\ mode' # "file"
      BY <2>1 DEF Sink, Here, Validator
    <3>3. held = Len(Sink) /\ Begins(Sink, o)
      BY <3>1 DEF RangeInv, Reading
    <3>4. Describes(meta, o)'
      <4>1. meta = Meta(src, ETagOf[o], ModifiedOf[o], answer.total, FALSE)
            /\ answer.total \in {0, SizeOf[o]} /\ SourceOf[o] = src
        BY <3>1 DEF RangeInv, Reading, Here
      <4> QED
        BY <4>1 DEF Describes, Meta
    <3>5. Begins(Sink, o)'
      BY <3>2, <3>3 DEF Begins
    <3> QED
      BY <2>1, <3>2, <3>3, <3>4, <3>5 DEF Asking
  <2> QED
    BY <1>1, <2>2, <2>3, <2>4 DEF RangeInv, Reading, AllThere
<1>2. CASE stage' # "request"
  <2>1. stage' = "idle" /\ synced' = IF mode = "file" THEN Len(bytes) ELSE synced
    BY <1>2 DEF Broken
  <2>2. synced' \in 0 .. Len(bytes)
    BY <1>0, <2>1
  <2>3. RangeTyped'
    BY <2>1, <2>2 DEF RangeInv, RangeTyped, TransferStages
  <2>4. Checkpoint'
    BY <2>1 DEF RangeInv, Checkpoint, Begins
  <2> QED
    BY <2>1, <2>3, <2>4 DEF RangeInv, Asking, Reading, AllThere
<1> QED
  BY <1>1, <1>2

LEMMA EndKeeps ==
    ASSUME RangeInv, BodyBreaks \/ BodyEnds
    PROVE  RangeInv'
<1>1. /\ stage = "body"
      /\ UNCHANGED <<current, bytes, sidecar, mode, src, buf, held, meta, answer, begin>>
  BY DEF BodyBreaks, BodyEnds
<1>2. CASE Broken
  BY <1>1, <1>2, BrokenKeeps
<1>3. CASE ~Broken
  <2>1. /\ answer.start + held - begin > answer.end
        /\ ~(meta.total > 0 /\ held # meta.total)
        /\ stage' = IF mode = "file" THEN "close" ELSE "returned"
        /\ synced' = synced
    BY <1>1, <1>3 DEF BodyBreaks, BodyEnds, Position
  <2>2. PICK o \in Objects : o = answer.obj
    BY <1>1 DEF RangeInv, Reading, Here
  <2>3. /\ SourceOf[o] = src
        /\ meta = Meta(src, ETagOf[o], ModifiedOf[o], answer.total, FALSE)
        /\ answer.total \in {0, SizeOf[o]}
        /\ answer.start = begin /\ answer.end \in Int /\ answer.end < SizeOf[o]
        /\ answer.total = 0 => answer.end = SizeOf[o] - 1
        /\ held = Len(Sink) /\ Begins(Sink, o)
    BY <1>1, <2>2 DEF RangeInv, Reading, Here
  <2>4. held \in Nat /\ begin \in Nat /\ SizeOf[o] \in Nat /\ SizeOf[o] > 0
        /\ mode \in {"file", "memory"}
    BY ValidatorsAssumption DEF RangeInv, RangeTyped
  <2>5. meta.total = answer.total
    BY <2>3 DEF Meta
  <2>6. held = SizeOf[o]
    <3>1. held <= SizeOf[o]
      BY <2>3 DEF Begins
    <3>2. CASE answer.total = 0
      <4>1. held > SizeOf[o] - 1
        BY <3>2, <2>1, <2>3, <2>4
      <4> QED
        BY <3>1, <4>1, <2>4
    <3>3. CASE answer.total = SizeOf[o]
      BY <3>3, <2>1, <2>4, <2>5
    <3> QED
      BY <3>2, <3>3, <2>3
  <2>7. o \in Here' /\ Begins(Sink, o)' /\ (Len(Sink) = SizeOf[o])' /\ (held = Len(Sink))'
    BY <1>1, <2>3, <2>6 DEF Here, Sink, Begins
  <2>8. Describes(meta, o)'
    BY <1>1, <2>3 DEF Describes, Meta
  <2>9. stage' \in {"close", "returned"} /\ (mode = "memory" => stage' = "returned")
    BY <2>1, <2>4
  <2>10. RangeTyped'
    BY <1>1, <2>1, <2>9 DEF RangeInv, RangeTyped, TransferStages
  <2>11. Checkpoint'
    BY <1>1, <2>1 DEF RangeInv, Checkpoint
  <2>12. AllThere'
    BY <2>7, <2>8, <2>9 DEF AllThere
  <2> QED
    BY <2>9, <2>10, <2>11, <2>12 DEF RangeInv, Asking, Reading
<1> QED
  BY <1>2, <1>3

\* The marker: the file is whole and synced before the metadata says so.
LEMMA MarksKeep ==
    ASSUME RangeInv, Close \/ MarkComplete
    PROVE  RangeInv'
<1>1. /\ mode = "file" /\ stage \in {"close", "mark"} /\ Sink = bytes /\ Sink' = bytes'
      /\ UNCHANGED <<current, bytes, mode, src, buf, held, meta, answer, begin>>
  BY DEF RangeInv, RangeTyped, Close, MarkComplete, Sink
<1>2. PICK o \in Objects :
        /\ SourceOf[o] = src /\ Begins(bytes, o) /\ Len(bytes) = SizeOf[o]
        /\ Describes(meta, o) /\ held = Len(bytes)
  BY <1>1 DEF RangeInv, AllThere, Here
<1>3. /\ o \in Here' /\ Begins(Sink, o)' /\ (Len(Sink) = SizeOf[o])' /\ Describes(meta, o)'
      /\ (held = Len(Sink))'
  BY <1>1, <1>2 DEF Here, Begins, Describes
<1>4. meta \in Metas /\ bytes \in Seq(Objects) /\ held \in Nat
  BY DEF RangeInv, RangeTyped
<1>5. CASE Close
  <2>1. stage' = "mark" /\ synced' = Len(bytes) /\ sidecar' = sidecar
    BY <1>5 DEF Close
  <2>2. RangeTyped'
    BY <1>1, <1>4, <2>1 DEF RangeInv, RangeTyped, TransferStages
  <2>3. Checkpoint'
    BY <1>1, <2>1 DEF RangeInv, Checkpoint
  <2>4. AllThere'
    BY <1>1, <1>3, <2>1 DEF AllThere
  <2> QED
    BY <2>1, <2>2, <2>3, <2>4 DEF RangeInv, Asking, Reading
<1>6. CASE MarkComplete
  <2>1. /\ stage = "mark" /\ stage' = "returned" /\ synced' = synced
        /\ sidecar' = [meta EXCEPT !.complete = TRUE, !.total = IF @ > 0 THEN @ ELSE held]
    BY <1>6 DEF MarkComplete
  <2>2. synced = Len(bytes)
    BY <2>1 DEF RangeInv, AllThere
  <2>3. PICK t \in Nat : t = (IF meta.total > 0 THEN meta.total ELSE held)
    BY <1>4 DEF Metas
  <2>4. t \in {0, SizeOf[o]}
    BY <1>2, <2>3 DEF Describes
  <2>5. sidecar' = [[meta EXCEPT !.complete = TRUE] EXCEPT !.total = t]
    BY <2>1, <2>3, <1>4 DEF Metas
  <2>6. [meta EXCEPT !.complete = TRUE] \in Metas
    BY <1>4 DEF Metas
  <2>7. sidecar' \in Metas /\ Describes(sidecar', o)
    BY <1>2, <1>4, <2>3, <2>4, <2>5, <2>6 DEF Metas, Describes
  <2>8. RangeTyped'
    BY <1>1, <2>1, <2>7 DEF RangeInv, RangeTyped, TransferStages
  <2>9. Checkpoint'
    <3>1. Begins(bytes, o)' /\ Describes(sidecar, o)' /\ (Len(bytes) = SizeOf[o])' /\ synced' = Len(bytes')
      BY <1>1, <1>2, <2>1, <2>2, <2>7 DEF Begins, Describes
    <3> QED
      BY <3>1 DEF Checkpoint
  <2>10. AllThere'
    BY <1>3, <2>1 DEF AllThere
  <2> QED
    BY <2>1, <2>8, <2>9, <2>10 DEF RangeInv, Asking, Reading
<1> QED
  BY <1>5, <1>6

\* A crash leaves what was synced, so what is marked complete, and a beginning
\* of the rest.
LEMMA CrashKeeps ==
    ASSUME RangeInv, Crash
    PROVE  RangeInv'
<1>1. /\ stage' = "idle" /\ bytes' \in Survivors
      /\ buf' = <<>> /\ held' = 0 /\ meta' = NoMeta /\ begin' = 0
      /\ UNCHANGED <<current, synced, sidecar, mode, src>>
  BY DEF Crash
<1>2. PICK n \in synced .. Len(bytes) : bytes' = SubSeq(bytes, 1, n)
  BY <1>1 DEF Survivors
<1>3. bytes \in Seq(Objects) /\ synced \in 0 .. Len(bytes)
  BY DEF RangeInv, RangeTyped
<1>4. n \in 0 .. Len(bytes) /\ synced <= n
  BY <1>2, <1>3
<1>5. bytes' \in Seq(Objects) /\ Len(bytes') = n /\ \A i \in 1 .. n : bytes'[i] = bytes[i]
  BY <1>2, <1>3, <1>4
<1>6. RangeTyped'
  <2>1. synced' \in 0 .. Len(bytes')
    BY <1>1, <1>3, <1>4, <1>5
  <2> QED
    BY <1>1, <1>5, <2>1, NoMetaIsMeta DEF RangeInv, RangeTyped, TransferStages
<1>7. Checkpoint'
  <2> SUFFICES ASSUME bytes' # NoFile, sidecar' # NoMeta
      PROVE \E o \in Objects :
              /\ Begins(bytes', o) /\ Describes(sidecar', o)
              /\ sidecar'.complete => Len(bytes') = SizeOf[o] /\ synced' = Len(bytes')
    BY DEF Checkpoint, Begins, Describes
  <2>1. bytes # NoFile
    BY <1>3, <1>4, <1>5 DEF NoFile
  <2>2. PICK o \in Objects :
          /\ Begins(bytes, o) /\ Describes(sidecar, o)
          /\ sidecar.complete => Len(bytes) = SizeOf[o] /\ synced = Len(bytes)
    BY <1>1, <2>1 DEF RangeInv, Checkpoint
  <2>3. Begins(bytes', o)
    BY <2>2, <1>4, <1>5, ValidatorsAssumption DEF Begins
  <2>4. sidecar'.complete => Len(bytes') = SizeOf[o] /\ synced' = Len(bytes')
    BY <2>2, <1>1, <1>4, <1>5
  <2>5. Describes(sidecar', o)
    BY <2>2, <1>1
  <2> QED
    BY <2>3, <2>4, <2>5
<1> QED
  BY <1>1, <1>6, <1>7 DEF RangeInv, Asking, Reading, AllThere

LEMMA RangeStep == RangeInv /\ [TransferNext]_transferVars => RangeInv'
<1> SUFFICES ASSUME RangeInv, [TransferNext]_transferVars PROVE RangeInv'
  OBVIOUS
<1>1. CASE \E o \in Objects : ObjectChanges(o)
  BY <1>1, ChangeKeeps
<1>2. CASE \E m \in Modes, s \in Sources : Call(m, s)
  BY <1>2, CallKeeps
<1>3. CASE RequestFails
  <2>1. stage' = "idle" /\ UNCHANGED <<current, bytes, synced, sidecar, mode, src, buf, held, meta, answer, begin>>
    BY <1>3 DEF RequestFails, checkpoint
  <2>2. RangeTyped'
    BY <2>1 DEF RangeInv, RangeTyped, TransferStages
  <2>3. Checkpoint'
    BY <2>1 DEF RangeInv, Checkpoint
  <2> QED
    BY <2>1, <2>2, <2>3 DEF RangeInv, Asking, Reading, AllThere
<1>4. CASE UNCHANGED transferVars
  <2>1. UNCHANGED <<current, bytes, synced, sidecar, stage, mode, src, buf, held, meta, answer, begin>>
    BY <1>4 DEF transferVars, checkpoint
  <2>2. RangeTyped' /\ Checkpoint'
    BY <2>1 DEF RangeInv, RangeTyped, Checkpoint
  <2>3. Asking'
    BY <2>1 DEF RangeInv, Asking, Sink, Here, Validator
  <2>4. Reading'
    BY <2>1 DEF RangeInv, Reading, Sink, Here
  <2>5. AllThere'
    BY <2>1 DEF RangeInv, AllThere, Sink, Here
  <2> QED
    BY <2>2, <2>3, <2>4, <2>5 DEF RangeInv
<1> QED
  BY <1>1, <1>2, <1>3, <1>4, LoadKeeps, RemovesKeep, RequestKeeps, OpensKeep, ByteKeeps,
     EndKeeps, MarksKeep, CrashKeeps DEF TransferNext

LEMMA RangeHas == RangeInv => WholeObject
<1> SUFFICES ASSUME RangeInv, stage = "returned"
    PROVE Sink \in {Whole(o) : o \in {p \in Objects : SourceOf[p] = src}}
  BY DEF WholeObject, Sink
<1>1. PICK o \in Here : Begins(Sink, o) /\ Len(Sink) = SizeOf[o]
  BY DEF RangeInv, AllThere
<1>2. Sink \in Seq(Objects)
  BY DEF RangeInv, RangeTyped, Sink
<1>3. Sink = [i \in 1 .. Len(Sink) |-> Sink[i]]
  BY <1>2
<1>4. Sink = Whole(o)
  BY <1>1, <1>3 DEF Whole, Begins
<1> QED
  BY <1>1, <1>4 DEF Here

\* Bytes of two objects are never mixed: what a transfer returns, from a file a
\* crash or an older transfer left as well as from memory, is one object of its
\* source from the first byte to the last (downloadToFile and rangeTransfer,
\* src/internal/media/transfer.go).
THEOREM NeverMixed == TransferSpec => []WholeObject
<1>1. RangeInv => WholeObject
  BY RangeHas
<1> QED
  BY RangeInit, RangeStep, <1>1, PTL DEF TransferSpec

-----------------------------------------------------------------------------
(* The anchor of the library *)

\* a is above b in the library.
Order == {p \in Songs \X Songs : \E i, j \in DOMAIN library : i < j /\ library[i] = p[1] /\ library[j] = p[2]}
Above(a, b) == <<a, b>> \in Order

\* Every song the watcher ever saw.
Seen == Range(library) \union removed
LibraryTyped ==
    /\ library \in Seq(Songs) /\ stored \in Seq(Songs) /\ anchor \in Seq(Songs) /\ scanned \in Seq(Songs)
    /\ IsInjective(library) /\ Range(library) \intersect removed = {}
    /\ newcomers \subseteq Range(library)
    /\ Range(stored) \subseteq Seen /\ Range(anchor) \subseteq Seen
    /\ standing \subseteq Seen /\ had \subseteq Seen
    /\ Len(stored) <= AnchorSize
    /\ generation \in Nat /\ myGen \in Nat /\ pc \in {"idle", "read", "submit", "reanchor"}

\* The newcomers are ahead of the anchor x and not in it.
SkipsNothing(x) == x # <<>> => \A s \in newcomers : s \notin Range(x) /\ ~Above(x[Len(x)], s)
\* What was there when the anchor x was laid is in it or behind it.
Baseline(x) == x # <<>> => \A s \in had : Above(s, x[Len(x)]) => s \in Range(x)
Memory == SkipsNothing(stored) /\ Baseline(stored) /\ (forgotten => stored = <<>>)

\* The pass has the anchor that is stored, unless it was reset meanwhile.
PassAnchor ==
    /\ pc = "idle" => scanned = <<>> /\ anchor = <<>> /\ toLookUp = {} /\ urls = {} /\ pending = {}
    /\ pc # "idle" => myGen <= generation /\ (myGen = generation => anchor = stored /\ ~forgotten)
    /\ pc = "read" => SkipsNothing(anchor) /\ Baseline(anchor) /\ toLookUp = {} /\ urls = {} /\ pending = {}
    /\ pc = "submit" => anchor # <<>>

\* Songs are added on top.
NewOnTop == \A a \in standing, b \in Range(library) \ standing : ~Above(a, b)

\* What is read was there when the pass began, each song after those above it.
InOrder ==
    /\ Range(scanned) \subseteq standing
    /\ \A k \in DOMAIN scanned, a \in standing : Above(a, scanned[k]) => \E n \in 1 .. k : scanned[n] = a
\* The next page begins behind a song that was there when the pass began; those
\* above it that were there have been read, and none has gone.
ScanGoesOn ==
    pc = "read" /\ scanned # <<>> =>
        /\ Len(scanned) <= Len(library) /\ standing \subseteq Range(library)
        /\ \A i \in DOMAIN library : i > Len(scanned) => library[i] \in standing
        /\ \A i \in DOMAIN library : i <= Len(scanned) /\ library[i] \in standing => library[i] \in Range(scanned)

\* The albums the pass has still to settle.
Unsettled == {AlbumOf[scanned[i]] : i \in toLookUp} \union urls \union pending
\* The newcomers are for this pass to settle, or above all it has read.
Submitting ==
    pc = "submit" =>
        /\ toLookUp \subseteq DOMAIN scanned
        /\ {scanned[i] : i \in Added(scanned)} \intersect had = {}
        /\ \A s \in newcomers : \/ s \in NewOf(Unsettled)
                                \/ s \notin Range(scanned) /\ \A k \in DOMAIN scanned : ~Above(scanned[k], s)

SyncInv == LibraryTyped /\ Memory /\ PassAnchor /\ NewOnTop /\ InOrder /\ ScanGoesOn /\ Submitting

LEMMA NatOrder == \E less : IsWellFoundedOn(less, Nat) /\ \A n, m \in Nat : <<n, m>> \in less <=> n < m
<1> WITNESS OpToRel(<, Nat)
<1>1. \A n, m \in Nat : <<n, m>> \in OpToRel(<, Nat) <=> n < m
  BY DEF OpToRel
<1> QED BY <1>1, NatLessThanWellFounded

LEMMA LeastNatural == ASSUME NEW S \in SUBSET Nat, S # {} PROVE \E m \in S : \A n \in S : m <= n
<1>1. PICK less : IsWellFoundedOn(less, Nat) /\ \A n, m \in Nat : <<n, m>> \in less <=> n < m
  BY NatOrder
<1>2. IsWellFoundedOn(less, Nat)
  BY <1>1
<1>3. \E m \in S : \A n \in S : ~(<<n, m>> \in less)
  BY <1>2, WFMin, Zenon
<1>4. PICK m \in S : \A n \in S : ~(<<n, m>> \in less)
  BY <1>3
<1>5. m \in Nat /\ \A n \in S : n \in Nat /\ ~(<<n, m>> \in less)
  BY <1>4
<1>6. ASSUME NEW n \in S PROVE m <= n
  <2>1. n \in Nat /\ m \in Nat /\ ~(n < m)
    BY <1>1, <1>5
  <2> QED BY <2>1
<1> QED BY <1>6

\* What the library may do that the watcher is not made for: a song goes from
\* under a scan, one comes back, or more come in than the scan has read.
Steady == Changes \subseteq {"remove"}

LEMMA JoinOf ==
    ASSUME NEW u \in Seq(Songs), NEW v \in Seq(Songs)
    PROVE  /\ u \o v \in Seq(Songs) /\ Len(u \o v) = Len(u) + Len(v)
           /\ \A i \in 1 .. Len(u) : (u \o v)[i] = u[i]
           /\ \A i \in 1 .. Len(v) : (u \o v)[Len(u) + i] = v[i]
OBVIOUS

LEMMA AboveIs ==
    ASSUME library \in Seq(Songs), NEW a, NEW b
    PROVE  Above(a, b) <=> \E i, j \in DOMAIN library : i < j /\ library[i] = a /\ library[j] = b
<1>1. \A i \in DOMAIN library : library[i] \in Songs
  OBVIOUS
<1> QED BY <1>1 DEF Above, Order

LEMMA AboveWillBe ==
    ASSUME library' \in Seq(Songs), NEW a, NEW b
    PROVE  Above(a, b)' <=> \E i, j \in DOMAIN library' : i < j /\ library'[i] = a /\ library'[j] = b
<1>1. \A i \in DOMAIN library' : library'[i] \in Songs
  OBVIOUS
<1> QED BY <1>1 DEF Above, Order

LEMMA AboveAdded ==
    ASSUME NEW s \in Songs, library \in Seq(Songs), IsInjective(library), s \notin Range(library),
           library' = <<s>> \o library
    PROVE  /\ library' \in Seq(Songs) /\ IsInjective(library') /\ Range(library') = Range(library) \union {s}
           /\ Len(library') = Len(library) + 1 /\ library'[1] = s
           /\ \A i \in 2 .. Len(library) + 1 : library'[i] = library[i - 1]
           /\ \A a, b : Above(a, b)' => Above(a, b) \/ (a = s /\ b \in Range(library))
<1>1. /\ library' \in Seq(Songs) /\ Len(library') = Len(library) + 1 /\ library'[1] = s
      /\ \A i \in 2 .. Len(library) + 1 : library'[i] = library[i - 1]
  OBVIOUS
<1>2. PICK n \in Nat : n = Len(library)
  OBVIOUS
<1>3. DOMAIN library = 1 .. n /\ DOMAIN library' = 1 .. n + 1
  BY <1>1, <1>2
<1>4. \A i \in 1 .. n : library'[i + 1] = library[i]
  BY <1>1, <1>2
<1>5. \A i \in 2 .. n + 1 : i - 1 \in 1 .. n /\ library'[i] = library[i - 1]
  BY <1>1, <1>2
<1>6. Range(library') = Range(library) \union {s}
  <2>1. ASSUME NEW x \in Range(library') PROVE x \in Range(library) \union {s}
    BY <2>1, <1>1, <1>3, <1>5 DEF Range
  <2>2. ASSUME NEW x \in Range(library) PROVE x \in Range(library')
    <3>1. PICK i \in 1 .. n : library[i] = x
      BY <1>3 DEF Range
    <3>2. i + 1 \in 1 .. n + 1 /\ library'[i + 1] = x
      BY <1>2, <1>4, <3>1
    <3> QED BY <3>2, <1>3 DEF Range
  <2>3. s \in Range(library')
    <3>1. 1 \in 1 .. n + 1
      BY <1>2
    <3> QED BY <3>1, <1>1, <1>3 DEF Range
  <2> QED BY <2>1, <2>2, <2>3
<1>7. IsInjective(library')
  <2> SUFFICES ASSUME NEW i \in 1 .. n + 1, NEW j \in 1 .. n + 1, library'[i] = library'[j] PROVE i = j
    BY <1>3 DEF IsInjective
  <2>1. \A k \in 2 .. n + 1 : library'[k] # s
    BY <1>3, <1>5 DEF Range
  <2>2. CASE i = 1 \/ j = 1
    BY <2>2, <2>1, <1>1, <1>2
  <2>3. CASE i # 1 /\ j # 1
    <3>1. i \in 2 .. n + 1 /\ j \in 2 .. n + 1
      BY <2>3, <1>2
    <3>2. i - 1 = j - 1
      <4>1. i - 1 \in DOMAIN library /\ j - 1 \in DOMAIN library
        BY <3>1, <1>3, <1>5
      <4>2. library[i - 1] = library[j - 1]
        BY <3>1, <1>5
      <4>3. \A x, y \in DOMAIN library : library[x] = library[y] => x = y
        BY DEF IsInjective
      <4> QED BY <4>1, <4>2, <4>3
    <3> QED BY <3>1, <3>2, <1>2
  <2> QED BY <2>2, <2>3
<1>8. ASSUME NEW a, NEW b, Above(a, b)' PROVE Above(a, b) \/ (a = s /\ b \in Range(library))
  <2>1. PICK i \in 1 .. n + 1, j \in 1 .. n + 1 : i < j /\ library'[i] = a /\ library'[j] = b
    BY <1>1, <1>3, <1>8, AboveWillBe
  <2>2. j \in 2 .. n + 1
    BY <2>1, <1>2
  <2>3. j - 1 \in 1 .. n /\ library[j - 1] = b
    BY <2>1, <2>2, <1>5
  <2>4. CASE i = 1
    BY <2>1, <2>3, <2>4, <1>1, <1>3 DEF Range
  <2>5. CASE i # 1
    <3>1. i \in 2 .. n + 1
      BY <2>5, <1>2
    <3>2. i - 1 \in 1 .. n /\ library[i - 1] = a /\ i - 1 < j - 1
      BY <3>1, <2>1, <2>2, <1>2, <1>5
    <3> QED BY <3>2, <2>3, <1>3, AboveIs
  <2> QED BY <2>4, <2>5
<1> QED BY <1>1, <1>6, <1>7, <1>8

LEMMA AboveRemoved ==
    ASSUME NEW p \in DOMAIN library, library \in Seq(Songs), IsInjective(library), library' = RemoveAt(library, p)
    PROVE  /\ library' \in Seq(Songs) /\ IsInjective(library')
           /\ Range(library') = Range(library) \ {library[p]}
           /\ \A a, b : Above(a, b)' => Above(a, b)
<1>1. PICK n \in Nat : n = Len(library)
  OBVIOUS
<1>2. p \in 1 .. n /\ DOMAIN library = 1 .. n
  BY <1>1
<1>3. /\ library' \in Seq(Songs) /\ Len(library') = n - 1
      /\ \A i \in 1 .. n - 1 : library'[i] = IF i < p THEN library[i] ELSE library[i + 1]
  <2>1. library' = SubSeq(library, 1, p - 1) \o SubSeq(library, p + 1, n)
    BY <1>1 DEF RemoveAt
  <2>2. PICK u, v : u = SubSeq(library, 1, p - 1) /\ v = SubSeq(library, p + 1, n)
    OBVIOUS
  <2>3. u \in Seq(Songs) /\ Len(u) = p - 1 /\ \A i \in 1 .. p - 1 : u[i] = library[i]
    BY <1>1, <1>2, <2>2
  <2>4. v \in Seq(Songs) /\ Len(v) = n - p /\ \A i \in 1 .. n - p : v[i] = library[p + i]
    BY <1>1, <1>2, <2>2
  <2>w. PICK w : w = u \o v
    OBVIOUS
  <2>x. /\ w \in Seq(Songs) /\ Len(w) = Len(u) + Len(v)
        /\ \A i \in 1 .. Len(u) : w[i] = u[i]
        /\ \A i \in 1 .. Len(v) : w[Len(u) + i] = v[i]
    BY <2>w, <2>3, <2>4, JoinOf
  <2>y. library' = w
    BY <2>1, <2>2, <2>w
  <2>5. library' \in Seq(Songs) /\ Len(library') = n - 1
    <3>1. (p - 1) + (n - p) = n - 1
      BY <1>2
    <3>2. Len(w) = n - 1
      BY <2>x, <2>3, <2>4, <3>1
    <3> QED BY <2>x, <2>y, <3>2
  <2>6. ASSUME NEW i \in 1 .. n - 1 PROVE library'[i] = IF i < p THEN library[i] ELSE library[i + 1]
    <3>1. CASE i < p
      <4>1. i \in 1 .. p - 1
        BY <3>1, <1>2
      <4>2. library'[i] = u[i]
        BY <2>x, <2>y, <2>3, <4>1
      <4> QED BY <3>1, <4>1, <4>2, <2>3
    <3>2. CASE ~(i < p)
      <4>1. i - (p - 1) \in 1 .. n - p /\ p + (i - (p - 1)) = i + 1 /\ (p - 1) + (i - (p - 1)) = i
        BY <3>2, <1>2
      <4>2. library'[i] = v[i - (p - 1)]
        <5>1. w[Len(u) + (i - (p - 1))] = v[i - (p - 1)]
          BY <2>x, <2>4, <4>1
        <5> QED BY <5>1, <2>y, <2>3, <4>1
      <4> QED BY <3>2, <4>1, <4>2, <2>4
    <3> QED BY <3>1, <3>2
  <2> QED BY <2>5, <2>6
<1>4. DOMAIN library' = 1 .. n - 1
  BY <1>1, <1>3
<1>5. PICK at : at = [i \in 1 .. n - 1 |-> IF i < p THEN i ELSE i + 1]
  OBVIOUS
<1>6. \A i \in 1 .. n - 1 : at[i] \in 1 .. n /\ at[i] # p /\ library'[i] = library[at[i]]
  BY <1>1, <1>2, <1>3, <1>5
<1>7. \A i, j \in 1 .. n - 1 : i < j => at[i] < at[j]
  BY <1>1, <1>2, <1>5
<1>8. IsInjective(library')
  <2> SUFFICES ASSUME NEW i \in 1 .. n - 1, NEW j \in 1 .. n - 1, library'[i] = library'[j] PROVE i = j
    BY <1>4 DEF IsInjective
  <2>1. at[i] = at[j]
    BY <1>2, <1>6 DEF IsInjective
  <2>2. at[i] \in Int /\ at[j] \in Int
    BY <1>6
  <2> QED BY <2>1, <2>2, <1>7
<1>9. Range(library') = Range(library) \ {library[p]}
  <2>1. ASSUME NEW x \in Range(library') PROVE x \in Range(library) \ {library[p]}
    <3>1. PICK i \in 1 .. n - 1 : x = library'[i]
      BY <1>4 DEF Range
    <3>2. at[i] \in 1 .. n /\ at[i] # p /\ x = library[at[i]]
      BY <1>6, <3>1
    <3> QED BY <3>2, <1>2 DEF Range, IsInjective
  <2>2. ASSUME NEW x \in Range(library) \ {library[p]} PROVE x \in Range(library')
    <3>1. PICK k \in 1 .. n : x = library[k]
      BY <1>2 DEF Range
    <3>2. k # p
      BY <3>1
    <3>3. CASE k < p
      <4>1. k \in 1 .. n - 1 /\ library'[k] = x
        BY <3>1, <3>3, <1>1, <1>2, <1>3
      <4> QED BY <4>1, <1>4 DEF Range
    <3>4. CASE k > p
      <4>1. k - 1 \in 1 .. n - 1 /\ ~(k - 1 < p) /\ (k - 1) + 1 = k
        BY <3>1, <3>4, <1>1, <1>2
      <4>2. library'[k - 1] = x
        BY <4>1, <3>1, <1>3
      <4> QED BY <4>1, <4>2, <1>4 DEF Range
    <3> QED BY <3>2, <3>3, <3>4, <1>1, <1>2
  <2> QED BY <2>1, <2>2
<1>10. ASSUME NEW a, NEW b, Above(a, b)' PROVE Above(a, b)
  <2>1. PICK i \in 1 .. n - 1, j \in 1 .. n - 1 : i < j /\ library'[i] = a /\ library'[j] = b
    BY <1>3, <1>4, <1>10, AboveWillBe
  <2>2. at[i] < at[j] /\ library[at[i]] = a /\ library[at[j]] = b
    BY <2>1, <1>6, <1>7
  <2>3. at[i] \in DOMAIN library /\ at[j] \in DOMAIN library
    BY <2>1, <1>2, <1>6
  <2> QED BY <2>2, <2>3, AboveIs
<1> QED BY <1>3, <1>8, <1>9, <1>10

\* The page that is read next continues what is read.
LEMMA PageContinues ==
    ASSUME library \in Seq(Songs), scanned \in Seq(Songs), anchor \in Seq(Songs), Len(scanned) <= Len(library),
           NEW all, all = scanned \o NextPage
    PROVE  /\ all \in Seq(Songs) /\ Len(all) \in Len(scanned) .. Len(library) /\ NextPage \in Seq(Songs)
           /\ \A k \in 1 .. Len(scanned) : all[k] = scanned[k]
           /\ \A k \in Len(scanned) + 1 .. Len(all) : all[k] = library[k]
           /\ Range(NextPage) = {library[k] : k \in Len(scanned) + 1 .. Len(all)}
<1>1. PICK n \in Nat, l \in Nat : n = Len(scanned) /\ l = Len(library) /\ n <= l
  OBVIOUS
<1>2. PICK limit \in Nat \ {0} : limit = NextLimit
  <2>1. Len(anchor) \in Nat /\ AnchorSize \in Nat \ {0} /\ Margin \in Nat \ {0} /\ PageLimit \in Nat \ {0}
    BY WatcherSizesAssumption
  <2>2. PICK la \in Nat : la = Len(anchor)
    BY <2>1
  <2>3. la + Margin - n \in Int
    BY <1>1, <2>1
  <2>4. CASE anchor = <<>>
    BY <2>1, <2>4 DEF NextLimit
  <2>5. CASE anchor # <<>> /\ la + Margin - n > 0
    <3>1. la + Margin - n \in Nat \ {0}
      BY <2>1, <2>2, <2>3, <2>5
    <3>2. NextLimit = la + Margin - n
      BY <2>2, <2>5, <1>1 DEF NextLimit
    <3> QED BY <3>1, <3>2
  <2>6. CASE anchor # <<>> /\ ~(la + Margin - n > 0)
    BY <2>1, <2>2, <2>6, <1>1 DEF NextLimit
  <2> QED BY <2>4, <2>5, <2>6
<1>3. PICK rest : rest = SubSeq(library, n + 1, l)
  OBVIOUS
<1>4. rest \in Seq(Songs) /\ Len(rest) = l - n /\ \A k \in 1 .. l - n : rest[k] = library[n + k]
  BY <1>1, <1>3
<1>5. PICK c \in 0 .. l - n : c = IF Len(rest) < limit THEN Len(rest) ELSE limit
  <2>1. Len(rest) \in 0 .. l - n /\ limit \in Nat
    BY <1>1, <1>4
  <2>2. CASE Len(rest) < limit
    BY <2>1, <2>2
  <2>3. CASE ~(Len(rest) < limit)
    <3>1. limit \in 0 .. l - n
      BY <2>1, <2>3, <1>1, <1>4
    <3> QED BY <2>3, <3>1
  <2> QED BY <2>2, <2>3
<1>6. PICK page : page = SubSeq(rest, 1, c)
  OBVIOUS
<1>7. NextPage = page
  BY <1>1, <1>2, <1>3, <1>5, <1>6 DEF NextPage, FirstOf
<1>8. page \in Seq(Songs) /\ Len(page) = c /\ \A k \in 1 .. c : page[k] = library[n + k]
  BY <1>1, <1>4, <1>5, <1>6
<1>9. all = scanned \o page
  BY <1>7
<1>j. /\ all \in Seq(Songs) /\ Len(all) = Len(scanned) + Len(page)
      /\ \A k \in 1 .. Len(scanned) : all[k] = scanned[k]
      /\ \A k \in 1 .. Len(page) : all[Len(scanned) + k] = page[k]
  <2>1. PICK u \in Seq(Songs), v \in Seq(Songs) : u = scanned /\ v = page
    BY <1>8
  <2>2. /\ u \o v \in Seq(Songs) /\ Len(u \o v) = Len(u) + Len(v)
        /\ \A i \in 1 .. Len(u) : (u \o v)[i] = u[i]
        /\ \A i \in 1 .. Len(v) : (u \o v)[Len(u) + i] = v[i]
    BY JoinOf
  <2>3. all = u \o v
    BY <2>1, <1>9
  <2> QED BY <2>1, <2>2, <2>3
<1>10. all \in Seq(Songs) /\ Len(all) = n + c /\ \A k \in 1 .. n : all[k] = scanned[k]
  BY <1>1, <1>8, <1>j
<1>11. ASSUME NEW k \in n + 1 .. n + c PROVE all[k] = library[k]
  <2>1. k - n \in 1 .. c /\ n + (k - n) = k
    BY <1>1, <1>5
  <2>2. all[k] = page[k - n]
    <3>1. all[n + (k - n)] = page[k - n]
      BY <1>1, <1>8, <1>j, <2>1
    <3> QED BY <3>1, <2>1
  <2> QED BY <2>1, <2>2, <1>8
<1>12. Range(page) = {library[k] : k \in n + 1 .. n + c}
  <2>1. DOMAIN page = 1 .. c
    BY <1>1, <1>5, <1>8
  <2>2. ASSUME NEW x \in Range(page) PROVE \E k \in n + 1 .. n + c : x = library[k]
    <3>1. PICK j \in 1 .. c : x = library[n + j]
      BY <2>1, <1>8 DEF Range
    <3>2. n + j \in n + 1 .. n + c
      BY <1>1, <1>5
    <3> QED BY <3>1, <3>2
  <2>3. ASSUME NEW k \in n + 1 .. n + c PROVE library[k] \in Range(page)
    <3>1. k - n \in 1 .. c /\ n + (k - n) = k
      BY <1>1, <1>5
    <3> QED BY <3>1, <2>1, <1>8 DEF Range
  <2> QED BY <2>2, <2>3
<1>13. Len(all) \in n .. l
  BY <1>1, <1>5, <1>10
<1>14. \A k \in n + 1 .. Len(all) : all[k] = library[k]
  BY <1>10, <1>11
<1>15. Range(NextPage) = {library[k] : k \in n + 1 .. Len(all)}
  BY <1>7, <1>10, <1>12
<1>16. NextPage \in Seq(Songs)
  BY <1>7, <1>8
<1> QED BY <1>1, <1>10, <1>13, <1>14, <1>15, <1>16

LEMMA LastIn == ASSUME NEW x \in Seq(Songs), x # <<>> PROVE Len(x) \in DOMAIN x /\ x[Len(x)] \in Range(x)
<1>1. Len(x) \in DOMAIN x
  OBVIOUS
<1> QED BY <1>1 DEF Range

LEMMA PassStays ==
    ASSUME UNCHANGED <<scanned, anchor, toLookUp, urls, pending>>
    PROVE  /\ NewOf(Unsettled)' = NewOf(Unsettled)
           /\ {scanned[i] : i \in Added(scanned)}' = {scanned[i] : i \in Added(scanned)}
<1>1. Added(scanned)' = Added(scanned)
  BY DEF Added, Oldest, Range
<1>2. Unsettled' = Unsettled
  BY DEF Unsettled
<1> QED BY <1>1, <1>2 DEF NewOf

\* A song comes in on top: nothing the watcher remembers is it, or is below it anew.
LEMMA AddKeeps == ASSUME Steady, SyncInv, NEW s \in Songs, AddSong(s) PROVE SyncInv'
<1>ty. LibraryTyped /\ Memory /\ PassAnchor /\ NewOnTop /\ InOrder /\ ScanGoesOn /\ Submitting
  BY DEF SyncInv
<1>1. /\ s \notin Range(library) /\ library' = <<s>> \o library /\ newcomers' = newcomers \union {s} /\ had' = had \ {s}
      /\ UNCHANGED <<stored, generation, pc, myGen, anchor, scanned, toLookUp, urls, pending, removed,
                     standing, forgotten>>
  BY DEF AddSong, passVars
<1>2. s \notin removed /\ ~Outruns
  BY DEF AddSong, Steady
<1>3. s \notin Seen
  BY <1>1, <1>2 DEF Seen
<1>4. /\ library' \in Seq(Songs) /\ IsInjective(library') /\ Range(library') = Range(library) \union {s}
      /\ Len(library') = Len(library) + 1 /\ library'[1] = s
      /\ \A i \in 2 .. Len(library) + 1 : library'[i] = library[i - 1]
      /\ \A a, b : Above(a, b)' => Above(a, b) \/ (a = s /\ b \in Range(library))
  <2>1. library \in Seq(Songs) /\ IsInjective(library)
    BY <1>ty DEF LibraryTyped
  <2> QED BY <2>1, <1>1, AboveAdded
<1>5. LibraryTyped'
  <2>1. Seen' = Seen \union {s}
    BY <1>1, <1>4 DEF Seen
  <2>2. Range(library') \intersect removed' = {} /\ newcomers' \subseteq Range(library')
    BY <1>ty, <1>1, <1>2, <1>4 DEF LibraryTyped
  <2>3. /\ Range(stored') \subseteq Seen' /\ Range(anchor') \subseteq Seen'
        /\ standing' \subseteq Seen' /\ had' \subseteq Seen'
    BY <1>ty, <1>1, <2>1 DEF LibraryTyped, Range
  <2> QED BY <1>ty, <1>1, <1>4, <2>2, <2>3 DEF LibraryTyped
<1>6. ASSUME NEW x \in Seq(Songs), Range(x) \subseteq Seen
      PROVE  /\ SkipsNothing(x) => SkipsNothing(x)'
             /\ Baseline(x) => Baseline(x)'
  <2>1. CASE x = <<>>
    BY <2>1 DEF SkipsNothing, Baseline
  <2>2. CASE x # <<>>
    <3>1. x[Len(x)] \in Range(x) /\ x[Len(x)] # s
      BY <2>2, <1>3, <1>6, LastIn
    <3>2. ASSUME SkipsNothing(x), NEW t \in newcomers' PROVE t \notin Range(x) /\ ~Above(x[Len(x)], t)'
      <4>1. CASE t = s
        <5>1. ~Above(x[Len(x)], s)
          BY <1>1, <1>ty, AboveIs DEF Range, LibraryTyped
        <5> QED BY <4>1, <5>1, <3>1, <1>3, <1>4, <1>6
      <4>2. CASE t \in newcomers
        BY <4>2, <3>1, <3>2, <2>2, <1>4 DEF SkipsNothing
      <4> QED BY <4>1, <4>2, <1>1
    <3>3. ASSUME Baseline(x), NEW t \in had', Above(t, x[Len(x)])' PROVE t \in Range(x)
      <4>1. t \in had /\ t # s
        BY <3>3, <1>1
      <4>2. Above(t, x[Len(x)])
        BY <3>3, <4>1, <1>4
      <4> QED BY <4>1, <4>2, <3>3, <2>2 DEF Baseline
    <3> QED BY <3>2, <3>3, <2>2 DEF SkipsNothing, Baseline
  <2> QED BY <2>1, <2>2
<1>7. PICK st \in Seq(Songs), an \in Seq(Songs), sc \in Seq(Songs) : st = stored /\ an = anchor /\ sc = scanned
  BY <1>ty DEF LibraryTyped
<1>8. stored' = st /\ anchor' = an /\ scanned' = sc
  BY <1>1, <1>7
<1>9. Memory'
  <2>1. SkipsNothing(st)' /\ Baseline(st)'
    BY <1>ty, <1>6, <1>7 DEF Memory, LibraryTyped
  <2> QED BY <2>1, <1>ty, <1>1, <1>7, <1>8 DEF Memory, SkipsNothing, Baseline, Above
<1>10. PassAnchor'
  <2>1. pc = "read" => SkipsNothing(an)' /\ Baseline(an)'
    BY <1>ty, <1>6, <1>7 DEF PassAnchor, LibraryTyped
  <2>2. pc' = "read" => SkipsNothing(anchor)' /\ Baseline(anchor)'
    BY <2>1, <1>1, <1>8 DEF SkipsNothing, Baseline, Above
  <2> QED BY <2>2, <1>ty, <1>1 DEF PassAnchor
<1>11. NewOnTop'
  <2> SUFFICES ASSUME NEW a \in standing, NEW b \in Range(library') \ standing, Above(a, b)' PROVE FALSE
    BY <1>1 DEF NewOnTop
  <2>1. a # s
    BY <1>ty, <1>3 DEF LibraryTyped
  <2>2. Above(a, b)
    BY <2>1, <1>4
  <2>3. b \in Range(library)
    BY <2>2, <1>ty, AboveIs DEF Range, LibraryTyped
  <2> QED BY <2>2, <2>3, <1>ty DEF NewOnTop
<1>12. InOrder'
  <2>1. ASSUME NEW k \in DOMAIN sc, NEW a \in standing, Above(a, sc[k])' PROVE \E n \in 1 .. k : sc[n] = a
    <3>1. a # s
      BY <1>ty, <1>3 DEF LibraryTyped
    <3>2. Above(a, sc[k])
      BY <2>1, <3>1, <1>4
    <3> QED BY <3>2, <1>ty, <1>7 DEF InOrder
  <2>2. Range(sc) \subseteq standing
    BY <1>ty, <1>7 DEF InOrder
  <2> QED BY <2>1, <2>2, <1>1, <1>8 DEF InOrder, Range, Above
<1>13. ScanGoesOn'
  <2> SUFFICES ASSUME pc = "read", sc # <<>>
               PROVE  /\ Len(sc) <= Len(library') /\ standing \subseteq Range(library')
                      /\ \A i \in DOMAIN library' : i > Len(sc) => library'[i] \in standing
                      /\ \A i \in DOMAIN library' : i <= Len(sc) /\ library'[i] \in standing => library'[i] \in Range(sc)
    BY <1>1, <1>8 DEF ScanGoesOn, Range
  <2>1. PICK n \in Nat, l \in Nat : n = Len(sc) /\ l = Len(library)
    BY <1>ty DEF LibraryTyped
  <2>2. /\ n <= l /\ DOMAIN library = 1 .. l /\ DOMAIN library' = 1 .. l + 1
        /\ \A i \in 1 .. l : i > n => library[i] \in standing
        /\ \A i \in 1 .. l : i <= n /\ library[i] \in standing => library[i] \in Range(sc)
    <3>1. n <= l /\ DOMAIN library = 1 .. l
      BY <1>ty, <1>7, <2>1 DEF ScanGoesOn, LibraryTyped
    <3>2. DOMAIN library' = 1 .. l + 1
      BY <1>4, <2>1
    <3> QED BY <1>ty, <1>7, <2>1, <3>1, <3>2 DEF ScanGoesOn
  <2>3. n \in 1 .. l /\ library[n] \in standing
    BY <1>2, <1>7, <2>1, <2>2 DEF Outruns
  <2>4. ASSUME NEW i \in 1 .. l + 1, i > n PROVE library'[i] \in standing
    <3>1. i \in 2 .. l + 1 /\ i - 1 \in 1 .. l /\ (i - 1 = n \/ i - 1 > n)
      BY <2>3, <2>4
    <3>2. library'[i] = library[i - 1]
      BY <3>1, <1>4, <2>1
    <3> QED BY <3>1, <3>2, <2>2, <2>3
  <2>5. ASSUME NEW i \in 1 .. l + 1, i <= n, library'[i] \in standing PROVE library'[i] \in Range(sc)
    <3>1. i # 1
      BY <2>5, <1>ty, <1>3, <1>4 DEF LibraryTyped
    <3>2. i \in 2 .. l + 1 /\ i - 1 \in 1 .. l /\ i - 1 <= n
      BY <3>1, <2>5
    <3>3. library'[i] = library[i - 1]
      BY <3>2, <1>4, <2>1
    <3> QED BY <3>2, <3>3, <2>2, <2>5
  <2>6. standing \subseteq Range(library')
    BY <1>ty, <1>4, <1>7 DEF ScanGoesOn
  <2> QED BY <2>1, <2>2, <2>4, <2>5, <2>6, <1>4
<1>14. Submitting'
  <2> SUFFICES ASSUME pc = "submit"
               PROVE  /\ toLookUp \subseteq DOMAIN scanned
                      /\ {scanned[i] : i \in Added(scanned)} \intersect had' = {}
                      /\ \A t \in newcomers' : \/ t \in NewOf(Unsettled)
                                               \/ t \notin Range(sc) /\ \A k \in DOMAIN sc : ~Above(sc[k], t)'
    <3>1. /\ NewOf(Unsettled)' = NewOf(Unsettled)
          /\ {scanned[i] : i \in Added(scanned)}' = {scanned[i] : i \in Added(scanned)}
      BY <1>1, PassStays
    <3> QED BY <3>1, <1>1, <1>7, <1>8 DEF Submitting, Range, Above
  <2>1. /\ toLookUp \subseteq DOMAIN scanned /\ {scanned[i] : i \in Added(scanned)} \intersect had' = {}
    BY <1>ty, <1>1 DEF Submitting
  <2>2. \A k \in DOMAIN sc : sc[k] # s
    BY <1>ty, <1>3, <1>7 DEF InOrder, LibraryTyped, Range
  <2>3. ASSUME NEW t \in newcomers' PROVE \/ t \in NewOf(Unsettled)
                                          \/ t \notin Range(sc) /\ \A k \in DOMAIN sc : ~Above(sc[k], t)'
    <3>1. CASE t = s
      <4>1. \A k \in DOMAIN sc : ~Above(sc[k], s)
        BY <1>1, <1>ty, AboveIs DEF Range, LibraryTyped
      <4> QED BY <3>1, <4>1, <2>2, <1>4 DEF Range
    <3>2. CASE t \in newcomers
      <4>1. \/ t \in NewOf(Unsettled)
            \/ t \notin Range(sc) /\ \A k \in DOMAIN sc : ~Above(sc[k], t)
        BY <3>2, <1>ty, <1>7 DEF Submitting
      <4> QED BY <4>1, <2>2, <1>4
    <3> QED BY <3>1, <3>2, <1>1
  <2> QED BY <2>1, <2>3
<1> QED BY <1>5, <1>9, <1>10, <1>11, <1>12, <1>13, <1>14 DEF SyncInv

\* A song goes; those that stay keep their order.
LEMMA RemoveKeeps == ASSUME Steady, SyncInv, NEW s \in Songs, RemoveSong(s) PROVE SyncInv'
<1>ty. LibraryTyped /\ Memory /\ PassAnchor /\ NewOnTop /\ InOrder /\ ScanGoesOn /\ Submitting
  BY DEF SyncInv
<1>1. /\ removed' = removed \union {s} /\ newcomers' = newcomers \ {s}
      /\ UNCHANGED <<stored, generation, pc, myGen, anchor, scanned, toLookUp, urls, pending,
                     standing, had, forgotten>>
      /\ s \in Range(library) /\ ~(pc = "read" /\ scanned # <<>>)
  BY DEF RemoveSong, passVars, Steady
<1>2. PICK p \in DOMAIN library : library[p] = s /\ library' = RemoveAt(library, p)
  BY DEF RemoveSong
<1>3. /\ library' \in Seq(Songs) /\ IsInjective(library') /\ Range(library') = Range(library) \ {s}
      /\ \A a, b : Above(a, b)' => Above(a, b)
  <2>1. library \in Seq(Songs) /\ IsInjective(library)
    BY <1>ty DEF LibraryTyped
  <2> QED BY <2>1, <1>2, AboveRemoved
<1>4. LibraryTyped'
  <2>1. Seen' = Seen
    BY <1>1, <1>3 DEF Seen
  <2>2. Range(library') \intersect removed' = {} /\ newcomers' \subseteq Range(library')
    BY <1>ty, <1>1, <1>3 DEF LibraryTyped
  <2>3. /\ Range(stored') \subseteq Seen' /\ Range(anchor') \subseteq Seen'
        /\ standing' \subseteq Seen' /\ had' \subseteq Seen'
    BY <1>ty, <1>1, <2>1 DEF LibraryTyped, Range
  <2> QED BY <1>ty, <1>1, <1>3, <2>2, <2>3 DEF LibraryTyped
<1>5. Memory' /\ PassAnchor'
  BY <1>ty, <1>1, <1>3 DEF Memory, PassAnchor, SkipsNothing, Baseline, Above, Range
<1>6. NewOnTop'
  BY <1>ty, <1>1, <1>3 DEF NewOnTop
<1>7. PICK sc \in Seq(Songs) : sc = scanned /\ scanned' = sc
  BY <1>ty, <1>1 DEF LibraryTyped
<1>8. InOrder'
  <2>1. ASSUME NEW k \in DOMAIN sc, NEW a \in standing, Above(a, sc[k])' PROVE \E n \in 1 .. k : sc[n] = a
    <3>1. Above(a, sc[k])
      BY <2>1, <1>3
    <3> QED BY <3>1, <1>ty, <1>7 DEF InOrder
  <2>2. Range(sc) \subseteq standing
    BY <1>ty, <1>7 DEF InOrder
  <2> QED BY <2>1, <2>2, <1>1, <1>7 DEF InOrder, Range, Above
<1>9. ScanGoesOn'
  BY <1>1 DEF ScanGoesOn
<1>10. Submitting'
  <2> SUFFICES ASSUME pc = "submit"
               PROVE  /\ toLookUp \subseteq DOMAIN scanned
                      /\ {scanned[i] : i \in Added(scanned)} \intersect had = {}
                      /\ \A t \in newcomers' : \/ t \in NewOf(Unsettled)
                                               \/ t \notin Range(sc) /\ \A k \in DOMAIN sc : ~Above(sc[k], t)'
    <3>1. /\ NewOf(Unsettled)' = NewOf(Unsettled)
          /\ {scanned[i] : i \in Added(scanned)}' = {scanned[i] : i \in Added(scanned)}
      BY <1>1, PassStays
    <3> QED BY <3>1, <1>1, <1>7 DEF Submitting, Range, Above
  <2>1. /\ toLookUp \subseteq DOMAIN scanned /\ {scanned[i] : i \in Added(scanned)} \intersect had = {}
    BY <1>ty DEF Submitting
  <2>2. ASSUME NEW t \in newcomers' PROVE \/ t \in NewOf(Unsettled)
                                          \/ t \notin Range(sc) /\ \A k \in DOMAIN sc : ~Above(sc[k], t)'
    <3>1. \/ t \in NewOf(Unsettled)
          \/ t \notin Range(sc) /\ \A k \in DOMAIN sc : ~Above(sc[k], t)
      BY <1>ty, <1>1, <1>7 DEF Submitting
    <3> QED BY <3>1, <1>3
  <2> QED BY <2>1, <2>2
<1> QED BY <1>4, <1>5, <1>6, <1>8, <1>9, <1>10 DEF SyncInv

LEMMA LoadAnchorKeeps == ASSUME SyncInv, LoadAnchor PROVE SyncInv'
<1>ty. LibraryTyped /\ Memory /\ PassAnchor /\ NewOnTop /\ InOrder /\ ScanGoesOn /\ Submitting
  BY DEF SyncInv
<1>1. /\ pc = "idle" /\ pc' = "read" /\ myGen' = generation /\ anchor' = stored /\ forgotten' = FALSE
      /\ UNCHANGED <<library, stored, generation, scanned, toLookUp, urls, pending, removed, newcomers, standing, had>>
  BY DEF LoadAnchor
<1>2. scanned = <<>> /\ toLookUp = {} /\ urls = {} /\ pending = {}
  BY <1>ty, <1>1 DEF PassAnchor
<1>3. Order' = Order /\ Seen' = Seen
  BY <1>1 DEF Order, Seen
<1>4. LibraryTyped'
  BY <1>ty, <1>1, <1>3 DEF LibraryTyped, Range, IsInjective
<1>5. Memory' /\ PassAnchor'
  <2>1. generation \in Nat
    BY <1>ty DEF LibraryTyped
  <2>2. Memory'
    BY <1>ty, <1>1, <1>3 DEF Memory, SkipsNothing, Baseline, Above, Range
  <2>3. SkipsNothing(anchor)' /\ Baseline(anchor)'
    BY <1>ty, <1>1, <1>3 DEF Memory, SkipsNothing, Baseline, Above, Range
  <2> QED BY <1>1, <1>2, <2>1, <2>2, <2>3 DEF PassAnchor
<1>6. NewOnTop'
  BY <1>ty, <1>1, <1>3 DEF NewOnTop, Above, Range
<1>7. InOrder' /\ ScanGoesOn' /\ Submitting'
  BY <1>1, <1>2 DEF InOrder, ScanGoesOn, Submitting, Range
<1> QED BY <1>4, <1>5, <1>6, <1>7 DEF SyncInv

\* Whatever ends a pass and leaves the memory as it is.
LEMMA EndPassKeeps ==
    ASSUME SyncInv, EndPass, UNCHANGED <<library, stored, removed, newcomers, standing, had, forgotten>>, generation' \in Nat
    PROVE  SyncInv'
<1>ty. LibraryTyped /\ Memory /\ PassAnchor /\ NewOnTop /\ InOrder /\ ScanGoesOn /\ Submitting
  BY DEF SyncInv
<1>1. pc' = "idle" /\ myGen' = 0 /\ anchor' = <<>> /\ scanned' = <<>> /\ toLookUp' = {} /\ urls' = {} /\ pending' = {}
  BY DEF EndPass
<1>2. Order' = Order /\ Seen' = Seen
  BY DEF Order, Seen
<1>3. LibraryTyped'
  <2>1. /\ library' \in Seq(Songs) /\ stored' \in Seq(Songs) /\ anchor' \in Seq(Songs) /\ scanned' \in Seq(Songs)
        /\ IsInjective(library') /\ Range(library') \intersect removed' = {} /\ newcomers' \subseteq Range(library')
        /\ Len(stored') <= AnchorSize
    BY <1>ty, <1>1 DEF LibraryTyped, Range, IsInjective
  <2>2. Range(stored') \subseteq Seen' /\ standing' \subseteq Seen' /\ had' \subseteq Seen'
    BY <1>ty, <1>2 DEF LibraryTyped, Range
  <2>3. Range(anchor') \subseteq Seen'
    BY <1>1 DEF Range
  <2> QED BY <1>1, <2>1, <2>2, <2>3 DEF LibraryTyped
<1>4. Memory' /\ NewOnTop'
  BY <1>ty, <1>2 DEF Memory, SkipsNothing, Baseline, NewOnTop, Above, Range
<1>5. PassAnchor' /\ InOrder' /\ ScanGoesOn' /\ Submitting'
  BY <1>1 DEF PassAnchor, InOrder, ScanGoesOn, Submitting, Range
<1> QED BY <1>3, <1>4, <1>5 DEF SyncInv

LEMMA ResetKeeps == ASSUME SyncInv, ResetAnchor PROVE SyncInv'
<1>ty. LibraryTyped /\ Memory /\ PassAnchor /\ NewOnTop /\ InOrder /\ ScanGoesOn /\ Submitting
  BY DEF SyncInv
<1>1. /\ stored' = <<>> /\ generation' = generation + 1 /\ newcomers' = {} /\ forgotten' = TRUE
      /\ UNCHANGED <<library, pc, myGen, anchor, scanned, toLookUp, urls, pending, removed, standing, had>>
  BY DEF ResetAnchor, passVars
<1>2. Order' = Order /\ Seen' = Seen
  BY <1>1 DEF Order, Seen
<1>g. generation \in Nat /\ myGen \in Nat /\ generation' \in Nat
  BY <1>ty, <1>1 DEF LibraryTyped
<1>3. LibraryTyped'
  <2>1. /\ library' \in Seq(Songs) /\ stored' \in Seq(Songs) /\ anchor' \in Seq(Songs) /\ scanned' \in Seq(Songs)
        /\ IsInjective(library') /\ Range(library') \intersect removed' = {} /\ newcomers' \subseteq Range(library')
    BY <1>ty, <1>1 DEF LibraryTyped, Range, IsInjective
  <2>2. Range(anchor') \subseteq Seen' /\ standing' \subseteq Seen' /\ had' \subseteq Seen'
    BY <1>ty, <1>1, <1>2 DEF LibraryTyped, Range
  <2>3. Range(stored') \subseteq Seen'
    BY <1>1 DEF Range
  <2>4. Len(stored') <= AnchorSize
    BY <1>1, WatcherSizesAssumption
  <2>5. pc' \in {"idle", "read", "submit", "reanchor"}
    BY <1>ty, <1>1 DEF LibraryTyped
  <2> QED BY <1>1, <1>g, <2>1, <2>2, <2>3, <2>4, <2>5 DEF LibraryTyped
<1>4. Memory'
  BY <1>1 DEF Memory, SkipsNothing, Baseline
<1>5. PassAnchor'
  <2>1. pc # "idle" => myGen <= generation' /\ myGen # generation'
    BY <1>ty, <1>1, <1>g DEF PassAnchor
  <2>2. pc = "read" => SkipsNothing(anchor)' /\ Baseline(anchor)'
    BY <1>ty, <1>1, <1>2 DEF PassAnchor, SkipsNothing, Baseline, Above, Range
  <2> QED BY <1>ty, <1>1, <2>1, <2>2 DEF PassAnchor
<1>6. NewOnTop' /\ InOrder' /\ ScanGoesOn'
  BY <1>ty, <1>1, <1>2 DEF NewOnTop, InOrder, ScanGoesOn, Above, Range
<1>7. Submitting'
  <2>1. {scanned[i] : i \in Added(scanned)}' = {scanned[i] : i \in Added(scanned)}
    BY <1>1, PassStays
  <2> QED BY <2>1, <1>ty, <1>1 DEF Submitting
<1> QED BY <1>3, <1>4, <1>5, <1>6, <1>7 DEF SyncInv

\* The anchor moves to what the pass has read.
LEMMA SaveKeeps == ASSUME SyncInv, SaveAnchor PROVE SyncInv'
<1>ty. LibraryTyped /\ Memory /\ PassAnchor /\ NewOnTop /\ InOrder /\ ScanGoesOn /\ Submitting
  BY DEF SyncInv
<1>1. /\ pc \in {"submit", "reanchor"} /\ EndPass
      /\ pc = "submit" => toLookUp = {} /\ urls = {} /\ pending = {}
      /\ UNCHANGED <<library, generation, removed, standing, forgotten>>
  BY DEF SaveAnchor
<1>2. CASE ~NotReset
  <2>1. UNCHANGED <<stored, had, newcomers>>
    BY <1>2 DEF SaveAnchor
  <2>2. generation' \in Nat
    BY <1>ty, <1>1 DEF LibraryTyped
  <2> QED BY <1>1, <2>1, <2>2, EndPassKeeps
<1>3. CASE NotReset
  <2>1. /\ stored' = FirstOf(scanned, AnchorSize) /\ had' = standing
        /\ newcomers' = IF pc = "reanchor" THEN newcomers \ standing ELSE newcomers
        /\ ~forgotten
    BY <1>ty, <1>1, <1>3 DEF SaveAnchor, NotReset, PassAnchor
  <2>2. /\ pc' = "idle" /\ myGen' = 0 /\ anchor' = <<>> /\ scanned' = <<>> /\ toLookUp' = {} /\ urls' = {} /\ pending' = {}
    BY <1>1 DEF EndPass
  <2>3. PICK sc \in Seq(Songs) : sc = scanned
    BY <1>ty DEF LibraryTyped
  <2>4. PICK st \in Seq(Songs) : /\ st = FirstOf(sc, AnchorSize)
                                 /\ Len(st) <= AnchorSize /\ DOMAIN st = 1 .. Len(st) /\ Len(st) <= Len(sc)
                                 /\ \A k \in 1 .. Len(st) : st[k] = sc[k]
    <3>1. PICK m \in 0 .. Len(sc) : m = (IF Len(sc) < AnchorSize THEN Len(sc) ELSE AnchorSize) /\ m <= AnchorSize
      <4>1. Len(sc) \in Nat /\ AnchorSize \in Nat
        BY WatcherSizesAssumption
      <4>2. CASE Len(sc) < AnchorSize
        BY <4>1, <4>2
      <4>3. CASE ~(Len(sc) < AnchorSize)
        BY <4>1, <4>3
      <4> QED BY <4>2, <4>3
    <3>2. FirstOf(sc, AnchorSize) = SubSeq(sc, 1, m)
      BY <3>1 DEF FirstOf
    <3>3. /\ SubSeq(sc, 1, m) \in Seq(Songs) /\ Len(SubSeq(sc, 1, m)) = m
          /\ \A k \in 1 .. m : SubSeq(sc, 1, m)[k] = sc[k]
      OBVIOUS
    <3>4. PICK st : st = SubSeq(sc, 1, m)
      OBVIOUS
    <3>5. st \in Seq(Songs) /\ Len(st) = m /\ DOMAIN st = 1 .. m /\ \A k \in 1 .. m : st[k] = sc[k]
      BY <3>3, <3>4
    <3>6. st = FirstOf(sc, AnchorSize) /\ Len(st) <= AnchorSize /\ Len(st) <= Len(sc)
      BY <3>1, <3>2, <3>4, <3>5
    <3> QED BY <3>5, <3>6
  <2>5. stored' = st /\ Range(st) \subseteq Range(sc)
    BY <2>1, <2>3, <2>4 DEF Range
  <2>6. Order' = Order /\ Seen' = Seen
    BY <1>1 DEF Order, Seen
  <2>7. LibraryTyped'
    <3>1. /\ library' \in Seq(Songs) /\ stored' \in Seq(Songs) /\ anchor' \in Seq(Songs) /\ scanned' \in Seq(Songs)
          /\ IsInjective(library') /\ Range(library') \intersect removed' = {} /\ newcomers' \subseteq Range(library')
      BY <1>ty, <1>1, <2>1, <2>2, <2>5 DEF LibraryTyped, Range, IsInjective
    <3>2. standing' \subseteq Seen' /\ had' \subseteq Seen'
      BY <1>ty, <1>1, <2>1, <2>6 DEF LibraryTyped
    <3>3. Range(stored') \subseteq Seen'
      BY <1>ty, <2>3, <2>5, <2>6 DEF LibraryTyped, InOrder
    <3>4. Range(anchor') \subseteq Seen'
      BY <2>2 DEF Range
    <3>5. Len(stored') <= AnchorSize
      BY <2>4, <2>5
    <3>6. generation' \in Nat
      BY <1>ty, <1>1 DEF LibraryTyped
    <3> QED BY <2>2, <3>1, <3>2, <3>3, <3>4, <3>5, <3>6 DEF LibraryTyped
  <2>8. st # <<>> => Len(st) \in 1 .. Len(st) /\ Len(st) \in DOMAIN sc /\ st[Len(st)] = sc[Len(st)]
    <3>1. Len(st) \in Nat /\ Len(sc) \in Nat /\ DOMAIN sc = 1 .. Len(sc) /\ (st # <<>> => Len(st) # 0)
      OBVIOUS
    <3> QED BY <2>4, <3>1
  <2>9. SkipsNothing(stored)'
    <3>1. ASSUME NEW t \in newcomers', st # <<>> PROVE t \notin Range(st) /\ ~Above(st[Len(st)], t)
      <4>1. CASE pc = "submit"
        <5>1. NewOf(Unsettled) = {}
          BY <1>1, <4>1 DEF NewOf, Unsettled
        <5>2. t \notin Range(sc) /\ \A k \in DOMAIN sc : ~Above(sc[k], t)
          BY <1>ty, <2>1, <2>3, <4>1, <5>1 DEF Submitting
        <5> QED BY <5>2, <3>1, <2>5, <2>8
      <4>2. CASE pc = "reanchor"
        <5>1. t \in Range(library) \ standing
          BY <1>ty, <2>1, <4>2 DEF LibraryTyped
        <5>2. t \notin Range(sc)
          BY <1>ty, <2>3, <5>1 DEF InOrder
        <5>3. sc[Len(st)] \in standing
          BY <1>ty, <2>3, <2>8, <3>1 DEF InOrder, Range
        <5>4. ~Above(sc[Len(st)], t)
          BY <1>ty, <5>1, <5>3 DEF NewOnTop
        <5> QED BY <5>2, <5>4, <3>1, <2>5, <2>8
      <4> QED BY <1>1, <4>1, <4>2
    <3> QED BY <3>1, <2>5, <2>6 DEF SkipsNothing, Above, Range
  <2>10. Baseline(stored)'
    <3>1. ASSUME NEW t \in standing, st # <<>>, Above(t, st[Len(st)]) PROVE t \in Range(st)
      <4>1. PICK n \in 1 .. Len(st) : sc[n] = t
        BY <3>1, <1>ty, <2>3, <2>8 DEF InOrder
      <4> QED BY <4>1, <2>4 DEF Range
    <3> QED BY <3>1, <2>1, <2>5, <2>6 DEF Baseline, Above, Range
  <2>11. Memory'
    BY <2>1, <2>9, <2>10, <1>1 DEF Memory
  <2>12. NewOnTop'
    BY <1>ty, <1>1, <2>6 DEF NewOnTop, Above, Range
  <2>13. PassAnchor' /\ InOrder' /\ ScanGoesOn' /\ Submitting'
    BY <2>2 DEF PassAnchor, InOrder, ScanGoesOn, Submitting, Range
  <2> QED BY <2>7, <2>11, <2>12, <2>13 DEF SyncInv
<1> QED BY <1>2, <1>3

\* Some albums are settled; the others are still the pass's.
LEMMA SettleKeeps ==
    ASSUME SyncInv, pc = "submit", NEW S, newcomers' = newcomers \ NewOf(S), toLookUp' \subseteq toLookUp,
           Unsettled \ S \subseteq Unsettled',
           UNCHANGED <<library, stored, generation, pc, myGen, anchor, scanned, removed, standing, had, forgotten>>
    PROVE  SyncInv'
<1>ty. LibraryTyped /\ Memory /\ PassAnchor /\ NewOnTop /\ InOrder /\ ScanGoesOn /\ Submitting
  BY DEF SyncInv
<1>1. Order' = Order /\ Seen' = Seen /\ Added(scanned)' = Added(scanned)
  BY DEF Order, Seen, Added, Oldest, Range
<1>2. LibraryTyped'
  BY <1>ty, <1>1 DEF LibraryTyped, Range, IsInjective
<1>3. Memory' /\ NewOnTop' /\ InOrder' /\ ScanGoesOn'
  BY <1>ty, <1>1 DEF Memory, SkipsNothing, Baseline, NewOnTop, InOrder, ScanGoesOn, Above, Range
<1>4. PassAnchor'
  BY <1>ty DEF PassAnchor
<1>5. Submitting'
  <2>1. toLookUp' \subseteq DOMAIN scanned
    BY <1>ty DEF Submitting
  <2>2. {scanned[i] : i \in Added(scanned)}' = {scanned[i] : i \in Added(scanned)}
    BY <1>1
  <2>3. ASSUME NEW t \in newcomers' PROVE \/ t \in NewOf(Unsettled)'
                                          \/ t \notin Range(scanned) /\ \A k \in DOMAIN scanned : ~Above(scanned[k], t)
    <3>1. t \in newcomers /\ t \notin NewOf(S)
      OBVIOUS
    <3>2. CASE t \in NewOf(Unsettled)
      <4>1. PICK j \in Added(scanned) : t = scanned[j] /\ AlbumOf[scanned[j]] \in Unsettled
        BY <3>2 DEF NewOf
      <4>2. AlbumOf[scanned[j]] \in Unsettled'
        BY <3>1, <4>1 DEF NewOf
      <4>3. t = scanned'[j] /\ j \in Added(scanned)' /\ AlbumOf[scanned'[j]] \in Unsettled'
        BY <1>1, <4>1, <4>2
      <4> QED BY <4>3 DEF NewOf
    <3>3. CASE t \notin NewOf(Unsettled)
      BY <1>ty, <3>1, <3>3 DEF Submitting
    <3> QED BY <3>2, <3>3
  <2>4. {scanned[i] : i \in Added(scanned)} \intersect had = {}
    BY <1>ty DEF Submitting
  <2> QED BY <2>1, <2>2, <2>3, <2>4, <1>1 DEF Submitting, Range, Above
<1> QED BY <1>2, <1>3, <1>4, <1>5 DEF SyncInv

LEMMA LookupKeeps == ASSUME SyncInv, Lookup \/ SubmitAlbums PROVE SyncInv'
<1>1. CASE Lookup
  <2>1. PICK i \in toLookUp : \E a :
           /\ a = AlbumOf[scanned[i]] /\ pc = "submit" /\ toLookUp' = toLookUp \ {i}
           /\ \/ newcomers' = newcomers \ NewOf({a}) /\ UNCHANGED <<urls, pending>>
              \/ pending' = pending \union {a} /\ UNCHANGED <<urls, newcomers>>
              \/ urls' = urls \union {a} /\ UNCHANGED <<pending, newcomers>>
           /\ UNCHANGED <<library, stored, generation, pc, myGen, anchor, scanned, removed, standing, had, forgotten>>
    BY <1>1 DEF Lookup
  <2>a. PICK a :
           /\ a = AlbumOf[scanned[i]] /\ pc = "submit" /\ toLookUp' = toLookUp \ {i}
           /\ \/ newcomers' = newcomers \ NewOf({a}) /\ UNCHANGED <<urls, pending>>
              \/ pending' = pending \union {a} /\ UNCHANGED <<urls, newcomers>>
              \/ urls' = urls \union {a} /\ UNCHANGED <<pending, newcomers>>
           /\ UNCHANGED <<library, stored, generation, pc, myGen, anchor, scanned, removed, standing, had, forgotten>>
    BY <2>1
  <2>2. Unsettled' = {AlbumOf[scanned[j]] : j \in toLookUp \ {i}} \union urls' \union pending'
    BY <2>a DEF Unsettled
  <2>3. CASE newcomers' = newcomers \ NewOf({a}) /\ UNCHANGED <<urls, pending>>
    <3>1. Unsettled \ {a} \subseteq Unsettled'
      BY <2>a, <2>2, <2>3 DEF Unsettled
    <3> QED BY <2>a, <2>3, <3>1, SettleKeeps
  <2>4. CASE UNCHANGED newcomers /\ urls' \union pending' = urls \union pending \union {a}
    <3>1. Unsettled \ {} \subseteq Unsettled'
      BY <2>a, <2>2, <2>4 DEF Unsettled
    <3>2. newcomers' = newcomers \ NewOf({})
      BY <2>4 DEF NewOf
    <3> QED BY <2>a, <3>1, <3>2, SettleKeeps
  <2> QED BY <2>a, <2>3, <2>4
<1>2. CASE SubmitAlbums
  <2>1. PICK settled \in SUBSET urls :
           /\ newcomers' = newcomers \ NewOf(settled) /\ pending' = pending \union (urls \ settled)
           /\ pc = "submit" /\ toLookUp = {} /\ toLookUp' = {} /\ urls' = {}
           /\ UNCHANGED <<library, stored, generation, pc, myGen, anchor, scanned, removed, standing, had, forgotten>>
    BY <1>2 DEF SubmitAlbums
  <2>2. Unsettled \ settled \subseteq Unsettled'
    BY <2>1 DEF Unsettled
  <2> QED BY <2>1, <2>2, SettleKeeps
<1> QED BY <1>1, <1>2

\* A page is read, and with it perhaps the oldest song of the anchor.
LEMMA ReadKeeps == ASSUME SyncInv, ReadPage PROVE SyncInv'
<1>ty. LibraryTyped /\ Memory /\ PassAnchor /\ NewOnTop /\ InOrder /\ ScanGoesOn /\ Submitting
  BY DEF SyncInv
<1>1. PICK all : all = scanned \o NextPage
  OBVIOUS
<1>2. /\ pc = "read" /\ scanned' = all
      /\ UNCHANGED <<library, stored, generation, myGen, anchor, urls, pending, removed, had, forgotten>>
  BY <1>1 DEF ReadPage
<1>3. PICK sd : sd = (IF scanned = <<>> THEN Range(library) ELSE standing) /\ standing' = sd
  BY DEF ReadPage
<1>4. \/ /\ anchor # <<>> /\ Oldest \in Range(NextPage) /\ pc' = "submit" /\ toLookUp' = FirstsOf(all)
         /\ newcomers' = newcomers \ {s \in {all[i] : i \in Added(all)} : AlbumOf[s] = NoAlbum}
      \/ pc' \in {"read", "reanchor"} /\ UNCHANGED <<toLookUp, newcomers>>
  BY <1>1, <1>2 DEF ReadPage
<1>5. PICK n \in Nat, l \in Nat : n = Len(scanned) /\ l = Len(library) /\ n <= l
  <2>1. Len(scanned) \in Nat /\ Len(library) \in Nat /\ (scanned = <<>> => Len(scanned) = 0)
    BY <1>ty DEF LibraryTyped
  <2>2. Len(scanned) <= Len(library)
    BY <1>ty, <1>2, <2>1 DEF ScanGoesOn
  <2> QED BY <2>1, <2>2
<1>6. PICK m \in n .. l :
        /\ m = Len(all) /\ all \in Seq(Songs) /\ DOMAIN all = 1 .. m
        /\ \A k \in 1 .. n : all[k] = scanned[k]
        /\ \A k \in n + 1 .. m : all[k] = library[k]
        /\ Range(NextPage) = {library[k] : k \in n + 1 .. m}
  <2>1. library \in Seq(Songs) /\ scanned \in Seq(Songs) /\ anchor \in Seq(Songs) /\ Len(scanned) <= Len(library)
    BY <1>ty, <1>5 DEF LibraryTyped
  <2>2. /\ all \in Seq(Songs) /\ Len(all) \in Len(scanned) .. Len(library)
        /\ \A k \in 1 .. Len(scanned) : all[k] = scanned[k]
        /\ \A k \in Len(scanned) + 1 .. Len(all) : all[k] = library[k]
        /\ Range(NextPage) = {library[k] : k \in Len(scanned) + 1 .. Len(all)}
    BY <1>1, <2>1, PageContinues
  <2> QED BY <1>5, <2>2
<1>7. DOMAIN library = 1 .. l /\ DOMAIN scanned = 1 .. n /\ library \in Seq(Songs) /\ (scanned = <<>> <=> n = 0)
  BY <1>ty, <1>5 DEF LibraryTyped
<1>8. Order' = Order /\ Range(library') = Range(library) /\ Seen' = Seen
  BY <1>2 DEF Order, Range, Seen
\* What was there when the pass began.
<1>9. /\ sd \subseteq Range(library)
      /\ \A k \in 1 .. l : k > n => library[k] \in sd
      /\ \A k \in 1 .. n : library[k] \in sd => library[k] \in Range(scanned)
      /\ n > 0 => sd = standing
  <2>1. CASE scanned = <<>>
    BY <2>1, <1>3, <1>5, <1>7 DEF Range
  <2>2. CASE scanned # <<>>
    BY <2>2, <1>ty, <1>2, <1>3, <1>5, <1>7 DEF ScanGoesOn
  <2> QED BY <2>1, <2>2
<1>10. \A k \in 1 .. m : all[k] \in sd
  <2> SUFFICES ASSUME NEW k \in 1 .. m PROVE all[k] \in sd
    OBVIOUS
  <2>1. CASE k <= n
    <3>1. k \in 1 .. n /\ n > 0
      BY <2>1, <1>6
    <3>2. scanned[k] \in standing
      BY <3>1, <1>ty, <1>7 DEF InOrder, Range
    <3> QED BY <3>1, <3>2, <1>6, <1>9
  <2>2. CASE k > n
    <3>1. k \in n + 1 .. m /\ k \in 1 .. l
      BY <2>2, <1>6
    <3> QED BY <3>1, <2>2, <1>6, <1>9
  <2> QED BY <2>1, <2>2, <1>6
<1>11. ASSUME NEW k \in 1 .. m, NEW a \in sd, Above(a, all[k]) PROVE \E x \in 1 .. k : all[x] = a
  <2>1. CASE k <= n
    <3>1. k \in 1 .. n /\ n > 0 /\ all[k] = scanned[k]
      BY <2>1, <1>6
    <3>2. PICK x \in 1 .. k : scanned[x] = a
      BY <3>1, <1>ty, <1>7, <1>9, <1>11 DEF InOrder
    <3>3. x \in 1 .. n
      BY <3>1, <3>2
    <3> QED BY <3>2, <3>3, <1>6
  <2>2. CASE k > n
    <3>1. k \in n + 1 .. m /\ k \in 1 .. l /\ all[k] = library[k]
      BY <2>2, <1>6
    <3>2. PICK i \in 1 .. l, j \in 1 .. l : i < j /\ library[i] = a /\ library[j] = all[k]
      BY <1>7, <1>11, AboveIs
    <3>3. j = k
      BY <1>ty, <1>7, <3>1, <3>2 DEF LibraryTyped, IsInjective
    <3>4. CASE i > n
      <4>1. i \in n + 1 .. m /\ i \in 1 .. k
        BY <3>1, <3>2, <3>3, <3>4
      <4> QED BY <4>1, <3>2, <1>6
    <3>5. CASE i <= n
      <4>1. i \in 1 .. n
        BY <3>2, <3>5
      <4>2. PICK x \in 1 .. n : scanned[x] = a
        BY <4>1, <3>2, <1>7, <1>9 DEF Range
      <4>3. x \in 1 .. k /\ all[x] = a
        BY <4>2, <3>1, <1>6
      <4> QED BY <4>3
    <3> QED BY <3>2, <3>4, <3>5, <1>5
  <2> QED BY <2>1, <2>2, <1>5
<1>12. InOrder'
  <2>1. Range(all) \subseteq sd
    BY <1>6, <1>10 DEF Range
  <2>2. \A k \in DOMAIN all, a \in sd : <<a, all[k]>> \in Order => \E x \in 1 .. k : all[x] = a
    BY <1>6, <1>11 DEF Above
  <2>3. scanned' = all /\ standing' = sd /\ Order' = Order
    BY <1>2, <1>3, <1>8
  <2>4. Range(scanned') \subseteq standing'
    BY <2>1, <2>3 DEF Range
  <2>5. \A k \in DOMAIN scanned', a \in standing' : <<a, scanned'[k]>> \in Order' => \E x \in 1 .. k : scanned'[x] = a
    BY <2>2, <2>3
  <2> QED BY <2>4, <2>5 DEF InOrder, Range, Above
<1>13. ScanGoesOn'
  <2> SUFFICES ASSUME pc' = "read"
               PROVE  /\ m <= l /\ sd \subseteq Range(library)
                      /\ \A i \in 1 .. l : i > m => library[i] \in sd
                      /\ \A i \in 1 .. l : i <= m /\ library[i] \in sd => library[i] \in Range(all)
    <3>1. library' = library /\ DOMAIN library' = 1 .. l /\ Len(library') = l /\ scanned' = all /\ Len(scanned') = m
          /\ standing' = sd /\ m \in Nat /\ Range(library)' = Range(library) /\ Range(scanned)' = Range(all)
      BY <1>2, <1>3, <1>5, <1>6, <1>7 DEF Range
    <3> QED BY <3>1 DEF ScanGoesOn
  <2>1. ASSUME NEW i \in 1 .. l, i > m PROVE library[i] \in sd
    <3>1. i > n
      BY <2>1, <1>6
    <3> QED BY <3>1, <1>9
  <2>2. ASSUME NEW i \in 1 .. l, i <= m, library[i] \in sd PROVE library[i] \in Range(all)
    <3>1. CASE i <= n
      <4>1. i \in 1 .. n
        BY <3>1
      <4>2. PICK x \in 1 .. n : scanned[x] = library[i]
        BY <2>2, <4>1, <1>7, <1>9 DEF Range
      <4>3. x \in 1 .. m /\ all[x] = library[i]
        BY <4>2, <1>6
      <4> QED BY <4>3, <1>6 DEF Range
    <3>2. CASE i > n
      <4>1. i \in n + 1 .. m /\ i \in 1 .. m
        BY <2>2, <3>2
      <4> QED BY <4>1, <1>6 DEF Range
    <3> QED BY <3>1, <3>2, <1>5
  <2> QED BY <2>1, <2>2, <1>6, <1>9
<1>14. NewOnTop'
  <2>1. CASE scanned = <<>>
    BY <2>1, <1>3, <1>8 DEF NewOnTop
  <2>2. CASE scanned # <<>>
    BY <2>2, <1>ty, <1>3, <1>8 DEF NewOnTop, Above
  <2> QED BY <2>1, <2>2
<1>15. newcomers' \subseteq newcomers
  BY <1>4
<1>16. LibraryTyped'
  <2>1. /\ library' \in Seq(Songs) /\ stored' \in Seq(Songs) /\ anchor' \in Seq(Songs) /\ scanned' \in Seq(Songs)
        /\ IsInjective(library') /\ Range(library') \intersect removed' = {} /\ newcomers' \subseteq Range(library')
        /\ Len(stored') <= AnchorSize /\ generation' \in Nat /\ myGen' \in Nat
    BY <1>ty, <1>2, <1>6, <1>8, <1>15 DEF LibraryTyped, IsInjective
  <2>2. Range(stored') \subseteq Seen' /\ Range(anchor') \subseteq Seen' /\ had' \subseteq Seen'
    BY <1>ty, <1>2, <1>8 DEF LibraryTyped, Range
  <2>3. standing' \subseteq Seen'
    BY <1>3, <1>8, <1>9 DEF Seen
  <2>4. pc' \in {"idle", "read", "submit", "reanchor"}
    BY <1>4
  <2> QED BY <2>1, <2>2, <2>3, <2>4 DEF LibraryTyped
<1>17. Memory'
  BY <1>ty, <1>2, <1>8, <1>15 DEF Memory, SkipsNothing, Baseline, Above, Range
<1>18. PassAnchor'
  <2>1. pc' = "read" => SkipsNothing(anchor)' /\ Baseline(anchor)'
    BY <1>ty, <1>2, <1>8, <1>15 DEF PassAnchor, SkipsNothing, Baseline, Above, Range
  <2>2. pc' # "idle"
    BY <1>4
  <2>3. pc' = "submit" => anchor' # <<>>
    BY <1>2, <1>4
  <2>4. pc' = "read" => toLookUp' = {} /\ urls' = {} /\ pending' = {}
    BY <1>ty, <1>2, <1>4 DEF PassAnchor
  <2> QED BY <1>ty, <1>2, <2>1, <2>2, <2>3, <2>4 DEF PassAnchor
<1>19. Submitting'
  <2> SUFFICES ASSUME pc' = "submit" PROVE Submitting'
    BY DEF Submitting
  <2>1. /\ anchor # <<>> /\ Oldest \in Range(NextPage) /\ toLookUp' = FirstsOf(all)
        /\ newcomers' = newcomers \ {s \in {all[i] : i \in Added(all)} : AlbumOf[s] = NoAlbum}
    BY <1>4
  <2>2. PICK p \in n + 1 .. m : Oldest = library[p]
    BY <2>1, <1>6
  <2>3. p \in 1 .. m /\ p \in 1 .. l /\ all[p] = Oldest
    BY <2>2, <1>6
  <2>4. Oldest \in Range(anchor) /\ SkipsNothing(anchor) /\ Baseline(anchor) /\ Oldest = anchor[Len(anchor)]
    BY <1>ty, <1>2, <2>1, LastIn DEF PassAnchor, Oldest, LibraryTyped
  <2>5. \A t \in Range(library) : t # Oldest => Above(t, Oldest) \/ Above(Oldest, t)
    <3> SUFFICES ASSUME NEW t \in Range(library), t # Oldest PROVE Above(t, Oldest) \/ Above(Oldest, t)
      OBVIOUS
    <3>1. PICK q \in 1 .. l : library[q] = t
      BY <1>7 DEF Range
    <3>2. q < p \/ p < q
      BY <3>1, <2>2, <2>3
    <3> QED BY <3>1, <3>2, <2>2, <2>3, <1>7, AboveIs
  <2>6. Added(all) = {i \in 1 .. m : /\ \A k \in 1 .. i : all[k] # Oldest
                                     /\ all[i] \notin Range(anchor)}
    BY <1>6 DEF Added
  <2>7. Added(scanned)' = Added(all)
    BY <1>2 DEF Added, Oldest, Range
  <2>8. ASSUME NEW i \in Added(all), all[i] \in had PROVE FALSE
    <3>1. i \in 1 .. m /\ all[i] # Oldest /\ all[i] \notin Range(anchor) /\ \A k \in 1 .. i : all[k] # Oldest
      BY <2>6
    <3>2. all[i] \in Range(library) /\ Oldest \in sd
      BY <3>1, <2>3, <1>9, <1>10
    <3>3. ~Above(Oldest, all[i])
      BY <3>1, <3>2, <1>11
    <3>4. Above(all[i], Oldest)
      BY <3>1, <3>2, <3>3, <2>5
    <3> QED BY <3>1, <3>4, <2>1, <2>4, <2>8 DEF Baseline
  <2>9. FirstsOf(all) \subseteq 1 .. m
    BY <2>6 DEF FirstsOf
  <2>10. ASSUME NEW i \in Added(all), AlbumOf[all[i]] # NoAlbum
         PROVE  \E j \in FirstsOf(all) : AlbumOf[all[j]] = AlbumOf[all[i]]
    <3>1. PICK S : S = {j \in Added(all) : AlbumOf[all[j]] = AlbumOf[all[i]]}
      OBVIOUS
    <3>2. S \in SUBSET Nat /\ i \in S
      BY <2>6, <3>1
    <3>3. PICK j \in S : \A k \in S : j <= k
      BY <3>2, LeastNatural
    <3>4. j \in Added(all) /\ AlbumOf[all[j]] = AlbumOf[all[i]]
      BY <3>1, <3>3
    <3>5. ASSUME NEW k \in Added(all), k < j PROVE AlbumOf[all[k]] # AlbumOf[all[j]]
      <4>1. k \in Nat /\ j \in Nat /\ ~(j <= k)
        BY <3>5, <3>2, <3>3, <2>6
      <4>2. k \notin S
        BY <4>1, <3>3
      <4> QED BY <4>2, <3>1, <3>4
    <3> QED BY <3>4, <3>5, <2>10 DEF FirstsOf
  <2>11. ASSUME NEW t \in newcomers'
         PROVE  \/ t \in NewOf(Unsettled)'
                \/ t \notin Range(all) /\ \A k \in 1 .. m : ~Above(all[k], t)
    <3>1. t \in newcomers /\ t \in Range(library)
      BY <1>15, <1>ty DEF LibraryTyped
    <3>2. t \notin Range(anchor) /\ ~Above(Oldest, t) /\ t # Oldest
      BY <3>1, <2>1, <2>4 DEF SkipsNothing
    <3>3. Above(t, Oldest)
      BY <3>1, <3>2, <2>5
    <3>4. CASE t \in sd
      <4>1. PICK S : S = {k \in 1 .. m : all[k] = Oldest}
        OBVIOUS
      <4>2. S \in SUBSET Nat /\ p \in S
        BY <2>3, <4>1
      <4>3. PICK k \in S : \A y \in S : k <= y
        BY <4>2, LeastNatural
      <4>4. k \in 1 .. m /\ all[k] = Oldest
        BY <4>1, <4>3
      <4>5. PICK x \in 1 .. k : all[x] = t
        BY <3>3, <3>4, <4>4, <1>11
      <4>6. x \in 1 .. m /\ x < k
        BY <4>4, <4>5, <3>2
      <4>7. \A y \in 1 .. x : all[y] # Oldest
        <5> SUFFICES ASSUME NEW y \in 1 .. x, all[y] = Oldest PROVE FALSE
          OBVIOUS
        <5>1. y \in S /\ y < k
          BY <4>1, <4>4, <4>6
        <5>2. k <= y
          BY <5>1, <4>3
        <5> QED BY <5>1, <5>2, <4>4
      <4>8. x \in Added(all)
        BY <4>5, <4>6, <4>7, <2>6, <3>2
      <4>9. AlbumOf[all[x]] # NoAlbum
        BY <4>5, <4>8, <2>1
      <4>10. PICK j \in FirstsOf(all) : AlbumOf[all[j]] = AlbumOf[all[x]]
        BY <4>8, <4>9, <2>10
      <4>11. AlbumOf[scanned'[x]] \in Unsettled'
        <5>1. Unsettled' = {AlbumOf[all[i]] : i \in FirstsOf(all)} \union urls' \union pending'
          BY <1>2, <2>1 DEF Unsettled
        <5> QED BY <5>1, <4>10, <1>2
      <4>12. x \in Added(scanned)' /\ scanned'[x] = t
        BY <4>5, <4>8, <2>7, <1>2
      <4> QED BY <4>11, <4>12 DEF NewOf
    <3>5. CASE t \notin sd
      <4>1. t \notin Range(all)
        BY <3>5, <1>6, <1>10 DEF Range
      <4>2. ASSUME NEW k \in 1 .. m PROVE ~Above(all[k], t)
        <5>1. all[k] \in sd /\ t \in Range(library) \ sd
          BY <3>1, <3>5, <1>10
        <5> QED BY <5>1, <1>3, <1>8, <1>14 DEF NewOnTop, Above
      <4> QED BY <4>1, <4>2
    <3> QED BY <3>4, <3>5
  <2>12. toLookUp' \subseteq DOMAIN scanned'
    BY <1>2, <1>6, <2>1, <2>9
  <2>13. {scanned[i] : i \in Added(scanned)}' \intersect had' = {}
    BY <1>2, <2>7, <2>8
  <2> QED BY <2>11, <2>12, <2>13, <1>2, <1>6, <1>8 DEF Submitting, Range, Above
<1> QED BY <1>12, <1>13, <1>14, <1>16, <1>17, <1>18, <1>19 DEF SyncInv

LEMMA SyncInvInit == Init => SyncInv
<1> SUFFICES ASSUME Init PROVE SyncInv
  OBVIOUS
<1>1. /\ library \in Seq(Songs) /\ IsInjective(library)
      /\ stored = <<>> /\ generation = 0 /\ pc = "idle" /\ myGen = 0 /\ anchor = <<>> /\ scanned = <<>>
      /\ toLookUp = {} /\ urls = {} /\ pending = {} /\ removed = {} /\ newcomers = {} /\ standing = {} /\ had = {}
      /\ forgotten = FALSE
  BY WatcherBoundsAssumption DEF Init
<1>2. LibraryTyped
  <2>1. <<>> \in Seq(Songs) /\ Range(<<>>) = {} /\ Len(<<>>) <= AnchorSize
    BY WatcherSizesAssumption DEF Range
  <2> QED BY <1>1, <2>1 DEF LibraryTyped
<1>3. Memory /\ PassAnchor /\ NewOnTop /\ InOrder /\ ScanGoesOn /\ Submitting
  BY <1>1 DEF Memory, SkipsNothing, Baseline, PassAnchor, NewOnTop, InOrder, ScanGoesOn, Submitting, Range
<1> QED BY <1>2, <1>3 DEF SyncInv

LEMMA SyncInvStep == Steady /\ SyncInv /\ [Next]_vars => SyncInv'
<1> SUFFICES ASSUME Steady, SyncInv, [Next]_vars PROVE SyncInv'
  OBVIOUS
<1>1. CASE UNCHANGED vars
  <2>1. UNCHANGED <<library, stored, generation, pc, myGen, anchor, scanned, toLookUp, urls, pending, removed, newcomers,
                    standing, had, forgotten>>
    BY <1>1 DEF vars, passVars, history
  <2>2. Order' = Order /\ Seen' = Seen /\ NewOf(Unsettled)' = NewOf(Unsettled)
        /\ {scanned[i] : i \in Added(scanned)}' = {scanned[i] : i \in Added(scanned)}
    BY <2>1, PassStays DEF Order, Seen
  <2>3. LibraryTyped'
    BY <2>1, <2>2 DEF SyncInv, LibraryTyped, Range, IsInjective
  <2>4. Memory' /\ PassAnchor' /\ NewOnTop' /\ InOrder' /\ ScanGoesOn'
    BY <2>1, <2>2 DEF SyncInv, Memory, PassAnchor, SkipsNothing, Baseline, NewOnTop, InOrder, ScanGoesOn, Above, Range
  <2>5. Submitting'
    BY <2>1, <2>2 DEF SyncInv, Submitting, Above, Range
  <2> QED BY <2>3, <2>4, <2>5 DEF SyncInv
<1>2. CASE KeepAnchor \/ PassFails \/ Restart
  <2>1. EndPass /\ UNCHANGED <<library, stored, removed, newcomers, standing, had, forgotten>>
    BY <1>2 DEF KeepAnchor, PassFails, Restart, history
  <2>2. generation' \in Nat
    BY <1>2 DEF KeepAnchor, PassFails, Restart, SyncInv, LibraryTyped
  <2> QED BY <2>1, <2>2, EndPassKeeps
<1>3. CASE \E s \in Songs : AddSong(s) \/ RemoveSong(s)
  BY <1>3, AddKeeps, RemoveKeeps
<1>4. CASE LoadAnchor \/ ReadPage \/ Lookup \/ SubmitAlbums \/ SaveAnchor \/ ResetAnchor
  BY <1>4, LoadAnchorKeeps, ReadKeeps, LookupKeeps, SaveKeeps, ResetKeeps
<1> QED BY <1>1, <1>2, <1>3, <1>4 DEF Next, Pass

LEMMA SyncInvHolds == SyncInv => AnchorStands
<1> SUFFICES ASSUME SyncInv PROVE AnchorStands
  OBVIOUS
<1>ty. LibraryTyped /\ Memory /\ Submitting
  BY DEF SyncInv
<1>1. NothingSkipped
  <2> SUFFICES ASSUME stored # <<>>, NEW s \in newcomers \intersect Range(library)
               PROVE  /\ s \notin Range(stored)
                      /\ \A i, j \in DOMAIN library : library[i] = s /\ library[j] = stored[Len(stored)] => i < j
    BY DEF NothingSkipped
  <2>1. s \notin Range(stored) /\ ~Above(stored[Len(stored)], s) /\ stored[Len(stored)] \in Range(stored)
    BY <1>ty, LastIn DEF Memory, SkipsNothing, LibraryTyped
  <2>2. ASSUME NEW i \in DOMAIN library, NEW j \in DOMAIN library, library[i] = s, library[j] = stored[Len(stored)]
        PROVE  i < j
    <3>1. i # j
      BY <2>1, <2>2
    <3>2. ~(j < i)
      BY <2>1, <2>2, <1>ty, AboveIs DEF LibraryTyped
    <3>3. i \in Nat /\ j \in Nat
      BY <1>ty DEF LibraryTyped
    <3> QED BY <3>1, <3>2, <3>3
  <2> QED BY <2>1, <2>2
<1>2. NeverBackfills /\ ResetHolds
  BY <1>ty DEF NeverBackfills, ResetHolds, Submitting, Memory
<1> QED BY <1>1, <1>2 DEF AnchorStands

\* However passes fail, are reset and restart while songs come and go: no song
\* added since the anchor was laid is passed over, none that was there is taken
\* for new, and a reset is not undone (librarysync.go pass, saveAnchor) - as long
\* as no song goes from under a scan, none comes back and no scan is outrun.
THEOREM NothingIsSkipped == ASSUME Steady PROVE Spec => []AnchorStands
<1>1. SyncInv /\ [Next]_vars => SyncInv'
  BY SyncInvStep
<1> QED BY <1>1, SyncInvInit, SyncInvHolds, PTL DEF Spec

-----------------------------------------------------------------------------
(* The log and those who read it *)

\* A log with its two clients.
Filling == [state : {"off", "subscribed", "closed"}, after : Nat, backlog : SUBSET Nat, channel : Seq(Nat)]
LogTyped ==
    /\ next \in Nat \ {0} /\ process \in Nat /\ matching \in SUBSET (1..next)
    /\ tail \in [conn : Filling, cursor : Nat, of : Nat] /\ got \in Seq(Nat)
    /\ pager \in [cursor : Nat, of : Nat] /\ read \in Seq(SUBSET Nat)
    /\ missed \in [stream : SUBSET Nat, pages : SUBSET Nat]

\* The ring is full once its head moves, and holds the last records: those from
\* the head on are the older ones.
Placed ==
    /\ ring \in Seq(Nat) /\ Len(ring) \in 1..Capacity /\ Len(ring) <= next
    /\ head \in 0..Capacity - 1 /\ (Len(ring) < Capacity => head = 0 /\ next = Len(ring))
    /\ \A j \in 1..Len(ring) :
           ring[j] = IF j > head THEN (next - Len(ring)) + (j - head) ELSE next - (head - j)

\* What the stream has yet to send is newer than what it sent, in order.
Waiting == tail.conn.backlog \union ToSet(tail.conn.channel)
InTurn ==
    /\ tail.of <= process /\ Rising(got) /\ \A n \in ToSet(got) : n <= tail.cursor /\ n <= next
    /\ tail.of = process => tail.cursor <= next
    /\ tail.conn.state = "off" => Waiting = {}
    /\ Waiting \subseteq matching /\ \A n \in Waiting : n > tail.cursor
    /\ Rising(tail.conn.channel)
    /\ \A n \in tail.conn.backlog, k \in ToSet(tail.conn.channel) : n < k
    /\ tail.conn.state # "off" =>
           /\ tail.conn.after <= tail.cursor
           /\ tail.cursor = tail.conn.after \/ tail.cursor <= next
           /\ tail.of # process =>
                  tail.conn.after = tail.cursor /\ 1..tail.conn.after \subseteq missed.stream

\* Every match was received, is known to be missed, or is to be sent; behind a
\* closed channel it is newer than those.
Streamed ==
    /\ tail.of = process =>
           \A n \in matching : n <= tail.cursor => n \in ToSet(got) \union missed.stream
    /\ tail.conn.state # "off" =>
           \A n \in matching :
               \/ n \in ToSet(got) \union missed.stream \union Waiting
               \/ /\ tail.conn.state = "closed" /\ n > tail.cursor
                  /\ \A k \in Waiting : k < n

\* The pages end at the cursor.
Paged ==
    /\ pager.of <= process /\ PagesRise(read)
    /\ \A n \in UNION ToSet(read) : n <= pager.cursor
    /\ pager.of # process => read = <<>>
    /\ pager.of = process => pager.cursor <= next
    /\ pager.of = process =>
           \A n \in matching : n <= pager.cursor => n \in (UNION ToSet(read)) \union missed.pages
LogInv == LogTyped /\ Placed /\ InTurn /\ Streamed /\ Paged

LEMMA Wrapped ==
  ASSUME NEW n \in Nat \ {0}, NEW x \in Nat
  PROVE /\ x < n => x % n = x
        /\ n <= x /\ x < 2 * n => x % n = x - n
<1>1. x < n => x % n = x
  OBVIOUS
<1>2. ASSUME n <= x, x < 2 * n PROVE x % n = x - n
  BY <1>2
<1> QED BY <1>1, <1>2

\* The records kept are the last ones, in order (at).
LEMMA AtIs ==
  ASSUME LogTyped, Placed
  PROVE \A i \in 0..Len(ring) - 1 : At(i) = (next - Len(ring)) + 1 + i
<1> SUFFICES ASSUME NEW i \in 0..Len(ring) - 1 PROVE At(i) = (next - Len(ring)) + 1 + i
  OBVIOUS
<1>1. /\ Len(ring) \in Nat \ {0} /\ head \in Nat /\ head < Len(ring) /\ next \in Nat /\ i \in Nat
      /\ i < Len(ring)
      /\ \A j \in 1..Len(ring) :
            ring[j] = IF j > head THEN (next - Len(ring)) + (j - head) ELSE next - (head - j)
  <2>1. ring \in Seq(Nat) /\ Len(ring) \in Nat /\ Len(ring) \in 1..Capacity /\ Len(ring) <= Capacity /\ Len(ring) >= 1
    BY DEF Placed
  <2>2. /\ head \in 0..Capacity - 1 /\ (Len(ring) < Capacity => head = 0)
        /\ \A j \in 1..Len(ring) :
            ring[j] = IF j > head THEN (next - Len(ring)) + (j - head) ELSE next - (head - j)
    BY DEF Placed
  <2>3. Capacity \in Int
    BY LogAssumption DEF LogAssumption
  <2>4. head < Len(ring) /\ head \in Nat
    BY <2>1, <2>2, <2>3
  <2>5. next \in Nat
    BY DEF LogTyped
  <2> QED BY <2>1, <2>2, <2>4, <2>5
<1>2. PICK len : len = Len(ring)
  OBVIOUS
<1>3. PICK place : place = (head + i) % len
  OBVIOUS
<1>4. At(i) = ring[place + 1]
  BY <1>2, <1>3 DEF At
<1>5. CASE head + i < len
  <2>1. place = head + i
    <3>1. head + i \in Nat /\ len \in Nat \ {0}
      BY <1>1, <1>2
    <3> QED BY <1>3, <1>5, <3>1, Wrapped
  <2> QED BY <1>1, <1>2, <1>4, <1>5, <2>1
<1>6. CASE head + i >= len
  <2>1. place = (head + i) - len
    <3>1. head + i \in Nat /\ head + i < 2 * len /\ len \in Nat \ {0}
      BY <1>1, <1>2
    <3> QED BY <1>3, <1>6, <3>1, Wrapped
  <2>2. place + 1 \in 1..len /\ ~(place + 1 > head)
    BY <1>1, <1>2, <1>6, <2>1
  <2>3. ring[place + 1] = next - (head - (place + 1))
    BY <1>1, <1>2, <2>2
  <2> QED BY <1>1, <1>2, <1>4, <2>1, <2>3
<1> QED BY <1>1, <1>2, <1>5, <1>6

LEMMA RingRises ==
  ASSUME LogTyped, Placed
  PROVE \A i \in 1..Len(ring) - 1 : At(i - 1) < At(i)
<1>1. Len(ring) \in Nat /\ next \in Nat
  BY DEF LogTyped, Placed
<1>2. ASSUME NEW i \in 1..Len(ring) - 1 PROVE At(i - 1) < At(i)
  <2>1. i \in 0..Len(ring) - 1 /\ i - 1 \in 0..Len(ring) - 1
    BY <1>1
  <2>2. At(i) = (next - Len(ring)) + 1 + i /\ At(i - 1) = (next - Len(ring)) + 1 + (i - 1)
    BY <2>1, AtIs
  <2> QED BY <1>1, <2>2
<1> QED BY <1>2

\* What is asked for is what the ring still holds of it (matches).
LEMMA HitsAre ==
  ASSUME LogTyped, Placed, NEW after \in Nat
  PROVE /\ At(0) \in Nat \ {0} /\ At(0) <= next
        /\ Hits(0, after) = {n \in matching : n > after /\ n >= At(0)}
        /\ Hits(StartAfter(after), after) = {n \in matching : n > after /\ n >= At(0)}
<1>1. PICK len : len = Len(ring)
  OBVIOUS
<1>2. /\ len \in Nat \ {0} /\ next \in Nat /\ len <= next
      /\ \A n \in matching : n \in Nat /\ 1 <= n /\ n <= next
  BY <1>1 DEF LogTyped, Placed
<1>3. PICK first : first = At(0)
  OBVIOUS
<1>4. \A i \in 0..len - 1 : At(i) = (next - len) + 1 + i
  BY <1>1, AtIs
<1>5. first = (next - len) + 1 /\ first \in Nat \ {0} /\ first <= next
  BY <1>2, <1>3, <1>4
<1>6. ASSUME NEW from \in 0..len, \A n \in matching : n > after /\ n >= first => n >= first + from
      PROVE Hits(from, after) = {n \in matching : n > after /\ n >= first}
  <2>1. Hits(from, after) = {n \in {At(i) : i \in from..len - 1} : n \in matching /\ n > after}
    BY <1>1 DEF Hits
  <2>2. ASSUME NEW n \in matching, n > after, n >= first PROVE n \in {At(i) : i \in from..len - 1}
    <3>1. n \in Nat /\ n <= next /\ n >= first + from
      BY <1>2, <1>6, <2>2
    <3>2. n - first \in from..len - 1 /\ n - first \in 0..len - 1
      BY <1>2, <1>5, <3>1
    <3>3. At(n - first) = (next - len) + 1 + (n - first)
      BY <1>4, <3>2
    <3>4. At(n - first) = n
      BY <1>2, <1>5, <3>1, <3>3
    <3> QED BY <3>2, <3>4
  <2>3. ASSUME NEW i \in from..len - 1 PROVE At(i) >= first
    <3>1. i \in 0..len - 1
      BY <1>2
    <3> QED BY <1>2, <1>4, <1>5, <3>1
  <2> QED BY <2>1, <2>2, <2>3
<1>7. Hits(0, after) = {n \in matching : n > after /\ n >= first}
  BY <1>2, <1>5, <1>6
<1>8. StartAfter(after) \in 0..len /\ \A n \in matching : n > after /\ n >= first => n >= first + StartAfter(after)
  <2>1. StartAfter(after) = IF after >= first THEN Lesser((after - first) + 1, len) ELSE 0
    BY <1>1, <1>3 DEF StartAfter
  <2>2. CASE after >= first
    <3>1. CASE (after - first) + 1 < len
      <4>1. StartAfter(after) = (after - first) + 1
        BY <2>1, <2>2, <3>1 DEF Lesser
      <4> QED BY <1>2, <1>5, <2>2, <3>1, <4>1
    <3>2. CASE ~((after - first) + 1 < len)
      <4>1. StartAfter(after) = len
        BY <2>1, <2>2, <3>2 DEF Lesser
      <4>2. \A n \in matching : n > after => FALSE
        BY <1>2, <1>5, <2>2, <3>2
      <4> QED BY <1>2, <4>1, <4>2
    <3> QED BY <3>1, <3>2
  <2>3. CASE ~(after >= first)
    <3>1. StartAfter(after) = 0
      BY <2>1, <2>3
    <3> QED BY <1>2, <1>5, <3>1
  <2> QED BY <2>2, <2>3
<1>9. Hits(StartAfter(after), after) = {n \in matching : n > after /\ n >= first}
  BY <1>6, <1>8
<1> QED BY <1>3, <1>5, <1>7, <1>9

LEMMA GreatestOf ==
  ASSUME NEW S, NEW top \in Nat, S \subseteq 1..top, S # {}
  PROVE Max(S) \in S /\ \A n \in S : n <= Max(S)
<1>1. PICK R : R = {top - m : m \in S}
  OBVIOUS
<1>2. R \in SUBSET Nat /\ R # {}
  <2>1. \A m \in S : top - m \in Nat
    OBVIOUS
  <2> QED BY <1>1, <2>1
<1>3. PICK r \in R : \A s \in R : r <= s
  BY <1>2, LeastNatural
<1>4. PICK n \in S : r = top - n
  BY <1>1, <1>3
<1>5. ASSUME NEW m \in S PROVE n >= m
  <2>1. top - m \in R
    BY <1>1
  <2>2. top - n <= top - m
    BY <1>3, <1>4, <2>1
  <2>3. n \in Nat /\ m \in Nat
    OBVIOUS
  <2> QED BY <2>2, <2>3
<1>6. \E x \in S : \A y \in S : x >= y
  BY <1>5
<1>7. Max(S) \in S /\ \A y \in S : Max(S) >= y
  BY <1>6 DEF Max
<1>8. \A y \in S : y \in Nat
  OBVIOUS
<1> QED BY <1>7, <1>8

LEMMA LeastOf ==
  ASSUME NEW S \in SUBSET Nat, S # {}
  PROVE Min(S) \in S /\ \A n \in S : Min(S) <= n
<1>1. \E x \in S : \A y \in S : x <= y
  BY LeastNatural
<1> QED BY <1>1 DEF Min

\* A bounded answer leaves nothing out unless it is full, and what it leaves out
\* is beyond it.
LEMMA CountsOf ==
  ASSUME NEW hits, NEW top \in Nat, hits \subseteq 1..top
  PROVE \A S \in SUBSET hits : /\ IsFiniteSet(S) /\ Cardinality(S) \in Nat
                               /\ \A T \in SUBSET S : Cardinality(T) <= Cardinality(S)
<1>1. IsFiniteSet(1..top)
  BY FS_Interval
<1>2. ASSUME NEW S \in SUBSET hits
      PROVE /\ IsFiniteSet(S) /\ Cardinality(S) \in Nat
            /\ \A T \in SUBSET S : Cardinality(T) <= Cardinality(S)
  <2>1. IsFiniteSet(S)
    BY <1>1, FS_Subset
  <2> QED BY <2>1, FS_Subset, FS_CardinalityType
<1> QED BY <1>2

LEMMA LowestIs ==
  ASSUME NEW hits, NEW top \in Nat, hits \subseteq 1..top, NEW limit \in Nat \ {0}
  PROVE /\ Lowest(hits, limit) \subseteq hits /\ Cardinality(Lowest(hits, limit)) \in Nat
        /\ Cardinality(Lowest(hits, limit)) < limit => Lowest(hits, limit) = hits
        /\ \A k \in Lowest(hits, limit), n \in hits : n <= k => n \in Lowest(hits, limit)
        /\ hits # {} => Lowest(hits, limit) # {}
<1> DEFINE Below(n) == {m \in hits : m < n}
<1> DEFINE P == Lowest(hits, limit)
<1>1. P = {n \in hits : Cardinality(Below(n)) < limit}
  BY DEF Lowest
<1>2. \A n \in hits : n \in Nat
  OBVIOUS
<1>3. P \in SUBSET hits /\ \A n \in hits : Below(n) \in SUBSET hits
  BY <1>1
<1>4. \A S \in SUBSET hits : Cardinality(S) \in Nat /\ \A T \in SUBSET S : Cardinality(T) <= Cardinality(S)
  BY CountsOf
<1> HIDE DEF P
<1>5. ASSUME NEW k \in P, NEW n \in hits, n <= k PROVE n \in P
  <2>1. k \in hits /\ Cardinality(Below(k)) < limit
    BY <1>1
  <2>2. Below(n) \in SUBSET Below(k)
    <3>1. n \in Nat /\ k \in Nat /\ \A m \in hits : m \in Nat
      BY <1>2, <2>1
    <3>2. ASSUME NEW m \in Below(n) PROVE m \in Below(k)
      BY <1>5, <3>1, <3>2
    <3> QED BY <3>2
  <2>3. Cardinality(Below(k)) \in Nat /\ Cardinality(Below(n)) <= Cardinality(Below(k))
    BY <1>3, <1>4, <2>1, <2>2
  <2>4. Cardinality(Below(n)) \in Nat
    BY <1>3, <1>4
  <2>5. Cardinality(Below(n)) < limit
    BY <2>1, <2>3, <2>4
  <2> QED BY <1>1, <2>5
<1>6. ASSUME NEW n \in hits \ P, \A m \in hits \ P : n <= m PROVE Cardinality(P) >= limit
  <2>1. ASSUME NEW m \in Below(n) PROVE m \in P
    BY <1>2, <1>6, <2>1
  <2>2. Below(n) \in SUBSET P
    BY <2>1
  <2>3. Cardinality(Below(n)) <= Cardinality(P) /\ Cardinality(P) \in Nat /\ Cardinality(Below(n)) \in Nat
    BY <1>3, <1>4, <2>2
  <2>4. ~(Cardinality(Below(n)) < limit)
    BY <1>1, <1>6
  <2> QED BY <2>3, <2>4
<1>7. ASSUME Cardinality(P) < limit PROVE P = hits
  <2>1. SUFFICES ASSUME hits \ P # {} PROVE FALSE
    BY <1>3
  <2>2. hits \ P \in SUBSET Nat
    BY <1>2
  <2>3. PICK n \in hits \ P : \A m \in hits \ P : n <= m
    BY <2>1, <2>2, LeastNatural
  <2>4. Cardinality(P) >= limit /\ Cardinality(P) \in Nat
    BY <1>3, <1>4, <1>6, <2>3
  <2> QED BY <1>7, <2>4
<1>8. ASSUME hits # {} PROVE P # {}
  <2>1. hits \in SUBSET Nat
    BY <1>2
  <2>2. PICK n \in hits : \A m \in hits : n <= m
    BY <1>8, <2>1, LeastNatural
  <2>3. ASSUME NEW m \in Below(n) PROVE FALSE
    <3>1. m \in hits /\ m < n /\ m \in Nat /\ n \in Nat /\ n <= m
      BY <1>2, <2>2
    <3> QED BY <3>1
  <2>4. Cardinality(Below(n)) = 0
    <3>1. Below(n) = {}
      BY <2>3
    <3> QED BY <3>1, FS_EmptySet
  <2> QED BY <1>1, <2>4
<1>9. Cardinality(P) \in Nat
  BY <1>3, <1>4
<1> QED BY <1>3, <1>5, <1>7, <1>8, <1>9 DEF P

LEMMA HighestIs ==
  ASSUME NEW hits, NEW top \in Nat, hits \subseteq 1..top, NEW limit \in Nat \ {0}
  PROVE /\ Highest(hits, limit) \subseteq hits /\ Cardinality(Highest(hits, limit)) \in Nat
        /\ Cardinality(Highest(hits, limit)) < limit => Highest(hits, limit) = hits
        /\ \A k \in Highest(hits, limit), n \in hits : n >= k => n \in Highest(hits, limit)
<1> DEFINE Over(n) == {m \in hits : m > n}
<1> DEFINE P == Highest(hits, limit)
<1>1. P = {n \in hits : Cardinality(Over(n)) < limit}
  BY DEF Highest
<1>2. \A n \in hits : n \in Nat /\ n <= top
  OBVIOUS
<1>3. P \in SUBSET hits /\ \A n \in hits : Over(n) \in SUBSET hits
  BY <1>1
<1>4. \A S \in SUBSET hits : Cardinality(S) \in Nat /\ \A T \in SUBSET S : Cardinality(T) <= Cardinality(S)
  BY CountsOf
<1> HIDE DEF P
<1>5. ASSUME NEW k \in P, NEW n \in hits, n >= k PROVE n \in P
  <2>1. k \in hits /\ Cardinality(Over(k)) < limit
    BY <1>1
  <2>2. Over(n) \in SUBSET Over(k)
    <3>1. n \in Nat /\ k \in Nat /\ \A m \in hits : m \in Nat
      BY <1>2, <2>1
    <3>2. ASSUME NEW m \in Over(n) PROVE m \in Over(k)
      BY <1>5, <3>1, <3>2
    <3> QED BY <3>2
  <2>3. Cardinality(Over(k)) \in Nat /\ Cardinality(Over(n)) <= Cardinality(Over(k))
    BY <1>3, <1>4, <2>1, <2>2
  <2>4. Cardinality(Over(n)) \in Nat
    BY <1>3, <1>4
  <2>5. Cardinality(Over(n)) < limit
    BY <2>1, <2>3, <2>4
  <2> QED BY <1>1, <2>5
<1>6. ASSUME NEW n \in hits \ P, \A m \in hits \ P : n >= m PROVE Cardinality(P) >= limit
  <2>1. ASSUME NEW m \in Over(n) PROVE m \in P
    BY <1>2, <1>6, <2>1
  <2>2. Over(n) \in SUBSET P
    BY <2>1
  <2>3. Cardinality(Over(n)) <= Cardinality(P) /\ Cardinality(P) \in Nat /\ Cardinality(Over(n)) \in Nat
    BY <1>3, <1>4, <2>2
  <2>4. ~(Cardinality(Over(n)) < limit)
    BY <1>1, <1>6
  <2> QED BY <2>3, <2>4
<1>7. ASSUME Cardinality(P) < limit PROVE P = hits
  <2>1. SUFFICES ASSUME hits \ P # {} PROVE FALSE
    BY <1>3
  <2>2. hits \ P \subseteq 1..top
    OBVIOUS
  <2>3. PICK n \in hits \ P : \A m \in hits \ P : m <= n
    BY <2>1, <2>2, GreatestOf
  <2>4. \A m \in hits \ P : n >= m
    BY <1>2, <2>3
  <2>7. Cardinality(P) >= limit /\ Cardinality(P) \in Nat
    BY <1>3, <1>4, <1>6, <2>4
  <2> QED BY <1>7, <2>7
<1>9. Cardinality(P) \in Nat
  BY <1>3, <1>4
<1> QED BY <1>3, <1>5, <1>7, <1>9 DEF P

\* A subscriber is given every match after its cursor that the ring still holds;
\* without a cursor the last ones (newestMatches).
LEMMA FirstGets ==
  ASSUME LogTyped, Placed, NEW limit \in Nat \ {0}
  PROVE /\ NewestMatches(0, limit) \subseteq matching
        /\ \A n \in matching : n \in NewestMatches(0, limit) \union Lost(0) \union Before(NewestMatches(0, limit), limit)
<1>1. PICK hits : hits = {n \in matching : n > 0 /\ n >= At(0)}
  OBVIOUS
<1>2. /\ matching \subseteq 1..next /\ next \in Nat
      /\ hits \in SUBSET matching /\ hits \subseteq 1..next
      /\ \A n \in matching : n \in Nat /\ n > 0
  <2>1. matching \in SUBSET (1..next) /\ next \in Nat
    BY DEF LogTyped
  <2>2. \A n \in matching : n \in Nat /\ n > 0
    BY <2>1
  <2>3. hits \in SUBSET matching
    BY <1>1
  <2> QED BY <2>1, <2>2, <2>3
<1>3. Hits(0, 0) = hits
  BY <1>1, HitsAre
<1>4. PICK page : page = NewestMatches(0, limit)
  OBVIOUS
<1>5. page = Highest(hits, limit)
  BY <1>3, <1>4 DEF NewestMatches
<1>6. /\ page \subseteq hits /\ Cardinality(page) \in Nat
      /\ Cardinality(page) < limit => page = hits
      /\ \A k \in page, n \in hits : n >= k => n \in page
  BY <1>2, <1>5, HighestIs
<1>7. ASSUME NEW n \in matching, n \notin page, n \notin Lost(0) PROVE n \in Before(page, limit)
  <2>1. n \in hits
    <3>1. n > 0 /\ ~(n < At(0)) /\ At(0) \in Nat
      BY <1>2, <1>7, HitsAre DEF Lost
    <3> QED BY <1>1, <1>2, <3>1
  <2>2. ~(Cardinality(page) < limit)
    BY <1>6, <1>7, <2>1
  <2>3. ASSUME NEW k \in page PROVE n < k
    <3>1. k \in hits /\ ~(n >= k)
      BY <1>6, <1>7, <2>1
    <3>2. k \in Nat /\ n \in Nat
      BY <1>2, <3>1
    <3> QED BY <3>1, <3>2
  <2> QED BY <2>2, <2>3 DEF Before
<1> QED BY <1>2, <1>4, <1>6, <1>7

LEMMA RestGets ==
  ASSUME LogTyped, Placed, NEW after \in Nat
  PROVE /\ OldestMatches(after, 0) \subseteq matching /\ NewestMatches(after, 0) = OldestMatches(after, 0)
        /\ \A n \in OldestMatches(after, 0) : n > after
        /\ \A n \in matching : n > after => n \in OldestMatches(after, 0) \union Lost(after)
<1>1. OldestMatches(after, 0) = {n \in matching : n > after /\ n >= At(0)}
  BY HitsAre DEF OldestMatches
<1>2. NewestMatches(after, 0) = OldestMatches(after, 0)
  BY DEF NewestMatches
<1>3. At(0) \in Nat /\ \A n \in matching : n \in Nat
  BY HitsAre DEF LogTyped
<1>4. ASSUME NEW n \in matching, n > after, n \notin OldestMatches(after, 0) PROVE n \in Lost(after)
  BY <1>1, <1>3, <1>4 DEF Lost
<1> QED BY <1>1, <1>2, <1>4

LEMMA BacklogIs ==
  ASSUME LogTyped, Placed, NEW after \in Nat, NEW backlog,
         backlog = NewestMatches(after, IF after > 0 THEN 0 ELSE TailLimit)
  PROVE /\ backlog \subseteq matching /\ \A n \in backlog : n > after
        /\ \A n \in matching : n > after =>
              n \in backlog \union (Lost(after) \union (IF after = 0 THEN Before(backlog, TailLimit) ELSE {}))
<1>1. \A n \in matching : n \in Nat /\ n > 0
  BY DEF LogTyped
<1>2. CASE after > 0
  BY <1>2, RestGets
<1>3. CASE after = 0
  <2>1. TailLimit \in Nat \ {0}
    BY LogAssumption DEF LogAssumption
  <2>2. backlog = NewestMatches(0, TailLimit)
    BY <1>3
  <2> QED BY <1>1, <1>3, <2>1, <2>2, FirstGets
<1> QED BY <1>2, <1>3

\* The histories are of this process' records.
LEMMA MissedTyped ==
  ASSUME LogTyped, NEW after, NEW given, NEW limit, NEW upTo \in Nat
  PROVE Lost(after) \subseteq Nat /\ Before(given, limit) \subseteq Nat
        /\ Stale(tail, upTo) \subseteq Nat /\ Stale(pager, upTo) \subseteq Nat
<1>1. \A n \in matching : n \in Nat
  BY DEF LogTyped
<1>2. tail.cursor \in Nat /\ pager.cursor \in Nat
  BY DEF LogTyped
<1>3. Lesser(tail.cursor, upTo) \in Nat /\ Lesser(pager.cursor, upTo) \in Nat
  BY <1>2 DEF Lesser
<1>4. Stale(tail, upTo) \subseteq Nat /\ Stale(pager, upTo) \subseteq Nat
  BY <1>3 DEF Stale
<1> QED BY <1>1, <1>4 DEF Lost, Before

\* The page, and where the next one starts (List).
LEMMA PageIsWhole ==
  ASSUME LogTyped, Placed, NEW after \in Nat, NEW matches, NEW page, NEW cursor,
         matches = OldestMatches(after, ListLimit + 1),
         page = (CASE after = 0 -> NewestMatches(0, ListLimit)
                   [] after > 0 /\ Cardinality(matches) > ListLimit -> Lowest(matches, ListLimit)
                   [] OTHER -> matches),
         cursor = (IF after > 0 /\ Cardinality(matches) > ListLimit THEN Max(page) ELSE next)
  PROVE /\ page \subseteq matching /\ cursor \in Nat /\ cursor <= next /\ (after <= next => after <= cursor)
        /\ \A n \in page : n > after /\ n <= cursor
        /\ \A n \in matching : n > after /\ n <= cursor =>
              n \in page \union (Lost(after) \union (IF after = 0 THEN Before(page, ListLimit) ELSE {}))
<1>1. /\ matching \subseteq 1..next /\ next \in Nat
      /\ \A n \in matching : n \in Nat /\ n > 0 /\ n <= next
  BY DEF LogTyped
<1>2. ListLimit \in Nat \ {0}
  BY LogAssumption DEF LogAssumption
<1>3. CASE after = 0
  <2>1. ~(after > 0 /\ Cardinality(matches) > ListLimit)
    BY <1>3
  <2>2. page = NewestMatches(0, ListLimit)
    BY <1>3
  <2>3. cursor = next
    BY <2>1
  <2> QED BY <1>1, <1>2, <1>3, <2>2, <2>3, FirstGets
<1>4. CASE after > 0
  <2>1. PICK hits : hits = {n \in matching : n > after /\ n >= At(0)}
    OBVIOUS
  <2>2. hits \subseteq 1..next /\ hits \subseteq matching /\ \A n \in hits : n > after
    BY <1>1, <2>1
  <2>3. matches = Lowest(hits, ListLimit + 1)
    <3>1. Hits(StartAfter(after), after) = hits
      BY <2>1, HitsAre
    <3>2. ListLimit + 1 # 0
      BY <1>2
    <3> QED BY <3>1, <3>2 DEF OldestMatches
  <2>4. /\ matches \subseteq hits /\ Cardinality(matches) \in Nat
        /\ Cardinality(matches) < ListLimit + 1 => matches = hits
        /\ \A k \in matches, n \in hits : n <= k => n \in matches
    <3>1. ListLimit + 1 \in Nat \ {0}
      BY <1>2
    <3> QED BY <1>1, <2>2, <2>3, <3>1, LowestIs
  <2>5. \A n \in matching : n > after => n \in hits \union Lost(after)
    <3>1. At(0) \in Nat
      BY HitsAre
    <3> QED BY <1>1, <2>1, <3>1 DEF Lost
  <2>6. CASE Cardinality(matches) > ListLimit
    <3>1. page = Lowest(matches, ListLimit)
      BY <1>4, <2>6
    <3>2. matches \subseteq 1..next /\ matches # {}
      <4>1. ASSUME matches = {} PROVE FALSE
        <5>1. Cardinality(matches) = 0
          BY <4>1, FS_EmptySet
        <5> QED BY <1>2, <2>6, <5>1
      <4> QED BY <2>2, <2>4, <4>1
    <3>3. /\ page \subseteq matches /\ page # {}
          /\ \A k \in page, n \in matches : n <= k => n \in page
      BY <1>1, <1>2, <3>1, <3>2, LowestIs
    <3>4. page \subseteq 1..next
      BY <3>2, <3>3
    <3>5. cursor \in page /\ \A n \in page : n <= cursor
      <4>1. cursor = Max(page)
        BY <1>4, <2>6
      <4> QED BY <1>1, <3>3, <3>4, <4>1, GreatestOf
    <3>6. \A n \in hits : n <= cursor => n \in page
      BY <2>4, <3>3, <3>5
    <3> QED BY <1>1, <2>2, <2>4, <2>5, <3>3, <3>4, <3>5, <3>6
  <2>7. CASE ~(Cardinality(matches) > ListLimit)
    <3>1. page = matches /\ cursor = next
      BY <1>4, <2>7
    <3>2. matches = hits
      BY <1>2, <1>4, <2>4, <2>7
    <3> QED BY <1>1, <2>2, <2>5, <3>1, <3>2
  <2> QED BY <2>6, <2>7
<1> QED BY <1>3, <1>4

LEMMA Appended ==
  ASSUME NEW s \in Seq(Nat), NEW n \in Nat
  PROVE /\ Append(s, n) \in Seq(Nat) /\ ToSet(Append(s, n)) = ToSet(s) \union {n}
        /\ Rising(s) /\ (\A m \in ToSet(s) : m < n) => Rising(Append(s, n))
<1>1. PICK t : t = Append(s, n)
  OBVIOUS
<1>2. /\ t \in Seq(Nat) /\ Len(t) = Len(s) + 1 /\ Len(s) \in Nat
      /\ \A i \in 1..Len(s) : t[i] = s[i]
      /\ t[Len(s) + 1] = n /\ \A i \in 1..Len(t) : i \in 1..Len(s) \/ i = Len(s) + 1
  BY <1>1
<1>3. ToSet(t) = {t[i] : i \in 1..Len(t)} /\ ToSet(s) = {s[i] : i \in 1..Len(s)}
  <2>1. \A u \in Seq(Nat) : DOMAIN u = 1..Len(u)
    OBVIOUS
  <2> QED BY <1>2, <2>1 DEF ToSet
<1>4. ASSUME NEW m \in ToSet(t) PROVE m \in ToSet(s) \union {n}
  BY <1>2, <1>3
<1>5. ASSUME NEW m \in ToSet(s) \union {n} PROVE m \in ToSet(t)
  BY <1>2, <1>3
<1>6. ASSUME Rising(s), \A m \in ToSet(s) : m < n PROVE Rising(t)
  <2>1. \A i \in 1..Len(s) : s[i] < n
    BY <1>3, <1>6
  <2>2. \A i, j \in 1..Len(s) : i < j => s[i] < s[j]
    BY <1>6 DEF Rising
  <2>3. ASSUME NEW i \in 1..Len(t), NEW j \in 1..Len(t), i < j PROVE t[i] < t[j]
    <3>1. i \in 1..Len(s)
      BY <1>2, <2>3
    <3> QED BY <1>2, <2>1, <2>2, <2>3, <3>1
  <2> QED BY <2>3 DEF Rising
<1> QED BY <1>1, <1>2, <1>4, <1>5, <1>6

LEMMA TakenFirst ==
  ASSUME NEW s \in Seq(Nat), s # <<>>
  PROVE /\ Tail(s) \in Seq(Nat) /\ Head(s) \in Nat /\ ToSet(s) = {Head(s)} \union ToSet(Tail(s))
        /\ Rising(s) => Rising(Tail(s)) /\ \A m \in ToSet(Tail(s)) : Head(s) < m
<1>1. PICK t : t = Tail(s)
  OBVIOUS
<1>2. /\ t \in Seq(Nat) /\ Len(s) \in Nat \ {0} /\ Len(t) = Len(s) - 1
      /\ \A i \in 1..Len(t) : t[i] = s[i + 1]
      /\ Head(s) = s[1] /\ s[1] \in Nat
  BY <1>1
<1>3. ToSet(t) = {t[i] : i \in 1..Len(t)} /\ ToSet(s) = {s[i] : i \in 1..Len(s)}
  <2>1. \A u \in Seq(Nat) : DOMAIN u = 1..Len(u)
    OBVIOUS
  <2> QED BY <1>2, <2>1 DEF ToSet
<1>4. ASSUME NEW m \in ToSet(s) PROVE m = s[1] \/ m \in ToSet(t)
  <2>1. PICK i \in 1..Len(s) : m = s[i]
    BY <1>3
  <2>2. CASE i # 1
    <3>1. i - 1 \in 1..Len(t) /\ (i - 1) + 1 = i
      BY <1>2, <2>2
    <3>2. t[i - 1] = s[i]
      BY <1>2, <3>1
    <3> QED BY <1>3, <2>1, <3>1, <3>2
  <2> QED BY <2>1, <2>2
<1>5. ASSUME NEW m \in ToSet(t) PROVE m \in ToSet(s)
  <2>1. PICK i \in 1..Len(t) : m = t[i]
    BY <1>3
  <2>2. i + 1 \in 1..Len(s) /\ m = s[i + 1]
    BY <1>2, <2>1
  <2> QED BY <1>3, <2>2
<1>6. s[1] \in ToSet(s)
  BY <1>2, <1>3
<1>7. ASSUME Rising(s) PROVE Rising(t) /\ \A m \in ToSet(t) : s[1] < m
  <2>1. \A i, j \in 1..Len(s) : i < j => s[i] < s[j]
    BY <1>7 DEF Rising
  <2>2. ASSUME NEW i \in 1..Len(t), NEW j \in 1..Len(t), i < j PROVE t[i] < t[j]
    <3>1. i + 1 \in 1..Len(s) /\ j + 1 \in 1..Len(s) /\ i + 1 < j + 1
      BY <1>2, <2>2
    <3> QED BY <1>2, <2>1, <3>1
  <2>3. ASSUME NEW m \in ToSet(t) PROVE s[1] < m
    <3>1. PICK i \in 1..Len(t) : m = t[i]
      BY <1>3
    <3>2. 1 \in 1..Len(s) /\ i + 1 \in 1..Len(s) /\ 1 < i + 1 /\ m = s[i + 1]
      BY <1>2, <3>1
    <3> QED BY <2>1, <3>2
  <2> QED BY <2>2, <2>3 DEF Rising
<1> QED BY <1>1, <1>2, <1>4, <1>5, <1>6, <1>7

LEMMA NoneIn == ToSet(<<>>) = {} /\ Rising(<<>>) /\ PagesRise(<<>>)
  BY DEF ToSet, Rising, PagesRise

LEMMA LogStarts == LogInit => LogInv
<1> SUFFICES ASSUME LogInit PROVE LogInv
  OBVIOUS
<1>1. /\ next = 1 /\ ring = <<1>> /\ head = 0 /\ process = 0 /\ matching \in SUBSET {1}
      /\ tail = [conn |-> OffLine, cursor |-> 0, of |-> 0] /\ got = <<>>
      /\ pager = [cursor |-> 0, of |-> 0] /\ read = <<>>
      /\ missed = [stream |-> {}, pages |-> {}]
  BY DEF LogInit
<1>2. /\ tail.conn = OffLine /\ tail.cursor = 0 /\ tail.of = 0 /\ pager.cursor = 0 /\ pager.of = 0
      /\ OffLine.state = "off" /\ OffLine.backlog = {} /\ OffLine.channel = <<>> /\ OffLine.after = 0
      /\ OffLine \in Filling
  BY <1>1 DEF OffLine, Filling
<1>3. Capacity \in Nat \ {0}
  BY LogAssumption DEF LogAssumption
<1>4. LogTyped
  <2>1. 1..1 = {1}
    OBVIOUS
  <2> QED BY <1>1, <1>2, <2>1 DEF LogTyped
<1>5. Placed
  BY <1>1, <1>3 DEF Placed
<1>6. Waiting = {}
  BY <1>2, NoneIn DEF Waiting
<1>7. InTurn
  BY <1>1, <1>2, <1>6, NoneIn DEF InTurn
<1>8. Streamed
  BY <1>1, <1>2 DEF Streamed
<1>9. Paged
  BY <1>1, <1>2, NoneIn DEF Paged
<1> QED BY <1>4, <1>5, <1>7, <1>8, <1>9 DEF LogInv

-----------------------------------------------------------------------------
\* A record is logged.
LEMMA LoggedPlaced == ASSUME LogInv, NEW matches \in BOOLEAN, Logged(matches) PROVE Placed'
<1>1. PICK len : len = Len(ring)
  OBVIOUS
<1>2. /\ ring \in Seq(Nat) /\ len \in Nat \ {0} /\ len <= Capacity /\ len <= next
      /\ head \in Nat /\ head < Capacity /\ (len < Capacity => head = 0 /\ next = len)
      /\ \A j \in 1..len : ring[j] = IF j > head THEN (next - len) + (j - head) ELSE next - (head - j)
      /\ next \in Nat /\ Capacity \in Nat \ {0}
  <2>1. Capacity \in Nat \ {0}
    BY LogAssumption DEF LogAssumption
  <2> QED BY <1>1, <2>1 DEF LogInv, LogTyped, Placed
<1>3. next' = next + 1
  BY DEF Logged
<1>4. CASE len < Capacity
  <2>1. ring' = Append(ring, next + 1) /\ head' = head
    BY <1>1, <1>4 DEF Logged
  <2>2. /\ ring' \in Seq(Nat) /\ Len(ring') = len + 1 /\ ring'[len + 1] = next + 1
        /\ \A j \in 1..len : ring'[j] = ring[j]
    BY <1>1, <1>2, <2>1
  <2>3. head' = 0 /\ next' = Len(ring')
    BY <1>2, <1>3, <1>4, <2>1, <2>2
  <2>4. ASSUME NEW j \in 1..Len(ring')
        PROVE ring'[j] = IF j > head' THEN (next' - Len(ring')) + (j - head') ELSE next' - (head' - j)
    BY <1>2, <1>3, <1>4, <2>2, <2>3
  <2>5. Len(ring') \in 1..Capacity /\ head' \in 0..Capacity - 1 /\ Len(ring') <= next'
    BY <1>2, <1>4, <2>2, <2>3
  <2> QED BY <2>2, <2>3, <2>4, <2>5 DEF Placed
<1>5. CASE ~(len < Capacity)
  <2>1. ring' = [ring EXCEPT ![head + 1] = next + 1] /\ head' = (head + 1) % Capacity
    BY <1>1, <1>5 DEF Logged
  <2>2. len = Capacity /\ head + 1 \in 1..len
    BY <1>2, <1>5
  <2>3. /\ ring' \in Seq(Nat) /\ Len(ring') = len /\ ring'[head + 1] = next + 1
        /\ \A j \in 1..len : j # head + 1 => ring'[j] = ring[j]
    <3>1. ring \in [1..len -> Nat] /\ next + 1 \in Nat
      BY <1>1, <1>2
    <3>2. ring' \in [1..len -> Nat] /\ ring'[head + 1] = next + 1
      BY <2>1, <2>2, <3>1
    <3>3. \A j \in 1..len : j # head + 1 => ring'[j] = ring[j]
      BY <2>1, <2>2, <3>1
    <3>4. ring' \in Seq(Nat) /\ Len(ring') = len
      <4>1. \A f \in [1..len -> Nat] : f \in Seq(Nat) /\ Len(f) = len
        <5>1. \A f \in [1..len -> Nat] : f \in Seq(Nat) /\ DOMAIN f = 1..len
          BY <1>2
        <5>2. \A f \in Seq(Nat) : DOMAIN f = 1..Len(f) /\ Len(f) \in Nat
          OBVIOUS
        <5>3. \A k \in Nat : 1..k = 1..len => k = len
          <6>1. ASSUME NEW k \in Nat, 1..k = 1..len PROVE k = len
            <7>1. len \in 1..k /\ (k >= 1 => k \in 1..len)
              BY <1>2, <6>1
            <7> QED BY <1>2, <7>1
          <6> QED BY <6>1
        <5> QED BY <5>1, <5>2, <5>3
      <4> QED BY <3>2, <4>1
    <3> QED BY <3>2, <3>3, <3>4
  <2>4. head' = IF head + 1 < Capacity THEN head + 1 ELSE 0
    <3>1. head + 1 \in Nat /\ head + 1 < Capacity => head' = head + 1
      BY <1>2, <2>1, Wrapped
    <3>2. ASSUME ~(head + 1 < Capacity) PROVE head' = 0
      <4>1. head + 1 \in Nat /\ Capacity <= head + 1 /\ head + 1 < 2 * Capacity /\ head + 1 = Capacity
        BY <1>2, <3>2
      <4>2. (head + 1) % Capacity = (head + 1) - Capacity
        BY <1>2, <4>1, Wrapped
      <4> QED BY <2>1, <4>1, <4>2
    <3> QED BY <1>2, <3>1, <3>2
  <2>5. ASSUME NEW j \in 1..len
        PROVE ring'[j] = IF j > head' THEN (next' - len) + (j - head') ELSE next' - (head' - j)
    <3>1. j \in Nat /\ 1 <= j /\ j <= len
      BY <1>2
    <3>2. CASE j = head + 1
      <4>1. ring'[j] = next + 1
        BY <2>3, <3>2
      <4>2. CASE head + 1 < Capacity
        <5>1. head' = j
          BY <2>4, <3>2, <4>2
        <5> QED BY <1>2, <1>3, <3>1, <4>1, <5>1
      <4>3. CASE ~(head + 1 < Capacity)
        <5>1. head' = 0 /\ j = len
          BY <1>2, <2>2, <2>4, <3>2, <4>3
        <5> QED BY <1>2, <1>3, <3>1, <4>1, <5>1
      <4> QED BY <4>2, <4>3
    <3>3. CASE j # head + 1
      <4>1. ring'[j] = IF j > head THEN (next - len) + (j - head) ELSE next - (head - j)
        BY <1>2, <2>3, <3>3
      <4> QED BY <1>2, <1>3, <2>2, <2>4, <3>1, <3>3, <4>1
    <3> QED BY <3>2, <3>3
  <2>6. Len(ring') \in 1..Capacity /\ head' \in 0..Capacity - 1 /\ Len(ring') <= next'
    BY <1>2, <1>3, <2>2, <2>3, <2>4
  <2>7. Len(ring') = len /\ ~(Len(ring') < Capacity)
    BY <1>2, <2>2, <2>3
  <2> QED BY <2>3, <2>5, <2>6, <2>7 DEF Placed
<1> QED BY <1>4, <1>5

\* It goes to the subscriber, or cuts it off: what the stream is owed.
LEMMA LoggedKeeps == ASSUME LogInv, NEW matches \in BOOLEAN, Logged(matches) PROVE LogInv'
<1>1. PICK n : n = next + 1
  OBVIOUS
<1>2. /\ next' = n /\ process' = process /\ got' = got /\ pager' = pager /\ read' = read /\ missed' = missed
      /\ matching' = IF matches THEN matching \union {n} ELSE matching
      /\ tail' = IF matches THEN [tail EXCEPT !.conn = Pushed(tail.conn, n)] ELSE tail
  BY <1>1 DEF Logged
<1>3. /\ next \in Nat \ {0} /\ n \in Nat /\ process \in Nat /\ matching \in SUBSET (1..next) /\ matching \in SUBSET (1..n)
      /\ tail \in [conn : Filling, cursor : Nat, of : Nat]
      /\ tail.conn \in Filling /\ tail.cursor \in Nat /\ tail.of \in Nat
      /\ \A m \in matching : m \in Nat /\ m <= next /\ m < n
  BY <1>1 DEF LogInv, LogTyped
<1>4. /\ tail.conn.state \in {"off", "subscribed", "closed"} /\ tail.conn.after \in Nat
      /\ tail.conn.backlog \in SUBSET Nat /\ tail.conn.channel \in Seq(Nat)
  BY <1>3 DEF Filling
<1>5. PICK conn : conn = IF matches THEN Pushed(tail.conn, n) ELSE tail.conn
  OBVIOUS
<1>6. tail'.conn = conn /\ tail'.cursor = tail.cursor /\ tail'.of = tail.of
  BY <1>2, <1>3, <1>5
<1>7. \/ conn = tail.conn /\ (matches => tail.conn.state # "subscribed" \/ n <= tail.conn.after)
      \/ /\ matches /\ tail.conn.state = "subscribed" /\ n > tail.conn.after
         /\ conn = [tail.conn EXCEPT !.channel = Append(tail.conn.channel, n)]
      \/ /\ matches /\ tail.conn.state = "subscribed" /\ n > tail.conn.after
         /\ conn = [tail.conn EXCEPT !.state = "closed"]
  BY <1>3, <1>4, <1>5 DEF Pushed
<1>8. /\ conn \in Filling /\ conn.after = tail.conn.after /\ conn.backlog = tail.conn.backlog
      /\ conn.channel = tail.conn.channel \/ conn.channel = Append(tail.conn.channel, n)
  <2>1. Append(tail.conn.channel, n) \in Seq(Nat)
    BY <1>3, <1>4
  <2> QED BY <1>3, <1>4, <1>7, <2>1 DEF Filling
<1>9. LogTyped'
  <2>1. tail' \in [conn : Filling, cursor : Nat, of : Nat]
    BY <1>2, <1>3, <1>5, <1>8
  <2>2. matching' \in SUBSET (1..n) /\ next' \in Nat \ {0}
    BY <1>1, <1>2, <1>3
  <2>3. /\ got \in Seq(Nat) /\ pager \in [cursor : Nat, of : Nat] /\ read \in Seq(SUBSET Nat)
        /\ missed \in [stream : SUBSET Nat, pages : SUBSET Nat]
    BY DEF LogInv, LogTyped
  <2> QED BY <1>2, <1>3, <2>1, <2>2, <2>3 DEF LogTyped
<1>10. Waiting' = Waiting \/ Waiting' = Waiting \union {n}
  <2>1. ToSet(Append(tail.conn.channel, n)) = ToSet(tail.conn.channel) \union {n}
    BY <1>3, <1>4, Appended
  <2>2. Waiting' = conn.backlog \union ToSet(conn.channel)
    BY <1>6 DEF Waiting
  <2> QED BY <1>8, <2>1, <2>2 DEF Waiting
<1>11. PICK waits : waits = Waiting
  OBVIOUS
<1>12. /\ tail.of <= process /\ Rising(got) /\ \A m \in ToSet(got) : m <= tail.cursor /\ m <= next
       /\ tail.of = process => tail.cursor <= next
       /\ tail.conn.state = "off" => waits = {}
       /\ waits \subseteq matching /\ \A m \in waits : m > tail.cursor
       /\ Rising(tail.conn.channel)
       /\ \A m \in tail.conn.backlog, k \in ToSet(tail.conn.channel) : m < k
  BY <1>11 DEF LogInv, InTurn
<1>13. tail.conn.state # "off" =>
           /\ tail.conn.after <= tail.cursor
           /\ tail.cursor = tail.conn.after \/ tail.cursor <= next
           /\ tail.of # process =>
                  tail.conn.after = tail.cursor /\ 1..tail.conn.after \subseteq missed.stream
  BY DEF LogInv, InTurn
<1>14. \A m \in ToSet(got) : m \in Nat
  BY DEF LogInv, LogTyped, ToSet
<1>15. ToSet(tail.conn.channel) \subseteq waits /\ tail.conn.backlog \subseteq waits
  BY <1>11 DEF Waiting
<1>16. ASSUME tail.conn.state # "off", n <= tail.conn.after PROVE n \in missed.stream
  <2>1. tail.cursor >= n /\ ~(tail.cursor <= next)
    BY <1>1, <1>3, <1>4, <1>12, <1>13, <1>16
  <2>2. tail.of # process
    BY <1>12, <2>1
  <2> QED BY <1>1, <1>3, <1>4, <1>13, <1>16, <2>2
<1>17. ASSUME tail.conn.state # "off", n > tail.conn.after PROVE n > tail.cursor
  BY <1>1, <1>3, <1>4, <1>13, <1>17
<1>18. InTurn'
  <2>1. /\ tail.of <= process /\ Rising(got) /\ \A m \in ToSet(got) : m <= tail.cursor /\ m <= n
        /\ tail.of = process => tail.cursor <= n
    BY <1>1, <1>3, <1>12, <1>14
  <2>2. conn.state = "off" => conn = tail.conn
    BY <1>7, <1>8, <1>3 DEF Filling
  <2>3. conn.state = "off" => Waiting' = {}
    <3>1. conn = tail.conn => Waiting' = waits
      BY <1>6, <1>11 DEF Waiting
    <3> QED BY <1>12, <2>2, <3>1
  <2>4. Waiting' \subseteq matching' /\ \A m \in Waiting' : m > tail.cursor
    <3>1. n \in Waiting' => n \in matching' /\ n > tail.cursor
      <4>1. CASE conn.channel = tail.conn.channel
        <5>1. Waiting' = waits
          BY <1>6, <1>8, <1>11, <4>1 DEF Waiting
        <5> QED BY <1>3, <1>12, <5>1
      <4>2. CASE conn.channel # tail.conn.channel
        <5>1. matches /\ tail.conn.state = "subscribed" /\ n > tail.conn.after
          BY <1>3, <1>7, <4>2 DEF Filling
        <5> QED BY <1>2, <1>17, <5>1
      <4> QED BY <4>1, <4>2
    <3> QED BY <1>2, <1>10, <1>11, <1>12, <3>1
  <2>5. Rising(conn.channel)
    <3>1. \A m \in ToSet(tail.conn.channel) : m < n
      BY <1>3, <1>12, <1>15
    <3>2. Rising(Append(tail.conn.channel, n))
      BY <1>3, <1>4, <1>12, <3>1, Appended
    <3> QED BY <1>8, <1>12, <3>2
  <2>6. ASSUME NEW m \in conn.backlog, NEW k \in ToSet(conn.channel) PROVE m < k
    <3>1. m \in tail.conn.backlog /\ m < n
      BY <1>3, <1>8, <1>12, <1>15
    <3>2. k \in ToSet(tail.conn.channel) \/ k = n
      <4>1. ToSet(Append(tail.conn.channel, n)) = ToSet(tail.conn.channel) \union {n}
        BY <1>3, <1>4, Appended
      <4> QED BY <1>8, <4>1
    <3> QED BY <1>12, <3>1, <3>2
  <2>7. conn.state # "off" =>
           /\ conn.after <= tail.cursor
           /\ tail.cursor = conn.after \/ tail.cursor <= n
           /\ tail.of # process => conn.after = tail.cursor /\ 1..conn.after \subseteq missed.stream
    <3>1. conn.state # "off" => tail.conn.state # "off"
      BY <1>7
    <3> QED BY <1>1, <1>3, <1>8, <1>13, <3>1
  <2> QED BY <1>2, <1>6, <2>1, <2>3, <2>4, <2>5, <2>6, <2>7 DEF InTurn
<1>19. /\ tail.of = process => \A m \in matching : m <= tail.cursor => m \in ToSet(got) \union missed.stream
       /\ tail.conn.state # "off" => \A m \in matching :
               \/ m \in ToSet(got) \union missed.stream \union waits
               \/ tail.conn.state = "closed" /\ m > tail.cursor /\ \A k \in waits : k < m
  BY <1>11 DEF LogInv, Streamed
<1>20. Streamed'
  <2>1. ASSUME tail.of = process, NEW m \in matching', m <= tail.cursor PROVE m \in ToSet(got) \union missed.stream
    <3>1. m \in matching \/ m = n
      BY <1>2
    <3>2. m # n
      BY <1>1, <1>3, <1>12, <2>1
    <3> QED BY <1>19, <2>1, <3>1, <3>2
  <2>2. ASSUME conn.state # "off", NEW m \in matching'
        PROVE \/ m \in ToSet(got) \union missed.stream \union Waiting'
              \/ conn.state = "closed" /\ m > tail.cursor /\ \A k \in Waiting' : k < m
    <3>1. tail.conn.state # "off"
      BY <1>7, <2>2
    <3>2. CASE conn = tail.conn /\ (matches => tail.conn.state # "subscribed" \/ n <= tail.conn.after)
      <4>1. Waiting' = waits
        BY <1>6, <1>11, <3>2 DEF Waiting
      <4>2. CASE m \in matching
        BY <1>19, <3>1, <3>2, <4>1, <4>2
      <4>3. CASE m \notin matching
        <5>1. m = n /\ matches
          BY <1>2, <4>3
        <5>2. n <= tail.conn.after => n \in missed.stream
          BY <1>16, <3>1
        <5>3. ~(n <= tail.conn.after) => n > tail.cursor /\ \A k \in waits : k < n
          BY <1>3, <1>4, <1>12, <1>17, <3>1
        <5>4. ~(n <= tail.conn.after) => tail.conn.state = "closed"
          BY <1>4, <3>1, <3>2, <5>1
        <5> QED BY <3>2, <4>1, <5>1, <5>2, <5>3, <5>4
      <4> QED BY <4>2, <4>3
    <3>3. CASE /\ matches /\ tail.conn.state = "subscribed" /\ n > tail.conn.after
               /\ conn = [tail.conn EXCEPT !.channel = Append(tail.conn.channel, n)]
      <4>1. conn.channel = Append(tail.conn.channel, n)
        BY <1>3, <3>3 DEF Filling
      <4>2. Waiting' = waits \union {n}
        <5>1. ToSet(Append(tail.conn.channel, n)) = ToSet(tail.conn.channel) \union {n}
          BY <1>3, <1>4, Appended
        <5> QED BY <1>6, <1>8, <1>11, <4>1, <5>1 DEF Waiting
      <4>3. m \in matching \/ m = n
        BY <1>2
      <4> QED BY <1>19, <3>3, <4>2, <4>3
    <3>4. CASE /\ matches /\ tail.conn.state = "subscribed" /\ n > tail.conn.after
               /\ conn = [tail.conn EXCEPT !.state = "closed"]
      <4>1. conn.state = "closed" /\ conn.channel = tail.conn.channel
        BY <1>3, <3>4 DEF Filling
      <4>2. Waiting' = waits
        BY <1>6, <1>8, <1>11, <4>1 DEF Waiting
      <4>3. CASE m \in matching
        BY <1>19, <3>4, <4>2, <4>3
      <4>4. CASE m \notin matching
        <5>1. m = n
          BY <1>2, <4>4
        <5>2. n > tail.cursor /\ \A k \in waits : k < n
          BY <1>3, <1>12, <1>17, <3>4
        <5> QED BY <4>1, <4>2, <5>1, <5>2
      <4> QED BY <4>3, <4>4
    <3> QED BY <1>7, <3>2, <3>3, <3>4
  <2> QED BY <1>2, <1>6, <2>1, <2>2 DEF Streamed
<1>21. Paged'
  <2>1. Paged /\ pager.cursor \in Nat
    BY DEF LogInv, LogTyped
  <2>2. ASSUME pager.of = process, NEW m \in matching', m <= pager.cursor PROVE m \in (UNION ToSet(read)) \union missed.pages
    <3>1. m \in matching \/ m = n
      BY <1>2
    <3>2. m # n
      BY <1>1, <1>3, <2>1, <2>2 DEF Paged
    <3> QED BY <2>1, <2>2, <3>1, <3>2 DEF Paged
  <2>3. pager.of = process => pager.cursor <= n
    BY <1>1, <1>3, <2>1 DEF Paged
  <2> QED BY <1>2, <2>1, <2>2, <2>3 DEF Paged
<1> QED BY <1>9, <1>18, <1>20, <1>21, LoggedPlaced DEF LogInv

-----------------------------------------------------------------------------
\* The stream's client asks, with the cursor it has.
LEMMA SubscribeKeeps == ASSUME LogInv, Subscribe PROVE LogInv'
<1>1. PICK after, backlog, lost :
         /\ after = tail.cursor /\ backlog = NewestMatches(after, IF after > 0 THEN 0 ELSE TailLimit)
         /\ lost = (Lost(after) \union Stale(tail, after))
                     \union (IF after = 0 THEN Before(backlog, TailLimit) ELSE {})
  OBVIOUS
<1>2. PICK conn : conn = [state |-> "subscribed", after |-> after, backlog |-> backlog, channel |-> <<>>]
  OBVIOUS
<1>3. /\ tail.conn.state = "off" /\ tail' = [tail EXCEPT !.conn = conn]
      /\ missed' = [missed EXCEPT !.stream = missed.stream \union lost]
      /\ next' = next /\ ring' = ring /\ head' = head /\ process' = process /\ matching' = matching
      /\ got' = got /\ pager' = pager /\ read' = read
  <2>1. tail' = [tail EXCEPT !.conn = conn]
    BY <1>1, <1>2 DEF Subscribe
  <2>2. missed' = [missed EXCEPT !.stream = missed.stream \union lost]
    BY <1>1 DEF Subscribe
  <2> QED BY <2>1, <2>2 DEF Subscribe
<1>4. /\ LogTyped /\ Placed /\ InTurn /\ Streamed /\ Paged /\ after \in Nat
      /\ tail \in [conn : Filling, cursor : Nat, of : Nat]
      /\ missed \in [stream : SUBSET Nat, pages : SUBSET Nat]
      /\ matching \in SUBSET (1..next) /\ next \in Nat /\ \A m \in matching : m \in Nat /\ m <= next
  BY <1>1 DEF LogInv, LogTyped
<1>5. /\ backlog \subseteq matching /\ \A m \in backlog : m > after
      /\ \A m \in matching : m > after =>
            m \in backlog \union (Lost(after) \union (IF after = 0 THEN Before(backlog, TailLimit) ELSE {}))
  BY <1>1, <1>4, BacklogIs
<1>6. lost \in SUBSET Nat
  <2>1. Lost(after) \subseteq Nat /\ Before(backlog, TailLimit) \subseteq Nat /\ Stale(tail, after) \subseteq Nat
    BY <1>4, MissedTyped
  <2> QED BY <1>1, <2>1
<1>7. conn \in Filling
  <2>1. backlog \in SUBSET Nat /\ <<>> \in Seq(Nat)
    BY <1>4, <1>5
  <2> QED BY <1>2, <1>4, <2>1 DEF Filling
<1>8. /\ tail'.conn = conn /\ tail'.cursor = after /\ tail'.of = tail.of
      /\ missed'.stream = missed.stream \union lost /\ missed'.pages = missed.pages
      /\ conn.state = "subscribed" /\ conn.after = after /\ conn.backlog = backlog /\ conn.channel = <<>>
  BY <1>1, <1>2, <1>3, <1>4
<1>9. LogTyped'
  <2>1. tail' \in [conn : Filling, cursor : Nat, of : Nat] /\ missed' \in [stream : SUBSET Nat, pages : SUBSET Nat]
    BY <1>3, <1>4, <1>6, <1>7
  <2> QED BY <1>3, <1>4, <2>1 DEF LogTyped
<1>10. Waiting' = backlog
  BY <1>8, NoneIn DEF Waiting
<1>11. tail.of # process => 1..after \subseteq missed'.stream
  <2>1. ASSUME tail.of # process PROVE 1..after \subseteq lost
    <3>1. Stale(tail, after) = 1..after
      BY <1>1, <1>4, <2>1 DEF Stale, Lesser
    <3> QED BY <1>1, <3>1
  <2> QED BY <1>8, <2>1
<1>12. InTurn'
  <2>1. ToSet(conn.channel) = {} /\ Rising(conn.channel)
    BY <1>8, NoneIn
  <2>2. /\ tail.of <= process /\ Rising(got) /\ \A n \in ToSet(got) : n <= tail.cursor /\ n <= next
        /\ tail.of = process => tail.cursor <= next
    BY <1>4 DEF InTurn
  <2>3. after <= after
    BY <1>4
  <2> QED BY <1>1, <1>3, <1>5, <1>8, <1>10, <1>11, <2>1, <2>2, <2>3 DEF InTurn
<1>13. Streamed'
  <2>1. tail.of = process => \A m \in matching : m <= after => m \in ToSet(got) \union missed.stream
    BY <1>1, <1>4 DEF Streamed
  <2>2. ASSUME NEW m \in matching PROVE m \in ToSet(got) \union missed'.stream \union backlog
    <3>1. CASE m > after
      BY <1>1, <1>5, <1>8, <3>1
    <3>2. CASE ~(m > after)
      <4>1. m <= after /\ m \in 1..after
        BY <1>4, <3>2
      <4> QED BY <1>8, <1>11, <2>1, <4>1
    <3> QED BY <3>1, <3>2
  <2> QED BY <1>3, <1>8, <1>10, <2>1, <2>2 DEF Streamed
<1>14. Placed' /\ Paged'
  BY <1>3, <1>4, <1>8 DEF Placed, Paged
<1> QED BY <1>9, <1>12, <1>13, <1>14 DEF LogInv

\* It is sent the first of what waits.
LEMMA ToldKeeps ==
  ASSUME LogInv, NEW conn, NEW n, Tells(n, conn), tail.conn.state # "off", n \in Waiting,
         conn \in Filling, conn.state = tail.conn.state, conn.after = tail.conn.after,
         conn.backlog \subseteq tail.conn.backlog, Rising(conn.channel),
         ToSet(conn.channel) \subseteq ToSet(tail.conn.channel),
         tail.conn.backlog \union ToSet(tail.conn.channel)
           = {n} \union (conn.backlog \union ToSet(conn.channel)),
         \A m \in conn.backlog \union ToSet(conn.channel) : n < m,
         next' = next, ring' = ring, head' = head, process' = process, matching' = matching,
         pager' = pager, read' = read, missed' = missed
  PROVE LogInv'
<1>1. /\ LogTyped /\ Placed /\ InTurn /\ Streamed /\ Paged
      /\ tail.cursor \in Nat /\ got \in Seq(Nat) /\ process \in Nat
      /\ matching \in SUBSET (1..next) /\ next \in Nat /\ \A m \in matching : m \in Nat /\ m <= next
  BY DEF LogInv, LogTyped
<1>2. n \in matching /\ n > tail.cursor /\ n \in Nat /\ n <= next
  BY <1>1 DEF InTurn
<1>3. /\ tail' = [conn |-> conn, cursor |-> n, of |-> process] /\ got' = Append(got, n)
  BY <1>2 DEF Tells
<1>4. tail'.conn = conn /\ tail'.cursor = n /\ tail'.of = process
  BY <1>3
<1>5. PICK waits : waits = conn.backlog \union ToSet(conn.channel)
  OBVIOUS
<1>6. Waiting' = waits /\ Waiting = {n} \union waits /\ \A m \in waits : n < m
  BY <1>4, <1>5 DEF Waiting
<1>7. LogTyped'
  <2>1. tail' \in [conn : Filling, cursor : Nat, of : Nat]
    BY <1>1, <1>2, <1>3
  <2>2. got' \in Seq(Nat)
    BY <1>1, <1>2, <1>3
  <2> QED BY <1>1, <2>1, <2>2 DEF LogTyped
<1>8. \A m \in ToSet(got) : m \in Nat /\ m <= tail.cursor /\ m < n
  <2>1. \A m \in ToSet(got) : m \in Nat /\ m <= tail.cursor
    BY <1>1 DEF InTurn, ToSet
  <2> QED BY <1>1, <1>2, <2>1
<1>9. Rising(got') /\ ToSet(got') = ToSet(got) \union {n}
  <2>1. Rising(got)
    BY <1>1 DEF InTurn
  <2> QED BY <1>1, <1>2, <1>3, <1>8, <2>1, Appended
<1>10. InTurn'
  <2>1. \A m \in ToSet(got') : m <= n /\ m <= next
    BY <1>1, <1>2, <1>8, <1>9
  <2>2. waits \subseteq matching /\ \A m \in waits : m > n
    BY <1>1, <1>2, <1>6 DEF InTurn
  <2>3. \A m \in conn.backlog, k \in ToSet(conn.channel) : m < k
    BY <1>1 DEF InTurn
  <2>4. conn.after <= n
    <3>1. conn.after <= tail.cursor /\ conn.after \in Nat
      BY <1>1 DEF InTurn, Filling
    <3> QED BY <1>1, <1>2, <3>1
  <2>5. process <= process
    BY <1>1
  <2> QED BY <1>2, <1>4, <1>6, <1>9, <2>1, <2>2, <2>3, <2>4, <2>5 DEF InTurn
<1>11. Streamed'
  <2>1. \A m \in matching : \/ m \in ToSet(got) \union missed.stream \union Waiting
                            \/ tail.conn.state = "closed" /\ m > tail.cursor /\ \A k \in Waiting : k < m
    BY <1>1 DEF Streamed
  <2>2. ASSUME NEW m \in matching
        PROVE \/ m \in ToSet(got') \union missed.stream \union waits
              \/ conn.state = "closed" /\ m > n /\ \A k \in waits : k < m
    <3>1. CASE m \in ToSet(got) \union missed.stream \union Waiting
      BY <1>6, <1>9, <3>1
    <3>2. CASE tail.conn.state = "closed" /\ m > tail.cursor /\ \A k \in Waiting : k < m
      <4>1. n < m
        BY <3>2
      <4> QED BY <1>1, <1>2, <1>6, <3>2, <4>1
    <3> QED BY <2>1, <3>1, <3>2
  <2>3. ASSUME NEW m \in matching, m <= n PROVE m \in ToSet(got') \union missed.stream
    <3>1. m \notin waits
      <4>1. m \in waits => n < m
        BY <1>6
      <4> QED BY <1>1, <1>2, <2>3, <4>1
    <3>2. ~(m > n)
      BY <1>1, <1>2, <2>3
    <3> QED BY <2>2, <3>1, <3>2
  <2> QED BY <1>4, <1>6, <2>2, <2>3 DEF Streamed
<1>12. Placed' /\ Paged'
  BY <1>1 DEF Placed, Paged
<1> QED BY <1>7, <1>10, <1>11, <1>12 DEF LogInv

LEMMA SendsKeep == ASSUME LogInv, SendsBacklog \/ SendsLive PROVE LogInv'
<1>1. /\ tail.conn \in Filling /\ tail.conn.backlog \in SUBSET Nat /\ tail.conn.channel \in Seq(Nat)
      /\ Rising(tail.conn.channel)
      /\ \A m \in tail.conn.backlog, k \in ToSet(tail.conn.channel) : m < k
      /\ Waiting = tail.conn.backlog \union ToSet(tail.conn.channel)
  BY DEF LogInv, LogTyped, InTurn, Filling, Waiting
<1>2. CASE SendsBacklog
  <2>1. PICK n : n = Min(tail.conn.backlog)
    OBVIOUS
  <2>2. PICK conn : conn = [tail.conn EXCEPT !.backlog = tail.conn.backlog \ {n}]
    OBVIOUS
  <2>3. /\ Tells(n, conn) /\ tail.conn.state # "off" /\ tail.conn.backlog # {}
        /\ next' = next /\ ring' = ring /\ head' = head /\ process' = process /\ matching' = matching
        /\ pager' = pager /\ read' = read /\ missed' = missed
    BY <1>2, <2>1, <2>2 DEF SendsBacklog
  <2>4. n \in tail.conn.backlog /\ \A m \in tail.conn.backlog : n <= m
    BY <1>1, <2>1, <2>3, LeastOf
  <2>5. conn \in Filling
    BY <1>1, <2>2 DEF Filling
  <2>6. /\ conn.state = tail.conn.state /\ conn.after = tail.conn.after
        /\ conn.backlog = tail.conn.backlog \ {n} /\ conn.channel = tail.conn.channel
    BY <1>1, <2>2 DEF Filling
  <2>7. \A m \in conn.backlog \union ToSet(conn.channel) : n < m
    <3>1. \A m \in tail.conn.backlog : m \in Nat
      BY <1>1
    <3> QED BY <1>1, <2>4, <2>6, <3>1
  <2> QED BY <1>1, <2>3, <2>4, <2>5, <2>6, <2>7, ToldKeeps
<1>3. CASE SendsLive
  <2>1. PICK n : n = Head(tail.conn.channel)
    OBVIOUS
  <2>2. PICK conn : conn = [tail.conn EXCEPT !.channel = Tail(tail.conn.channel)]
    OBVIOUS
  <2>3. /\ Tells(n, conn) /\ tail.conn.state # "off" /\ tail.conn.backlog = {} /\ tail.conn.channel # <<>>
        /\ next' = next /\ ring' = ring /\ head' = head /\ process' = process /\ matching' = matching
        /\ pager' = pager /\ read' = read /\ missed' = missed
    BY <1>3, <2>1, <2>2 DEF SendsLive
  <2>4. /\ Tail(tail.conn.channel) \in Seq(Nat)
        /\ ToSet(tail.conn.channel) = {n} \union ToSet(Tail(tail.conn.channel))
        /\ Rising(Tail(tail.conn.channel)) /\ \A m \in ToSet(Tail(tail.conn.channel)) : n < m
    BY <1>1, <2>1, <2>3, TakenFirst
  <2>5. conn \in Filling
    BY <1>1, <2>2, <2>4 DEF Filling
  <2>6. /\ conn.state = tail.conn.state /\ conn.after = tail.conn.after
        /\ conn.backlog = tail.conn.backlog /\ conn.channel = Tail(tail.conn.channel)
    BY <1>1, <2>2 DEF Filling
  <2> QED BY <1>1, <2>3, <2>4, <2>5, <2>6, ToldKeeps
<1> QED BY <1>2, <1>3

\* The stream ends, the process restarts: the clients keep their cursors.
LEMMA OffLineIs ==
  /\ OffLine \in Filling /\ OffLine.state = "off" /\ OffLine.backlog = {} /\ OffLine.channel = <<>>
  BY DEF OffLine, Filling

LEMMA StreamEndKeeps == ASSUME LogInv, StreamEnds PROVE LogInv'
<1>1. /\ LogTyped /\ Placed /\ InTurn /\ Streamed /\ Paged
      /\ tail \in [conn : Filling, cursor : Nat, of : Nat]
  BY DEF LogInv, LogTyped
<1>2. /\ tail' = [tail EXCEPT !.conn = OffLine]
      /\ next' = next /\ ring' = ring /\ head' = head /\ process' = process /\ matching' = matching
      /\ got' = got /\ pager' = pager /\ read' = read /\ missed' = missed
  BY DEF StreamEnds
<1>3. tail'.conn = OffLine /\ tail'.cursor = tail.cursor /\ tail'.of = tail.of
  BY <1>1, <1>2
<1>4. LogTyped'
  <2>1. tail' \in [conn : Filling, cursor : Nat, of : Nat]
    BY <1>1, <1>2, OffLineIs
  <2> QED BY <1>1, <1>2, <2>1 DEF LogTyped
<1>5. Waiting' = {}
  BY <1>3, OffLineIs, NoneIn DEF Waiting
<1>6. InTurn'
  <2>1. ToSet(OffLine.channel) = {} /\ Rising(OffLine.channel)
    BY OffLineIs, NoneIn
  <2> QED BY <1>1, <1>2, <1>3, <1>5, <2>1, OffLineIs DEF InTurn
<1>7. Streamed'
  BY <1>1, <1>2, <1>3, OffLineIs DEF Streamed
<1>8. Placed' /\ Paged'
  BY <1>1, <1>2 DEF Placed, Paged
<1> QED BY <1>4, <1>6, <1>7, <1>8 DEF LogInv

LEMMA LogRestartKeeps == ASSUME LogInv, LogRestarts PROVE LogInv'
<1>1. /\ LogTyped /\ InTurn /\ Paged /\ process \in Nat
      /\ tail \in [conn : Filling, cursor : Nat, of : Nat] /\ pager \in [cursor : Nat, of : Nat]
  BY DEF LogInv, LogTyped
<1>2. /\ tail' = [tail EXCEPT !.conn = OffLine] /\ process' = process + 1
      /\ next' = 1 /\ ring' = <<1>> /\ head' = 0 /\ matching' \in SUBSET {1}
      /\ got' = <<>> /\ pager' = pager /\ read' = <<>>
      /\ missed' = [stream |-> {}, pages |-> {}]
  BY DEF LogRestarts
<1>3. /\ tail'.conn = OffLine /\ tail'.cursor = tail.cursor /\ tail'.of = tail.of
      /\ tail.of \in Nat /\ pager.of \in Nat
  BY <1>1, <1>2
<1>4. LogTyped'
  <2>1. tail' \in [conn : Filling, cursor : Nat, of : Nat]
    BY <1>1, <1>2, OffLineIs
  <2>2. 1..1 = {1} /\ <<>> \in Seq(Nat) /\ <<>> \in Seq(SUBSET Nat)
    OBVIOUS
  <2>3. missed' \in [stream : SUBSET Nat, pages : SUBSET Nat]
    BY <1>2
  <2> QED BY <1>1, <1>2, <2>1, <2>2, <2>3 DEF LogTyped
<1>5. Placed'
  <2>1. Capacity \in Nat \ {0}
    BY LogAssumption DEF LogAssumption
  <2> QED BY <1>2, <2>1 DEF Placed
<1>6. Waiting' = {}
  BY <1>3, OffLineIs, NoneIn DEF Waiting
<1>7. tail.of < process' /\ pager.of < process'
  <2>1. tail.of <= process /\ pager.of <= process
    BY <1>1 DEF InTurn, Paged
  <2> QED BY <1>1, <1>2, <1>3, <2>1
<1>8. tail.of # process' /\ pager.of # process' /\ tail.of <= process' /\ pager.of <= process'
  BY <1>1, <1>2, <1>3, <1>7
<1>9. InTurn'
  <2>1. ToSet(OffLine.channel) = {} /\ Rising(OffLine.channel) /\ ToSet(got') = {} /\ Rising(got')
    BY <1>2, OffLineIs, NoneIn
  <2> QED BY <1>2, <1>3, <1>6, <1>8, <2>1, OffLineIs DEF InTurn
<1>10. Streamed'
  BY <1>3, <1>8, OffLineIs DEF Streamed
<1>11. Paged'
  <2>1. ToSet(read') = {} /\ PagesRise(read')
    BY <1>2, NoneIn
  <2> QED BY <1>2, <1>8, <2>1 DEF Paged
<1> QED BY <1>4, <1>5, <1>9, <1>10, <1>11 DEF LogInv

-----------------------------------------------------------------------------
\* The other client asks for its next page.
LEMMA PageAdded ==
  ASSUME NEW s \in Seq(SUBSET Nat), NEW page \in SUBSET Nat,
         PagesRise(s), \A m \in UNION ToSet(s), n \in page : m < n
  PROVE /\ Append(s, page) \in Seq(SUBSET Nat) /\ PagesRise(Append(s, page))
        /\ UNION ToSet(Append(s, page)) = (UNION ToSet(s)) \union page
<1>1. PICK t : t = Append(s, page)
  OBVIOUS
<1>2. /\ t \in Seq(SUBSET Nat) /\ Len(t) = Len(s) + 1 /\ Len(s) \in Nat
      /\ \A i \in 1..Len(s) : t[i] = s[i]
      /\ t[Len(s) + 1] = page /\ \A i \in 1..Len(t) : i \in 1..Len(s) \/ i = Len(s) + 1
  BY <1>1
<1>3. ToSet(t) = {t[i] : i \in 1..Len(t)} /\ ToSet(s) = {s[i] : i \in 1..Len(s)}
  <2>1. \A u \in Seq(SUBSET Nat) : DOMAIN u = 1..Len(u)
    OBVIOUS
  <2> QED BY <1>2, <2>1 DEF ToSet
<1>4. ToSet(t) = ToSet(s) \union {page}
  <2>1. ASSUME NEW m \in ToSet(t) PROVE m \in ToSet(s) \union {page}
    BY <1>2, <1>3
  <2>2. ASSUME NEW m \in ToSet(s) \union {page} PROVE m \in ToSet(t)
    BY <1>2, <1>3
  <2> QED BY <2>1, <2>2
<1>5. PagesRise(t)
  <2>1. ASSUME NEW i \in 1..Len(t), NEW j \in 1..Len(t), i < j, NEW m \in t[i], NEW n \in t[j] PROVE m < n
    <3>1. i \in 1..Len(s) /\ m \in s[i] /\ s[i] \in ToSet(s)
      BY <1>2, <1>3, <2>1
    <3>2. CASE j \in 1..Len(s)
      BY <1>2, <2>1, <3>1, <3>2 DEF PagesRise
    <3>3. CASE j = Len(s) + 1
      <4>1. m \in UNION ToSet(s) /\ n \in page
        BY <1>2, <2>1, <3>1, <3>3
      <4> QED BY <4>1
    <3> QED BY <1>2, <3>2, <3>3
  <2> QED BY <2>1 DEF PagesRise
<1> QED BY <1>1, <1>2, <1>4, <1>5

LEMMA ListKeeps == ASSUME LogInv, ListLogs PROVE LogInv'
<1>1. PICK after, matches : after = pager.cursor /\ matches = OldestMatches(after, ListLimit + 1)
  OBVIOUS
<1>2. PICK page : page = CASE after = 0 -> NewestMatches(0, ListLimit)
                           [] after > 0 /\ Cardinality(matches) > ListLimit -> Lowest(matches, ListLimit)
                           [] OTHER -> matches
  OBVIOUS
<1>3. PICK cursor : cursor = IF after > 0 /\ Cardinality(matches) > ListLimit THEN Max(page) ELSE next
  OBVIOUS
<1>4. PICK lost : lost = (IF (after > 0 /\ after < At(0) - 1) \/ after = 0 THEN Lost(after) ELSE {})
                           \union (IF after = 0 THEN Before(page, ListLimit) ELSE {})
                           \union Stale(pager, cursor)
  OBVIOUS
<1>5. /\ pager' = [cursor |-> cursor, of |-> process]
      /\ read' = (IF page = {} THEN read ELSE Append(read, page))
      /\ next' = next /\ ring' = ring /\ head' = head /\ process' = process /\ matching' = matching
      /\ tail' = tail /\ got' = got
  BY <1>1, <1>2, <1>3 DEF ListLogs
<1>6. missed' = [missed EXCEPT !.pages = missed.pages \union lost]
  BY <1>1, <1>2, <1>3, <1>4 DEF ListLogs
<1>7. /\ LogTyped /\ Placed /\ InTurn /\ Streamed /\ Paged /\ after \in Nat
      /\ pager \in [cursor : Nat, of : Nat] /\ read \in Seq(SUBSET Nat)
      /\ missed \in [stream : SUBSET Nat, pages : SUBSET Nat] /\ process \in Nat
      /\ matching \in SUBSET (1..next) /\ next \in Nat /\ \A m \in matching : m \in Nat /\ m <= next
  BY <1>1 DEF LogInv, LogTyped
<1>8. /\ page \subseteq matching /\ cursor \in Nat /\ cursor <= next /\ (after <= next => after <= cursor)
      /\ \A n \in page : n > after /\ n <= cursor
      /\ \A n \in matching : n > after /\ n <= cursor =>
            n \in page \union (Lost(after) \union (IF after = 0 THEN Before(page, ListLimit) ELSE {}))
  BY <1>1, <1>2, <1>3, <1>7, PageIsWhole
<1>9. lost \in SUBSET Nat
  <2>1. Lost(after) \subseteq Nat /\ Before(page, ListLimit) \subseteq Nat /\ Stale(pager, cursor) \subseteq Nat
    BY <1>7, <1>8, MissedTyped
  <2> QED BY <1>4, <2>1
<1>10. pager'.cursor = cursor /\ pager'.of = process /\ missed'.stream = missed.stream
       /\ missed'.pages = missed.pages \union lost
  BY <1>5, <1>6, <1>7
<1>11. page \in SUBSET Nat
  BY <1>7, <1>8
<1>12. /\ pager.of <= process /\ PagesRise(read)
       /\ \A n \in UNION ToSet(read) : n <= after
       /\ pager.of # process => read = <<>>
       /\ pager.of = process => after <= next
       /\ pager.of = process => \A n \in matching : n <= after => n \in (UNION ToSet(read)) \union missed.pages
  BY <1>1, <1>7 DEF Paged
<1>13. \A n \in UNION ToSet(read) : n \in Nat
  <2>1. ASSUME NEW s \in ToSet(read) PROVE s \subseteq Nat
    BY <1>7 DEF ToSet
  <2> QED BY <2>1
<1>14. read' \in Seq(SUBSET Nat) /\ PagesRise(read') /\ UNION ToSet(read') = (UNION ToSet(read)) \union page
  <2>1. CASE page = {}
    BY <1>5, <1>7, <1>12, <2>1
  <2>2. CASE page # {}
    <3>1. \A m \in UNION ToSet(read), n \in page : m < n
      <4>1. ASSUME NEW m \in UNION ToSet(read), NEW n \in page PROVE m < n
        <5>1. m \in Nat /\ m <= after /\ n \in Nat /\ n > after
          BY <1>8, <1>11, <1>12, <1>13
        <5> QED BY <1>7, <5>1
      <4> QED BY <4>1
    <3>2. read' = Append(read, page)
      BY <1>5, <2>2
    <3> QED BY <1>7, <1>11, <1>12, <3>1, <3>2, PageAdded
  <2> QED BY <2>1, <2>2
<1>15. LogTyped'
  <2>1. pager' \in [cursor : Nat, of : Nat] /\ missed' \in [stream : SUBSET Nat, pages : SUBSET Nat]
    BY <1>5, <1>6, <1>7, <1>8, <1>9
  <2> QED BY <1>5, <1>7, <1>14, <2>1 DEF LogTyped
<1>16. \A n \in matching : n > after /\ n \in Lost(after) => n \in lost
  <2>1. ASSUME NEW n \in matching, n > after, n \in Lost(after) PROVE n \in lost
    <3>1. n < At(0) /\ At(0) \in Nat
      BY <1>7, <2>1, HitsAre DEF Lost
    <3>2. (after > 0 /\ after < At(0) - 1) \/ after = 0
      BY <1>7, <2>1, <3>1
    <3> QED BY <1>4, <2>1, <3>2
  <2> QED BY <2>1
<1>17. Paged'
  <2>1. ASSUME NEW n \in matching, n <= cursor PROVE n \in (UNION ToSet(read')) \union missed'.pages
    <3>1. CASE n > after
      <4>1. n \in page \/ n \in Lost(after) \/ (after = 0 /\ n \in Before(page, ListLimit))
        BY <1>8, <2>1, <3>1
      <4>2. n \in page \union lost
        BY <1>4, <1>16, <3>1, <4>1
      <4> QED BY <1>10, <1>14, <4>2
    <3>2. CASE ~(n > after)
      <4>1. n \in Nat /\ n <= after /\ n >= 1
        BY <1>7, <3>2
      <4>2. CASE pager.of = process
        BY <1>10, <1>12, <1>14, <2>1, <4>1, <4>2
      <4>3. CASE pager.of # process
        <5>1. n \in Stale(pager, cursor)
          BY <1>1, <1>8, <2>1, <4>1, <4>3 DEF Stale, Lesser
        <5> QED BY <1>4, <1>10, <5>1
      <4> QED BY <4>2, <4>3
    <3> QED BY <3>1, <3>2
  <2>2. ASSUME NEW n \in UNION ToSet(read') PROVE n <= cursor
    <3>1. CASE n \in page
      BY <1>8, <3>1
    <3>2. CASE n \in UNION ToSet(read)
      <4>1. pager.of = process
        <5>1. pager.of # process => UNION ToSet(read) = {}
          BY <1>12, NoneIn
        <5> QED BY <3>2, <5>1
      <4>2. after <= cursor
        BY <1>7, <1>8, <1>12, <4>1
      <4>3. n \in Nat /\ n <= after
        BY <1>12, <1>13, <3>2
      <4> QED BY <1>7, <1>8, <4>2, <4>3
    <3> QED BY <1>14, <2>2, <3>1, <3>2
  <2>3. process <= process
    BY <1>7
  <2>4. pager'.of = process' /\ pager'.of <= process' /\ pager'.cursor <= next'
    BY <1>5, <1>8, <1>10, <2>3
  <2>5. \A n \in UNION ToSet(read') : n <= pager'.cursor
    BY <1>10, <2>2
  <2>6. \A n \in matching' : n <= pager'.cursor => n \in (UNION ToSet(read')) \union missed'.pages
    BY <1>5, <1>10, <2>1
  <2> QED BY <1>14, <2>4, <2>5, <2>6 DEF Paged
<1>18. Placed' /\ InTurn'
  BY <1>5, <1>7, <1>10 DEF Placed, InTurn, Waiting
<1>19. Streamed'
  BY <1>5, <1>7, <1>10 DEF Streamed, Waiting
<1> QED BY <1>15, <1>17, <1>18, <1>19 DEF LogInv

\* Neither client of the log has a hole in what it read of one process.
THEOREM LogStands == LogSpec => []NoHoles
<1>1. ASSUME LogInv, [LogNext]_logVars PROVE LogInv'
  <2>1. CASE \E matches \in BOOLEAN : Logged(matches)
    BY <1>1, <2>1, LoggedKeeps
  <2>2. CASE Subscribe
    BY <1>1, <2>2, SubscribeKeeps
  <2>3. CASE SendsBacklog \/ SendsLive
    BY <1>1, <2>3, SendsKeep
  <2>4. CASE StreamEnds
    BY <1>1, <2>4, StreamEndKeeps
  <2>5. CASE ListLogs
    BY <1>1, <2>5, ListKeeps
  <2>6. CASE LogRestarts
    BY <1>1, <2>6, LogRestartKeeps
  <2>7. CASE UNCHANGED logVars
    BY <1>1, <2>7 DEF logVars, LogInv, LogTyped, Placed, InTurn, Streamed, Paged, Waiting
  <2> QED BY <1>1, <2>1, <2>2, <2>3, <2>4, <2>5, <2>6, <2>7 DEF LogNext
<1>2. ASSUME LogInv PROVE NoHoles
  <2>1. \A i \in 1..Len(ring) - 1 : At(i - 1) < At(i)
    BY <1>2, RingRises DEF LogInv
  <2>2. Rising(got) /\ PagesRise(read)
    BY <1>2 DEF LogInv, InTurn, Paged
  <2>3. ASSUME TailSettled PROVE matching \ missed.stream \subseteq ToSet(got)
    <3>1. tail.conn.state = "subscribed" /\ tail.conn.backlog = {} /\ tail.conn.channel = <<>>
      BY <2>3 DEF TailSettled
    <3>2. Waiting = {}
      BY <3>1, NoneIn DEF Waiting
    <3>3. \A n \in matching : n \in ToSet(got) \union missed.stream \union Waiting
      BY <1>2, <3>1 DEF LogInv, Streamed
    <3> QED BY <3>2, <3>3
  <2>4. tail.of = process =>
           \A n \in matching : n <= tail.cursor => n \in ToSet(got) \union missed.stream
    BY <1>2 DEF LogInv, Streamed
  <2>5. pager.of = process =>
           \A n \in matching : n <= pager.cursor => n \in (UNION ToSet(read)) \union missed.pages
    BY <1>2 DEF LogInv, Paged
  <2> QED BY <2>1, <2>2, <2>3, <2>4, <2>5 DEF NoHoles
<1> QED BY <1>1, <1>2, LogStarts, PTL DEF LogSpec

=============================================================================

------------------------------ MODULE TokenCache ------------------------------
(* The cached web token of the catalog client (applemusic/tokencache.go,        *)
(* auth.go): requests that get it, drop it on a 401 and try once more, and the  *)
(* refresher that renews it before its cached expiry. Time is counted in        *)
(* refresh checks; only a fetch takes any.                                      *)
EXTENDS Integers, FiniteSets

CONSTANTS
    TokenUsers,     \* requests that may be under way together
    TokenLife,      \* half a token's ttl
    Lead,           \* tokenRefreshLead
    MaxFetch,       \* how long a fetch takes at most
    MaxNow, MaxTokens   \* bounds: the clock, tokens fetched

\* A check and the fetch it starts fit in the lead, and the lead in a life
\* (1 minute and 5 against 30 in the code).
ASSUME TokenAssumption ==
    /\ {TokenLife, Lead, MaxFetch, MaxNow, MaxTokens} \subseteq Nat
    /\ 1 + MaxFetch <= Lead /\ Lead < TokenLife
    /\ TokenUsers \intersect {"nobody", "refresher"} = {}

VARIABLES
    now, wake,  \* the clock; the refresher's next check
    cached,     \* tokenCache: value (0 is none) and until
    refresher,  \* the refresher's step
    user,       \* each request: its step, its token, and the tries it has left
    fetching,   \* who holds refreshMu and is in fetch, and since when
    fetched,    \* tokens fetched
    dead,       \* the tokens Apple answers 401 to
    due,        \* history: fetches someone had a reason to start
    failed,     \* history: the last token whose renewal failed
    starved     \* history: a request found the cached token expired, its renewal
                \* not having failed

tokenVars == <<now, wake, cached, refresher, user, fetching, fetched, dead, due, failed, starved>>

NotFetching == [by |-> "nobody", since |-> 0]
NoUser == [step |-> "none", token |-> 0, retry |-> TRUE]

TokenInit ==
    /\ now = 0 /\ wake = 1 /\ cached = [value |-> 0, until |-> 0]
    /\ refresher = "idle" /\ user = [u \in TokenUsers |-> NoUser]
    /\ fetching = NotFetching /\ fetched = 0 /\ dead = {} /\ due = 1 /\ failed = 0
    /\ starved = FALSE

TokenTypeOK ==
    /\ cached.value \in 0..fetched /\ fetched \in 0..MaxTokens /\ now \in 0..MaxNow
    /\ fetching.by \in TokenUsers \union {"nobody", "refresher"}
    /\ dead \subseteq 1..fetched

-----------------------------------------------------------------------------
TokenLasts == cached.value # 0 /\ now < cached.until
\* Mutant: no lead.
Lapsed == cached.value # 0 /\ now >= cached.until
Expiring == cached.value # 0 /\ now >= cached.until - Lead

\* doWithWebAuth: get, from the cache or after refreshMu.
Asks(u) ==
    /\ user[u].step \in {"none", "again"}
    /\ user' = [user EXCEPT ![u] =
                   [step |-> IF TokenLasts THEN "sent" ELSE "waits",
                    token |-> IF TokenLasts THEN cached.value ELSE 0,
                    retry |-> user[u].step = "none"]]
    /\ starved' = (starved \/ (cached.value \notin {0, failed} /\ ~TokenLasts))
    /\ UNCHANGED <<now, wake, cached, refresher, fetching, fetched, dead, due, failed>>

\* Mutant: whoever was waiting for refreshMu fetches.
FetchesAnyway(u) ==
    /\ user[u].step = "waits" /\ fetching = NotFetching /\ fetched < MaxTokens
    /\ fetching' = [by |-> u, since |-> now]
    /\ UNCHANGED <<now, wake, cached, refresher, user, fetched, dead, due, failed, starved>>
\* Under refreshMu the cache is read again: a burst shares one fetch.
Rechecks(u) ==
    /\ user[u].step = "waits" /\ fetching = NotFetching
    /\ IF TokenLasts
       THEN /\ user' = [user EXCEPT ![u].step = "sent", ![u].token = cached.value]
            /\ UNCHANGED fetching
       ELSE /\ fetched < MaxTokens
            /\ fetching' = [by |-> u, since |-> now] /\ UNCHANGED user
    /\ UNCHANGED <<now, wake, cached, refresher, fetched, dead, due, failed, starved>>

\* refreshLocked: the fetch, and the cache holds its token for half its ttl.
\* A failed fetch leaves the cache.
Stores(by) ==
    /\ fetching.by = by /\ fetched' = fetched + 1
    /\ cached' = [value |-> fetched + 1, until |-> now + TokenLife]
    /\ fetching' = NotFetching
    /\ UNCHANGED <<now, wake, dead, due, failed, starved>>
FetchFails(by) ==
    /\ fetching.by = by /\ fetching' = NotFetching
    /\ UNCHANGED <<now, wake, cached, fetched, dead, due, starved>>

UserFetched(u) ==
    \/ /\ Stores(u) /\ user' = [user EXCEPT ![u].step = "sent", ![u].token = fetched + 1]
       /\ UNCHANGED refresher
    \/ FetchFails(u) /\ user' = [user EXCEPT ![u] = NoUser] /\ UNCHANGED <<refresher, failed>>

\* Mutant: a 401 drops whatever token is cached.
InvalidatesAny(rejected) == cached' = [value |-> 0, until |-> 0]
Invalidates(rejected) ==
    cached' = IF cached.value = rejected THEN [value |-> 0, until |-> 0] ELSE cached

\* The answer: whatever it is it goes to the caller, but the first 401 drops
\* the token if it is still the cached one.
Answered(u) ==
    /\ user[u].step = "sent"
    /\ IF user[u].token \in dead /\ user[u].retry
       THEN /\ Invalidates(user[u].token)
            /\ user' = [user EXCEPT ![u].step = "again"]
       ELSE user' = [user EXCEPT ![u] = NoUser] /\ UNCHANGED cached
    /\ UNCHANGED <<now, wake, refresher, fetching, fetched, dead, due, failed, starved>>

-----------------------------------------------------------------------------
\* refreshIfExpiring, at each tick of the refresher: an empty cache is left
\* alone, and the expiry checked again under refreshMu.
RefresherWakes ==
    /\ refresher = "idle" /\ now >= wake /\ wake' = now + 1
    /\ refresher' = IF Expiring THEN "waits" ELSE "idle"
    /\ UNCHANGED <<now, cached, user, fetching, fetched, dead, due, failed, starved>>
RefresherRechecks ==
    /\ refresher = "waits" /\ fetching = NotFetching
    /\ IF Expiring
       THEN /\ fetched < MaxTokens /\ due < 2 * MaxTokens /\ due' = due + 1
            /\ fetching' = [by |-> "refresher", since |-> now] /\ refresher' = "fetches"
       ELSE refresher' = "idle" /\ UNCHANGED <<fetching, due>>
    /\ UNCHANGED <<now, wake, cached, user, fetched, dead, failed, starved>>
RefresherFetched ==
    /\ refresher' = "idle" /\ UNCHANGED user
    /\ \/ Stores("refresher")
       \/ FetchFails("refresher") /\ failed' = cached.value

\* Apple stops taking a token, or the clock goes on: not past a check that is
\* due, a step someone can take at once, or the longest fetch.
TokenDies ==
    /\ \E t \in 1..fetched \ dead :
         dead' = dead \union {t} /\ due' = IF t = cached.value THEN due + 1 ELSE due
    /\ UNCHANGED <<now, wake, cached, refresher, user, fetching, fetched, failed, starved>>
Ticks ==
    /\ now < MaxNow /\ now' = now + 1
    /\ ~(refresher = "idle" /\ now >= wake)
    /\ fetching = NotFetching => refresher # "waits" /\ \A u \in TokenUsers : user[u].step # "waits"
    /\ fetching # NotFetching => now - fetching.since < MaxFetch
    /\ UNCHANGED <<wake, cached, refresher, user, fetching, fetched, dead, due, failed, starved>>

TokenNext ==
    \/ \E u \in TokenUsers : Asks(u) \/ Rechecks(u) \/ UserFetched(u) \/ Answered(u)
    \/ RefresherWakes \/ RefresherRechecks \/ RefresherFetched \/ TokenDies \/ Ticks
TokenSpec == TokenInit /\ [][TokenNext]_tokenVars

-----------------------------------------------------------------------------
\* A burst shares one fetch (tokenCache.get), and an old 401 does not cost the
\* newer token (invalidate): a fetch is due once for the empty cache, for a
\* token Apple stopped taking and for a check in the lead, and no more tokens
\* are fetched or being fetched however requests, checks and 401s overlap.
FetchesAreDue == fetched + Cardinality({fetching} \ {NotFetching}) <= due

\* A request never finds the token it uses expired while the fetches of the
\* refresher succeed (RunTokenRefresher): they come in time.
NeverLapses == ~starved

\* No fetch too many and none too late.
TokenHolds == FetchesAreDue /\ NeverLapses
=============================================================================

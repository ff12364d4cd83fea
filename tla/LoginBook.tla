------------------------------- MODULE LoginBook -------------------------------
(* The logins in flight through an external wrapper-manager (wrapper/login.go): *)
(* StartLogin claims the account, a login that needs a code is parked with its  *)
(* password until the code comes or its timer fires, and the claim goes with    *)
(* it. The login process wrapper-manager runs for a call is external: it may    *)
(* outlive the call.                                                            *)
EXTENDS Integers, FiniteSets

CONSTANTS Accounts, LoginClients, LoginIds

\* The names of accounts, calls and sessions are told apart.
ASSUME LoginAssumption ==
    "none" \notin Accounts /\ "none" \notin LoginIds /\ LoginIds \cap LoginClients = {}

VARIABLES
    active,     \* loginBook.active: the claimed accounts
    sessions,   \* loginBook.sessions: id -> account, verifying, timer
    call,       \* each client's /login call: "none", a start or a verification
    processes   \* wrapper-manager's: account, and the id it waits for or "busy"

loginVars == <<active, sessions, call, processes>>

NoSession == [account |-> "none", verifying |-> FALSE, timer |-> "stopped"]
NoCall == [kind |-> "none", account |-> "none", id |-> "none"]
Parked(id) == sessions[id] # NoSession

LoginInit ==
    /\ active = {} /\ processes = {}
    /\ sessions = [id \in LoginIds |-> NoSession]
    /\ call = [c \in LoginClients |-> NoCall]

LoginTypeOK ==
    /\ active \subseteq Accounts
    /\ \A id \in LoginIds : sessions[id].timer \in {"armed", "fired", "stopped"}
    /\ \A c \in LoginClients : call[c].kind \in {"none", "start", "verify"}

\* drop: the session, its password and its claim go.
Drop(id) ==
    /\ sessions' = [sessions EXCEPT ![id] = NoSession]
    /\ active' = active \ {sessions[id].account}

-----------------------------------------------------------------------------
\* StartLogin: begin refuses a claimed account; /login starts a process.
BeginLogin(c) ==
    /\ call[c] = NoCall
    /\ \E a \in Accounts \ active :
         /\ active' = active \union {a}
         /\ call' = [call EXCEPT ![c] = [kind |-> "start", account |-> a, id |-> "none"]]
         /\ processes' = processes \union {[account |-> a, waits |-> "busy", by |-> c]}
    /\ UNCHANGED sessions

Mine(c) == {p \in processes : p.by = c /\ p.waits = "busy"}
\* A reply that is no request for a code, or none at all (the call ran out, its
\* client left, or wrapper-manager closed it after 60 seconds): abandon. Without
\* a reply the process goes on.
StartEnds(c) ==
    /\ call[c].kind = "start"
    /\ active' = active \ {call[c].account} /\ call' = [call EXCEPT ![c] = NoCall]
    /\ processes' \in {processes \ Mine(c),
                       (processes \ Mine(c)) \union {[p EXCEPT !.by = "nobody"] : p \in Mine(c)}}
    /\ UNCHANGED sessions
\* The account needs a code: park keeps the claim and arms the timer.
StartParks(c) ==
    /\ call[c].kind = "start"
    /\ \E id \in LoginIds :
         /\ ~Parked(id) /\ \A p \in processes : p.waits # id
         /\ sessions' = [sessions EXCEPT ![id] =
                [account |-> call[c].account, verifying |-> FALSE, timer |-> "armed"]]
         /\ processes' = (processes \ Mine(c)) \union {[p EXCEPT !.waits = id] : p \in Mine(c)}
    /\ call' = [call EXCEPT ![c] = NoCall]
    /\ UNCHANGED active

\* SubmitTwoStepCode: take refuses a session that is being verified.
TakeSession(c) ==
    /\ call[c] = NoCall
    /\ \E id \in LoginIds :
         /\ Parked(id) /\ ~sessions[id].verifying
         /\ sessions' = [sessions EXCEPT ![id].verifying = TRUE]
         /\ call' = [call EXCEPT ![c] =
                [kind |-> "verify", account |-> sessions[id].account, id |-> id]]
         /\ processes' = {IF p.waits = id THEN [p EXCEPT !.waits = "busy", !.by = c] ELSE p :
                             p \in processes}
    /\ UNCHANGED active
\* finish, whatever the outcome: the process ended, or goes on unanswered.
VerifyEnds(c) ==
    /\ call[c].kind = "verify" /\ Drop(call[c].id)
    /\ call' = [call EXCEPT ![c] = NoCall]
    /\ processes' \in {processes \ Mine(c),
                       (processes \ Mine(c)) \union {[p EXCEPT !.by = "nobody"] : p \in Mine(c)}}

\* Mutant: the timer drops a session that is being verified.
ExpiresVerified(id) ==
    /\ sessions[id].timer = "armed" /\ \A p \in processes : p.waits # id
    /\ Drop(id) /\ UNCHANGED <<call, processes>>
\* expire, 75 seconds on: wrapper-lite gave the code up after 60. A session that
\* is being verified stays until that ends.
Expires(id) ==
    /\ sessions[id].timer = "armed" /\ \A p \in processes : p.waits # id
    /\ IF sessions[id].verifying
       THEN sessions' = [sessions EXCEPT ![id].timer = "fired"] /\ UNCHANGED active
       ELSE Drop(id)
    /\ UNCHANGED <<call, processes>>

\* A process nobody waits for ends; one that waits for a code gives up.
ProcessEnds ==
    /\ \E p \in processes : (p.waits # "busy" \/ p.by = "nobody") /\ processes' = processes \ {p}
    /\ UNCHANGED <<active, sessions, call>>

LoginNext ==
    \/ \E c \in LoginClients : BeginLogin(c) \/ StartEnds(c) \/ StartParks(c) \/ TakeSession(c) \/ VerifyEnds(c)
    \/ \E id \in LoginIds : Expires(id)
    \/ ProcessEnds
LoginSpec == LoginInit /\ [][LoginNext]_loginVars

-----------------------------------------------------------------------------
Holders(a) ==
    {c \in LoginClients : call[c].kind = "start" /\ call[c].account = a}
        \union {id \in LoginIds : sessions[id].account = a}

\* An account is claimed exactly while one login of it is under way (begin,
\* abandon, finish, expire): a claim has one call or one session behind it, no
\* session, and so no password, is left that neither its timer nor a
\* verification will drop, and a verification keeps its session, however the
\* code, the timer and a second login race.
ClaimsAreExact ==
    /\ \A a \in Accounts : Cardinality(Holders(a)) = IF a \in active THEN 1 ELSE 0
    /\ \A id \in LoginIds : Parked(id) =>
         IF sessions[id].verifying
         THEN Cardinality({c \in LoginClients : call[c].id = id}) = 1
         ELSE sessions[id].timer = "armed"
    /\ \A c \in LoginClients : call[c].kind = "verify" => Parked(call[c].id)
=============================================================================

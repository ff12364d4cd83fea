----------------------------- MODULE MCMirrors -----------------------------
(* Instances for TLC of the modules that keep a copy of what changes         *)
(* elsewhere: the desktop app's Home and its downloads, a track as its       *)
(* events tell it, the log that is tailed, the configuration of a file, the  *)
(* token of a service, a file fetched from a server. They share no state: a  *)
(* behaviour is of one of them.                                              *)
EXTENDS DesktopHome, DesktopJobs, LogStore, ConfigStore, TokenCache, ItemMeter, RangeTransfer
CONSTANTS v1, v2, v3, w1, sa, sb, e1, e2, m1, m2

\* Two terms, and texts with one link and with two. What is pasted, what is
\* searched for, an artist and an album: the screens share only the connection.
HomeTexts == {"", "a", "b", "L", "LM"}
HomeLinks == [t \in HomeTexts |-> CASE t = "L" -> {"l"} [] t = "LM" -> {"l", "m"} [] OTHER -> {}]
HomeTerms == [t \in HomeTexts |-> IF t \in {"a", "b"} THEN t ELSE ""]
Paste == [does |-> {"type", "submit", "connect"}, acts |-> 4]
Words == [Paste EXCEPT !.does = {"type", "retry", "more", "connect"}]
Visit == [Paste EXCEPT !.does = {"artist", "more", "retry", "connect"}]
Listen == [Paste EXCEPT !.does = {"album", "retry", "connect"}]
HomeScreens == {Paste, Words, Visit, Listen}

\* Three runs of a job; its detail opened twice; submitted here, its tracks
\* wanted; a feed that ticks and breaks.
Thrice == [events |-> 6, ticks |-> 0, visits |-> 0, breaks |-> 0, reads |-> FALSE]
Visited == [Thrice EXCEPT !.events = 4, !.visits = 2]
Wanted == [Thrice EXCEPT !.events = 4, !.reads = TRUE]
Unsteady == [Thrice EXCEPT !.events = 5, !.ticks = 1, !.breaks = 1]
JobStories == {Thrice, Visited, Wanted, Unsteady}

\* Two versions of one source that the server names, one of it without any
\* validator, and an object of another source that shares its validators with
\* the first. The second version is larger than a download to memory may hold.
Where == [o \in {v1, v2, v3, w1} |-> IF o = w1 THEN sb ELSE sa]
Sizes == [o \in {v1, v2, v3, w1} |-> IF o = v2 THEN 4 ELSE IF o = v3 THEN 3 ELSE 2]
ETags == [o \in {v1, v2, v3, w1} |-> IF o = v2 THEN e2 ELSE IF o = v3 THEN NoTag ELSE e1]
Dates == [o \in {v1, v2, v3, w1} |-> IF o = v2 THEN m2 ELSE IF o = v3 THEN NoTag ELSE m1]

VARIABLE part

all == <<part, homeVars, desktopVars, logVars,
         configVars, tokenVars, meterVars, transferVars>>
HomeStep(A) ==
    /\ part = "home" /\ A
    /\ UNCHANGED <<part, desktopVars, logVars, configVars,
                   tokenVars, meterVars, transferVars>>
JobsStep(A) ==
    /\ part = "jobs" /\ A
    /\ UNCHANGED <<part, homeVars, logVars, configVars,
                   tokenVars, meterVars, transferVars>>
LogStep(A) ==
    /\ part = "log" /\ A
    /\ UNCHANGED <<part, homeVars, desktopVars, configVars,
                   tokenVars, meterVars, transferVars>>
ConfigStep(A) ==
    /\ part = "config" /\ A
    /\ UNCHANGED <<part, homeVars, desktopVars, logVars,
                   tokenVars, meterVars, transferVars>>
TokenStep(A) ==
    /\ part = "token" /\ A
    /\ UNCHANGED <<part, homeVars, desktopVars, logVars,
                   configVars, meterVars, transferVars>>
MeterStep(A) ==
    /\ part = "meter" /\ A
    /\ UNCHANGED <<part, homeVars, desktopVars, logVars,
                   configVars, tokenVars, transferVars>>
TransferStep(A) ==
    /\ part = "transfer" /\ A
    /\ UNCHANGED <<part, homeVars, desktopVars, logVars,
                   configVars, tokenVars, meterVars>>

\* The parts that do not move have one initial state each.
MirrorsInit ==
    /\ part \in {"home", "jobs", "log", "config", "token", "meter", "transfer"}
    /\ HomeInit /\ DesktopInit /\ LogInit /\ ConfigInit /\ TokenInit /\ MeterInit
    /\ TransferInit
    /\ part = "home" \/ screen = Paste
    /\ part = "jobs" \/ story = Thrice
    /\ part = "log" \/ matching = {}
    /\ part = "transfer" \/ (mode = "file" /\ src = sa /\ current[sa] = v1)
MirrorsNext ==
    \/ HomeStep(HomeNext) \/ JobsStep(DesktopNext) \/ LogStep(LogNext)
    \/ ConfigStep(ConfigNext) \/ TokenStep(TokenNext) \/ MeterStep(MeterNext)
    \/ TransferStep(TransferNext)
MirrorsSpec == MirrorsInit /\ [][MirrorsNext]_all
=============================================================================

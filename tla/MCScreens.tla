------------------------------ MODULE MCScreens ------------------------------
(* Instances for TLC of what a screen keeps while answers are on their way: the *)
(* list of downloads that a feed feeds, the players of motion covers, the setup *)
(* screen of the desktop app. They share no state: a behaviour is of one.       *)
EXTENDS DownloadsFeed, MotionCovers, SetupScreen
CONSTANTS j1, j2

\* One job with a cover: the whole life of an entry.
Life == [jobs |-> {j1}, artwork |-> {j1}, page |-> 2, faults |-> {}, changes |-> 5,
         items |-> 1, pushes |-> 0, errors |-> 0, cuts |-> 0]
\* Two jobs share the pages and the connection, which breaks.
Pages == [Life EXCEPT !.jobs = {j1, j2}, !.artwork = {}, !.changes = 3, !.cuts = 1]
\* The connection breaks anywhere; a page holds one event.
Resume == [Life EXCEPT !.page = 1, !.changes = 4, !.cuts = 1]
\* Progress ticks between the drains.
Progress == [Life EXCEPT !.changes = 4, !.pushes = 1]
\* Events that are lost and reads that fail.
Lossy == [Life EXCEPT !.artwork = {}, !.faults = {"record", "read"}, !.changes = 4,
                       !.pushes = 1, !.errors = 1]
MCSetups == {Life, Pages, Resume, Progress, Lossy}

\* Two covers of one rendition.
OneRendition == [k \in {"x", "y"} |-> "r"]
\* Covers that go and are asked for again; another ffmpeg while players open; and
\* the directory trimmed beside the first fetches.
Scrolled == [opens |-> 3, switches |-> 1, clock |-> 4, trims |-> FALSE]
Switched == [Scrolled EXCEPT !.switches = 3, !.clock = 1]
Trimmed == [opens |-> 2, switches |-> 1, clock |-> 1, trims |-> TRUE]
MCShowings == {Scrolled, Switched, Trimmed}

\* Addresses, and the tools of this computer.
Addressed == [types |-> 2, tests |-> 2, opens |-> 2, installs |-> 0, world |-> 1]
Equipped == [types |-> 0, tests |-> 0, opens |-> 1, installs |-> 3, world |-> 1]
MCScreenings == {Addressed, Equipped}

VARIABLE part

all == <<part, vars, coverVars, setupVars>>
FeedStep(A) == part = "feed" /\ A /\ UNCHANGED <<part, coverVars, setupVars>>
CoverStep(A) == part = "covers" /\ A /\ UNCHANGED <<part, vars, setupVars>>
SetupStep(A) == part = "setup" /\ A /\ UNCHANGED <<part, vars, coverVars>>

\* The parts that do not move have one initial state each.
ScreensInit ==
    /\ part \in {"feed", "covers", "setup"} /\ Init /\ CoversInit /\ SetupInit
    /\ part = "feed" \/ setup = Life
    /\ part = "covers" \/ showing = Scrolled
    /\ part = "setup" \/ (left = Addressed /\ answering = {})
ScreensNext == FeedStep(Next) \/ CoverStep(CoversNext) \/ SetupStep(SetupNext)
ScreensSpec == ScreensInit /\ [][ScreensNext]_all
=============================================================================

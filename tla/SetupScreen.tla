----------------------------- MODULE SetupScreen -----------------------------
(* The desktop app's setup screen (ui/setup*.go over setup.Setup): addresses    *)
(* typed while a test of another is still on its way, package managers and the  *)
(* guest's download run beside it, and the buttons that apply what was tested.  *)
(* What runs in the background ends as a call on the UI thread.                 *)
EXTENDS Integers, FiniteSets

CONSTANTS
    Addresses, Nowhere, \* what may be typed; Nowhere is the empty field
    Tools,              \* what a package manager installs
    FFmpegs,            \* the settings' ffmpeg: a path given, or FindIt
    FindIt,
    Screenings              \* bounds, what this screen is used for: types, tests, opens,
                        \* installs, world (changes elsewhere)

ASSUME SetupAssumption ==
    /\ Nowhere \notin Addresses /\ FindIt \in FFmpegs
    /\ Screenings \subseteq [types : Nat, tests : Nat, opens : Nat, installs : Nat, world : Nat]

VARIABLES
    left,       \* what is left of a member of Screenings
    answering,  \* the addresses that answer
    onDisk,     \* the tools this computer has; "guest" when one is installed
    settings,   \* where downloads run, the address, the ffmpeg
    typed,      \* setupForm: mode, elsewhere, serverAddr and wrapperAddr
    wtest,      \* wrapperTesting, wrapperTested, wrapperChecks
    server,     \* Setup.Server, Testing and testGen
    tests,      \* tests under way
    tool, run,  \* Setup.QEMU and FFmpeg; Setup.Run, and whether it was canceled
    managers,   \* package managers that run: a tool, and the ffmpeg its check uses
    guest,      \* Setup.Guest: its state and whether it has a cancel
    works,      \* Home.Install and Import under way
    reached     \* history: the answers a test gave, by kind and address

setupVars == <<left, answering, onDisk, settings, typed, wtest, server, tests, tool, run,
               managers, guest, works, reached>>

NoTest == [testing |-> FALSE, tested |-> Nowhere, checks |-> "none"]
NoServer == [address |-> Nowhere, reach |-> "none"]
NoRun == [tool |-> "none", state |-> "none"]
Typed == [mode |-> "remote", elsewhere |-> FALSE, server |-> Nowhere, wrapper |-> Nowhere]

SetupInit ==
    /\ left \in Screenings /\ answering \in SUBSET Addresses /\ onDisk = {}
    /\ settings = [mode |-> "none", remote |-> Nowhere, wrapper |-> Nowhere, ffmpeg |-> FindIt]
    /\ typed = Typed /\ wtest = NoTest
    /\ server = [shown |-> NoServer, testing |-> Nowhere, gen |-> 0]
    /\ tests = {} /\ tool = [t \in Tools |-> "unchecked"] /\ run = NoRun /\ managers = {}
    /\ guest = [state |-> "missing", cancel |-> FALSE] /\ works = {} /\ reached = {}

SetupTypeOK ==
    /\ {typed.server, typed.wrapper} \subseteq Addresses \union {Nowhere}
    /\ typed.mode \in {"remote", "standalone"} /\ typed.elsewhere \in BOOLEAN
    /\ server.testing \in Addresses \union {Nowhere}
    /\ \A t \in tests : t.address \in Addresses
    /\ run.state \in {"none", "working", "failed", "ready"}
    /\ guest.state \in {"missing", "working", "failed", "ready"}

Uses(what) == left[what] > 0 /\ left' = [left EXCEPT ![what] = @ - 1]
FormVars == <<settings, typed, wtest, server, tests, reached>>
ComputerVars == <<tool, run, managers, guest, works>>

-----------------------------------------------------------------------------
(* Addresses *)

\* What a look finds of the tools and the guest; what is under way keeps its state.
Busy(t) == run = [tool |-> t, state |-> "working"]
Found(t, ffmpeg) == t \in onDisk \/ (t = "ffmpeg" /\ ffmpeg # FindIt)
Checked(ffmpeg) ==
    [t \in Tools |-> IF Busy(t) THEN tool[t] ELSE IF Found(t, ffmpeg) THEN "ready" ELSE "missing"]
\* Mutant: a guest under way is looked at too.
ChecksAll(g) == IF "guest" \in onDisk THEN [state |-> "ready", cancel |-> FALSE]
                ELSE [state |-> "missing", cancel |-> FALSE]
CheckGuest(g) ==
    IF g.state = "working" THEN g
    ELSE IF "guest" \in onDisk THEN [state |-> "ready", cancel |-> FALSE]
    ELSE IF g.state = "failed" THEN g ELSE [state |-> "missing", cancel |-> FALSE]

\* OpenSetup: the form anew, the server's test forgotten, another look.
\* Mutant: its answer may still land.
ForgetsShown == [server EXCEPT !.shown = NoServer, !.testing = Nowhere]
ForgetServer == [server EXCEPT !.shown = NoServer, !.testing = Nowhere, !.gen = @ + 1]
OpenSetup(mode) ==
    /\ Uses("opens")
    /\ tool' = Checked(settings.ffmpeg) /\ guest' = CheckGuest(guest)
    /\ typed' = [mode |-> mode, server |-> settings.remote, wrapper |-> settings.wrapper,
                 elsewhere |-> /\ settings.mode = "standalone" /\ settings.wrapper # Nowhere
                               /\ guest'.state # "ready"]
    /\ wtest' = NoTest /\ server' = ForgetServer
    /\ UNCHANGED <<answering, onDisk, settings, tests, reached, run, managers, works>>

\* The mode cards, and where the wrapper is: the form keeps the rest.
Chooses(mode, elsewhere) ==
    /\ <<mode, elsewhere>> # <<typed.mode, typed.elsewhere>>
    /\ elsewhere # typed.elsewhere => mode = "standalone" /\ typed.mode = mode
    /\ typed' = [typed EXCEPT !.mode = mode, !.elsewhere = elsewhere]
    /\ UNCHANGED <<left, answering, onDisk, settings, wtest, server, tests, reached, ComputerVars>>

Elsewhere == typed.mode = "standalone" /\ typed.elsewhere
\* The fields: a wrapper's checks go with the address they were of.
Types(address) ==
    /\ Uses("types")
    /\ \/ /\ typed.mode = "remote" /\ address # typed.server
          /\ typed' = [typed EXCEPT !.server = address] /\ UNCHANGED wtest
       \/ /\ Elsewhere /\ address # typed.wrapper
          /\ typed' = [typed EXCEPT !.wrapper = address]
          /\ wtest' = [wtest EXCEPT !.checks = "none"]
    /\ UNCHANGED <<answering, onDisk, settings, server, tests, reached, ComputerVars>>

Test(of, gen, address) == [of |-> of, gen |-> gen, address |-> address, found |-> "nothing yet"]
TestServer ==
    /\ typed.mode = "remote" /\ typed.server # Nowhere /\ server.testing # typed.server
    /\ Uses("tests")
    /\ server' = [server EXCEPT !.gen = @ + 1, !.testing = typed.server]
    /\ tests' = tests \union {Test("server", server.gen + 1, typed.server)}
    /\ UNCHANGED <<answering, onDisk, settings, typed, wtest, reached, ComputerVars>>
TestWrapper ==
    /\ Elsewhere /\ typed.wrapper # Nowhere /\ ~wtest.testing
    /\ Uses("tests")
    /\ wtest' = [wtest EXCEPT !.testing = TRUE, !.tested = typed.wrapper]
    /\ tests' = tests \union {Test("wrapper", left.tests, typed.wrapper)}
    /\ UNCHANGED <<answering, onDisk, settings, typed, server, reached, ComputerVars>>

\* DiagnoseClient and mode.TestWrapper ask; the network answers in its time.
Answers(t) ==
    /\ t.found = "nothing yet"
    /\ tests' = (tests \ {t}) \union {[t EXCEPT !.found = IF t.address \in answering THEN "ready" ELSE "failed"]}
    /\ UNCHANGED <<left, answering, onDisk, settings, typed, wtest, server, reached, ComputerVars>>

\* Mutant: any test's answer shows.
AnyShows(t) == t.found # "nothing yet"
Shows(t) == t.found # "nothing yet" /\ server.gen = t.gen
Lands(t) ==
    /\ t.found # "nothing yet" /\ tests' = tests \ {t}
    /\ reached' = IF t.found = "ready" THEN reached \union {<<t.of, t.address>>} ELSE reached
    /\ IF t.of = "server"
       THEN /\ server' = IF Shows(t)
                         THEN [server EXCEPT !.shown = [address |-> t.address, reach |-> t.found],
                                             !.testing = Nowhere]
                         ELSE server
            /\ UNCHANGED wtest
       ELSE /\ wtest' = IF wtest.tested = t.address
                        THEN [wtest EXCEPT !.testing = FALSE, !.checks = t.found]
                        ELSE wtest
            /\ UNCHANGED server
    /\ UNCHANGED <<left, answering, onDisk, settings, typed, ComputerVars>>

\* Use this server, once the address typed is the one that was tested.
UseServer ==
    /\ typed.mode = "remote"
    /\ server.shown.address # Nowhere /\ server.shown.address = typed.server
    /\ server.shown.reach = "ready"
    /\ ~(settings.mode = "remote" /\ settings.remote = typed.server)
    /\ settings' = [settings EXCEPT !.mode = "remote", !.remote = typed.server]
    /\ UNCHANGED <<left, answering, onDisk, typed, wtest, server, tests, reached, ComputerVars>>

\* wrapperReached. Mutant: whatever address the checks are of.
ReachedAny == wtest.checks = "ready"
WrapperReached == wtest.checks = "ready" /\ wtest.tested = typed.wrapper
Applied ==
    /\ settings.mode = "standalone"
    /\ Elsewhere => settings.wrapper # Nowhere /\ settings.wrapper = typed.wrapper

\* Start, for what the checklist shows ready.
StartLocal ==
    /\ typed.mode # "remote" /\ ~Applied
    /\ tool["ffmpeg"] = "ready"
    /\ IF Elsewhere THEN WrapperReached
       ELSE tool["QEMU"] = "ready" /\ guest.state = "ready"
    /\ settings' = [settings EXCEPT !.mode = "standalone",
                                    !.wrapper = IF Elsewhere THEN typed.wrapper ELSE @]
    /\ UNCHANGED <<left, answering, onDisk, typed, wtest, server, tests, reached, ComputerVars>>

-----------------------------------------------------------------------------
(* This computer *)

\* Check, from a frame of this computer's checklist.
Check ==
    /\ typed.mode # "remote"
    /\ tool' = Checked(settings.ffmpeg)
    /\ guest' = CheckGuest(guest)
    /\ UNCHANGED <<left, answering, onDisk, FormVars, run, managers, works>>

\* Mutant: one package manager beside another.
InstallAnyway(t) == tool[t] = "missing"
MayInstall(t) == tool[t] = "missing" /\ run.state # "working"
Install(t) ==
    /\ typed.mode # "remote" /\ (Elsewhere => t = "ffmpeg") /\ MayInstall(t) /\ Uses("installs")
    /\ run' = [tool |-> t, state |-> "working"]
    /\ managers' = managers \union {[tool |-> t, ffmpeg |-> settings.ffmpeg, canceled |-> FALSE]}
    /\ tool' = [tool EXCEPT ![t] = "working"]
    /\ UNCHANGED <<answering, onDisk, FormVars, guest, works>>
CancelRun ==
    /\ run.state = "working" /\ \E m \in managers : ~m.canceled
    /\ managers' = {[m EXCEPT !.canceled = TRUE] : m \in managers}
    /\ UNCHANGED <<left, answering, onDisk, FormVars, tool, run, guest, works>>

\* The package manager ends, having installed or not, and looks again.
RunEnds(m) ==
    /\ onDisk' \in {onDisk, onDisk \union {m.tool}} /\ managers' = managers \ {m}
    /\ \E end \in {"ready", "failed"} :
        /\ m.canceled => end = "failed"
        /\ run' = [run EXCEPT !.state = end]
    /\ tool' = [t \in Tools |-> IF t \in onDisk' \/ (t = "ffmpeg" /\ m.ffmpeg # FindIt)
                                THEN "ready" ELSE "missing"]
    /\ guest' = CheckGuest(guest)
    /\ UNCHANGED <<left, answering, FormVars, works>>

\* InstallGuest and ImportGuest, which has no cancel.
InstallGuest(canCancel) ==
    /\ typed.mode # "remote" /\ ~Elsewhere /\ guest.state # "working"
    /\ guest.state \in {"missing", "failed"} /\ (guest.state = "missing" => canCancel)
    /\ Uses("installs")
    /\ guest' = [state |-> "working", cancel |-> canCancel]
    /\ works' = works \union {[n |-> left.installs, canceled |-> FALSE]}
    /\ UNCHANGED <<answering, onDisk, FormVars, tool, run, managers>>
CancelGuest ==
    /\ guest.cancel /\ \E w \in works : ~w.canceled
    /\ works' = {[w EXCEPT !.canceled = TRUE] : w \in works}
    /\ UNCHANGED <<left, answering, onDisk, FormVars, tool, run, managers, guest>>
\* Installed, canceled or failed; a cancel that came too late installed it.
GuestEnds(w) ==
    /\ works' = works \ {w}
    /\ \/ /\ onDisk' = onDisk \union {"guest"} /\ guest' = [state |-> "ready", cancel |-> FALSE]
       \/ /\ UNCHANGED onDisk
          /\ guest' = [state |-> IF w.canceled THEN "missing" ELSE "failed", cancel |-> FALSE]
    /\ UNCHANGED <<left, answering, FormVars, tool, run, managers>>

\* chooseFFmpeg: the file chooser answers when the user is done with it.
ChooseFFmpeg(path) ==
    /\ typed.mode # "remote" /\ path # settings.ffmpeg /\ Uses("world")
    /\ settings' = [settings EXCEPT !.ffmpeg = path]
    /\ UNCHANGED <<answering, onDisk, typed, wtest, server, tests, reached, ComputerVars>>

\* A server starts or stops; a tool is installed in a terminal.
WorldChanges ==
    /\ Uses("world")
    /\ \/ \E a \in Addresses :
            /\ answering' = IF a \in answering THEN answering \ {a} ELSE answering \union {a}
            /\ UNCHANGED onDisk
       \/ \E t \in Tools \ onDisk : onDisk' = onDisk \union {t} /\ UNCHANGED answering
    /\ UNCHANGED <<FormVars, ComputerVars>>

SetupNext ==
    \/ \E m \in {"remote", "standalone"} :
        OpenSetup(m) \/ \E elsewhere \in BOOLEAN : Chooses(m, elsewhere)
    \/ \E a \in Addresses : Types(a)
    \/ TestServer \/ TestWrapper \/ UseServer \/ StartLocal
    \/ \E t \in tests : Answers(t) \/ Lands(t)
    \/ Check \/ CancelRun \/ CancelGuest \/ WorldChanges
    \/ \E t \in Tools : Install(t)
    \/ \E m \in managers : RunEnds(m)
    \/ \E canCancel \in BOOLEAN : InstallGuest(canCancel)
    \/ \E w \in works : GuestEnds(w)
    \/ \E path \in FFmpegs : ChooseFFmpeg(path)
SetupSpec == SetupInit /\ [][SetupNext]_setupVars

-----------------------------------------------------------------------------
\* A server that the screen applies answered a test: a slow answer, of an address
\* typed over meanwhile or from before the screen was opened again, applies
\* nothing else.
AppliedAnswered == settings.remote # Nowhere => <<"server", settings.remote>> \in reached

\* As wrapperReached says of a wrapper on another machine, its last test reached
\* the one typed, so Start applies no other.
WrapperAnswered == settings.wrapper # Nowhere => <<"wrapper", settings.wrapper>> \in reached

\* What is shown of a server is of the newest test there was, and it says it is
\* testing exactly while that one is under way.
NewestShown ==
    LET newest == {t \in tests : t.of = "server" /\ t.gen = server.gen}
    IN (server.testing # Nowhere) = (newest # {}) /\ \A t \in newest : server.testing = t.address

\* One package manager at a time, its output and its end the run's; one guest
\* installed at a time, and the row says so while it is.
OneOfEach ==
    /\ Cardinality(managers) <= 1 /\ Cardinality(works) <= 1
    /\ (run.state = "working") = (managers # {}) /\ \A m \in managers : m.tool = run.tool
    /\ (guest.state = "working") = (works # {})

SetupHolds == AppliedAnswered /\ NewestShown /\ OneOfEach
=============================================================================

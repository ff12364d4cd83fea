---------------------------- MODULE ScreenProofs ----------------------------
(***************************************************************************)
(* What holds, for every value of the constants, of what a screen keeps    *)
(* while answers are on their way: the setup screen (SetupScreen), the     *)
(* players of motion covers (MotionCovers) and the list of downloads that  *)
(* the feed feeds (DownloadsFeed). Each part has an inductive invariant of *)
(* its own; they share no state.                                           *)
(***************************************************************************)
EXTENDS SetupScreen, MotionCovers, DownloadsFeed, FiniteSetTheorems, NaturalsInduction, TLAPS

-----------------------------------------------------------------------------
(* The setup screen *)

\* A test's answer, what it is of and where it stands.
TestRecords == [of : {"server", "wrapper"}, gen : Nat, address : Addresses,
                found : {"nothing yet", "ready", "failed"}]
Budgets == [types : Nat, tests : Nat, opens : Nat, installs : Nat, world : Nat]
Typing == Addresses \cup {Nowhere}
Forms == [mode : {"remote", "standalone"}, elsewhere : BOOLEAN, server : Typing, wrapper : Typing]
Settings == [mode : {"none", "remote", "standalone"}, remote : Typing, wrapper : Typing, ffmpeg : FFmpegs]
ShownServers == [address : Typing, reach : {"none", "ready", "failed"}]
Servers == [shown : ShownServers, testing : Typing, gen : Nat]
Managers == [tool : Tools, ffmpeg : FFmpegs, canceled : BOOLEAN]
FormTyped ==
    /\ left \in Budgets /\ tests \subseteq TestRecords
    /\ typed \in Forms /\ settings \in Settings /\ server \in Servers
    /\ managers \subseteq Managers
    /\ run \in [tool : Tools \cup {"none"}, state : {"none", "working", "failed", "ready"}]

\* One test of the server is the newest.
Newest(t) == t.of = "server" /\ t.gen = server.gen
TestsOfServer ==
    /\ \A t \in tests : t.of = "server" => t.gen <= server.gen
    /\ \A t, u \in tests : t.of = "server" /\ u.of = "server" /\ t.gen = u.gen => t = u
    /\ \A t \in tests : Newest(t) => server.testing = t.address
    /\ server.testing # Nowhere => \E t \in tests : Newest(t)
AnswerShown == server.shown.reach = "ready" => <<"server", server.shown.address>> \in reached

\* One at a time, and the row says so.
OneManager ==
    \/ managers = {} /\ run.state # "working"
    \/ \E m \in managers : managers = {m} /\ run.state = "working" /\ m.tool = run.tool
OneWork ==
    \/ works = {} /\ guest.state # "working"
    \/ \E w \in works : works = {w} /\ guest.state = "working"

SetupInv == FormTyped /\ TestsOfServer /\ AnswerShown /\ AppliedAnswered /\ OneManager /\ OneWork

LEMMA SetupInvInit == SetupInit => SetupInv
<1> SUFFICES ASSUME SetupInit PROVE SetupInv
  OBVIOUS
<1> USE SetupAssumption
<1>1. /\ left \in Screenings /\ tests = {} /\ run = NoRun /\ managers = {} /\ works = {}
      /\ settings = [mode |-> "none", remote |-> Nowhere, wrapper |-> Nowhere, ffmpeg |-> FindIt]
      /\ typed = Typed /\ server = [shown |-> NoServer, testing |-> Nowhere, gen |-> 0]
      /\ guest = [state |-> "missing", cancel |-> FALSE]
  BY DEF SetupInit
<1>2. left \in Budgets
  BY <1>1 DEF Budgets
<1>3. typed \in Forms /\ settings \in Settings /\ server \in Servers
  BY <1>1 DEF Typed, NoServer, Forms, Settings, Servers, ShownServers, Typing
<1>4. run \in [tool : Tools \cup {"none"}, state : {"none", "working", "failed", "ready"}] /\ run.state = "none"
  BY <1>1 DEF NoRun
<1>5. server.testing = Nowhere /\ server.shown.reach = "none" /\ settings.remote = Nowhere
  BY <1>1 DEF NoServer
<1>6. OneManager /\ OneWork
  BY <1>1, <1>4 DEF OneManager, OneWork
<1> QED BY <1>1, <1>2, <1>3, <1>4, <1>5, <1>6 DEF SetupInv, FormTyped, TestsOfServer, AnswerShown, AppliedAnswered

LEMMA UsesKeeps == ASSUME left \in Budgets, NEW what \in {"types", "tests", "opens", "installs", "world"}, Uses(what)
                   PROVE  left' \in Budgets
<1>1. left' = [left EXCEPT ![what] = @ - 1] /\ left[what] > 0
  BY DEF Uses
<1>2. left[what] \in Nat
  BY DEF Budgets
<1>3. PICK n \in Nat : n = left[what] - 1
  BY <1>1, <1>2
<1>4. left' = [left EXCEPT ![what] = n]
  BY <1>1, <1>3
<1> QED BY <1>4 DEF Budgets

LEMMA TestsOlder ==
    ASSUME FormTyped, TestsOfServer
    PROVE  /\ server.gen \in Nat /\ server.gen + 1 \in Nat
           /\ \A t \in tests : t.of = "server" => t.gen \in Nat /\ t.gen <= server.gen + 1 /\ t.gen # server.gen + 1
<1>1. server.gen \in Nat
  BY DEF FormTyped, Servers
<1>2. \A t \in tests : t.gen \in Nat
  BY DEF FormTyped, TestRecords
<1>3. \A t \in tests : t.of = "server" => t.gen <= server.gen
  BY DEF TestsOfServer
<1>4. ASSUME NEW g \in Nat, NEW h \in Nat, g <= h PROVE g <= h + 1 /\ g # h + 1
  BY <1>4
<1>5. \A t \in tests : t.of = "server" => t.gen <= server.gen + 1 /\ t.gen # server.gen + 1
  BY <1>1, <1>2, <1>3, <1>4
<1> QED BY <1>1, <1>2, <1>5

\* What the form's steps leave of the computer.
LEMMA ComputerStays ==
    ASSUME OneManager, OneWork, UNCHANGED <<run, managers, works>>,
           (guest'.state = "working") <=> (guest.state = "working")
    PROVE  OneManager' /\ OneWork'
  BY DEF OneManager, OneWork

LEMMA GuestLooked == (CheckGuest(guest).state = "working") <=> (guest.state = "working")
  BY DEF CheckGuest

LEMMA FormKeeps ==
    ASSUME SetupInv,
           \/ \E m \in {"remote", "standalone"} : OpenSetup(m) \/ \E e \in BOOLEAN : Chooses(m, e)
           \/ \E a \in Addresses : Types(a)
           \/ UseServer \/ StartLocal \/ \E path \in FFmpegs : ChooseFFmpeg(path)
    PROVE  SetupInv'
<1> USE SetupAssumption
<1>ty. FormTyped /\ TestsOfServer /\ AnswerShown /\ AppliedAnswered /\ OneManager /\ OneWork
  BY DEF SetupInv
<1>1. ASSUME NEW m \in {"remote", "standalone"}, OpenSetup(m) PROVE SetupInv'
  <2>1. /\ Uses("opens") /\ guest' = CheckGuest(guest)
        /\ typed' = [mode |-> m, server |-> settings.remote, wrapper |-> settings.wrapper,
                     elsewhere |-> /\ settings.mode = "standalone" /\ settings.wrapper # Nowhere
                                   /\ guest'.state # "ready"]
        /\ server' = ForgetServer
        /\ UNCHANGED <<settings, tests, reached, run, managers, works>>
    BY <1>1 DEF OpenSetup
  <2>2. settings.remote \in Typing /\ settings.wrapper \in Typing
    BY <1>ty DEF FormTyped, Settings
  <2>3. PICK e \in BOOLEAN : e = (settings.mode = "standalone" /\ settings.wrapper # Nowhere /\ guest'.state # "ready")
    OBVIOUS
  <2>4. typed' = [mode |-> m, server |-> settings.remote, wrapper |-> settings.wrapper, elsewhere |-> e]
    BY <2>1, <2>3
  <2>5. typed' \in Forms
    BY <2>2, <2>4 DEF Forms
  <2>6. /\ server' \in Servers /\ server'.testing = Nowhere /\ server'.gen = server.gen + 1
        /\ server'.shown.reach = "none"
    <3>1. server' = [server EXCEPT !.shown = NoServer, !.testing = Nowhere, !.gen = server.gen + 1]
      BY <2>1 DEF ForgetServer
    <3>2. NoServer \in ShownServers /\ NoServer.reach = "none" /\ Nowhere \in Typing
      BY DEF NoServer, ShownServers, Typing
    <3>3. server \in Servers /\ server.gen + 1 \in Nat
      BY <1>ty, TestsOlder DEF FormTyped
    <3>4. PICK g \in Nat : g = server.gen + 1
      BY <3>3
    <3>5. server' = [server EXCEPT !.shown = NoServer, !.testing = Nowhere, !.gen = g]
      BY <3>1, <3>4
    <3>6. server' \in Servers /\ server'.shown = NoServer /\ server'.testing = Nowhere /\ server'.gen = g
      BY <3>2, <3>3, <3>5 DEF Servers
    <3> QED BY <3>2, <3>4, <3>6
  <2>7. FormTyped'
    BY <1>ty, <2>1, <2>5, <2>6, UsesKeeps DEF FormTyped
  <2>8. \A t \in tests : t.of = "server" => t.gen \in Nat /\ t.gen # server'.gen /\ t.gen <= server'.gen
    BY <1>ty, <2>6, TestsOlder
  <2>9. TestsOfServer'
    BY <1>ty, <2>1, <2>6, <2>8 DEF TestsOfServer, Newest
  <2>10. AnswerShown' /\ AppliedAnswered'
    BY <1>ty, <2>1, <2>6 DEF AnswerShown, AppliedAnswered
  <2>11. OneManager' /\ OneWork'
    BY <1>ty, <2>1, GuestLooked, ComputerStays
  <2> QED BY <2>7, <2>9, <2>10, <2>11 DEF SetupInv
<1>2. ASSUME typed' \in Forms, settings' \in Settings, left' \in Budgets, AppliedAnswered',
             UNCHANGED <<server, tests, reached, run, managers, guest, works>>
      PROVE  SetupInv'
  <2>1. FormTyped' /\ TestsOfServer' /\ AnswerShown'
    BY <1>ty, <1>2 DEF FormTyped, TestsOfServer, Newest, AnswerShown
  <2>2. OneManager' /\ OneWork'
    BY <1>ty, <1>2, ComputerStays
  <2> QED BY <1>2, <2>1, <2>2 DEF SetupInv
<1>3. ASSUME NEW m \in {"remote", "standalone"}, NEW e \in BOOLEAN, Chooses(m, e) PROVE SetupInv'
  <2>1. /\ typed' = [typed EXCEPT !.mode = m, !.elsewhere = e]
        /\ UNCHANGED <<left, settings, server, tests, reached, run, managers, guest, works>>
    BY <1>3 DEF Chooses, ComputerVars
  <2>2. typed' \in Forms
    BY <1>ty, <2>1 DEF FormTyped, Forms
  <2> QED BY <1>2, <1>ty, <2>1, <2>2 DEF FormTyped, AppliedAnswered
<1>4. ASSUME NEW a \in Addresses, Types(a) PROVE SetupInv'
  <2>1. /\ Uses("types")
        /\ typed' = [typed EXCEPT !.server = a] \/ typed' = [typed EXCEPT !.wrapper = a]
        /\ UNCHANGED <<settings, server, tests, reached, run, managers, guest, works>>
    BY <1>4 DEF Types, ComputerVars
  <2>2. typed' \in Forms
    BY <1>ty, <2>1 DEF FormTyped, Forms, Typing
  <2> QED BY <1>2, <1>ty, <2>1, <2>2, UsesKeeps DEF FormTyped, AppliedAnswered
<1>5. CASE UseServer
  <2>1. /\ server.shown.address # Nowhere /\ server.shown.address = typed.server /\ server.shown.reach = "ready"
        /\ settings' = [settings EXCEPT !.mode = "remote", !.remote = typed.server]
        /\ UNCHANGED <<left, typed, server, tests, reached, run, managers, guest, works>>
    BY <1>5 DEF UseServer, ComputerVars
  <2>2. settings' \in Settings /\ settings'.remote = typed.server
    BY <1>ty, <2>1 DEF FormTyped, Forms, Settings
  <2>3. AppliedAnswered'
    BY <1>ty, <2>1, <2>2 DEF AnswerShown, AppliedAnswered
  <2> QED BY <1>2, <1>ty, <2>1, <2>2, <2>3 DEF FormTyped
<1>6. CASE StartLocal
  <2>1. /\ settings' = [settings EXCEPT !.mode = "standalone", !.wrapper = IF Elsewhere THEN typed.wrapper ELSE @]
        /\ UNCHANGED <<left, typed, server, tests, reached, run, managers, guest, works>>
    BY <1>6 DEF StartLocal, ComputerVars
  <2>2. settings' \in Settings /\ settings'.remote = settings.remote
    BY <1>ty, <2>1 DEF FormTyped, Forms, Settings
  <2> QED BY <1>2, <1>ty, <2>1, <2>2 DEF FormTyped, AppliedAnswered
<1>7. ASSUME NEW path \in FFmpegs, ChooseFFmpeg(path) PROVE SetupInv'
  <2>1. /\ Uses("world") /\ settings' = [settings EXCEPT !.ffmpeg = path]
        /\ UNCHANGED <<typed, server, tests, reached, run, managers, guest, works>>
    BY <1>7 DEF ChooseFFmpeg, ComputerVars
  <2>2. settings' \in Settings /\ settings'.remote = settings.remote
    BY <1>ty, <2>1 DEF FormTyped, Settings
  <2> QED BY <1>2, <1>ty, <2>1, <2>2, UsesKeeps DEF FormTyped, AppliedAnswered
<1> QED BY <1>1, <1>3, <1>4, <1>5, <1>6, <1>7

\* The tests: one begins, one is answered, one lands.
LEMMA TestsKeep ==
    ASSUME SetupInv, TestServer \/ TestWrapper \/ \E t \in tests : Answers(t) \/ Lands(t) PROVE SetupInv'
<1> USE SetupAssumption
<1>ty. FormTyped /\ TestsOfServer /\ AnswerShown /\ AppliedAnswered /\ OneManager /\ OneWork
  BY DEF SetupInv
<1>sv. server \in Servers /\ server.gen \in Nat /\ tests \subseteq TestRecords
  BY <1>ty DEF FormTyped, Servers
<1>1. CASE TestServer
  <2>1. /\ typed.server # Nowhere /\ Uses("tests")
        /\ server' = [server EXCEPT !.gen = @ + 1, !.testing = typed.server]
        /\ tests' = tests \union {Test("server", server.gen + 1, typed.server)}
        /\ UNCHANGED <<settings, typed, reached, run, managers, guest, works>>
    BY <1>1 DEF TestServer, ComputerVars
  <2>2. typed.server \in Addresses
    BY <1>ty, <2>1 DEF FormTyped, Forms, Typing
  <2>3. PICK t \in TestRecords : t = Test("server", server.gen + 1, typed.server)
    <3>1. server.gen + 1 \in Nat
      BY <1>ty, TestsOlder
    <3> QED BY <2>2, <3>1 DEF Test, TestRecords
  <2>4. t.of = "server" /\ t.gen = server.gen + 1 /\ t.address = typed.server
    BY <2>3 DEF Test
  <2>5. /\ server' \in Servers /\ server'.testing = typed.server /\ server'.gen = server.gen + 1
        /\ server'.shown = server.shown
    <3>1. server' = [server EXCEPT !.gen = server.gen + 1, !.testing = typed.server]
      BY <2>1
    <3>2. server.gen + 1 \in Nat /\ typed.server \in Typing
      BY <1>ty, <2>2, TestsOlder DEF Typing
    <3>3. PICK g \in Nat : g = server.gen + 1
      BY <3>2
    <3>4. server' = [server EXCEPT !.gen = g, !.testing = typed.server]
      BY <3>1, <3>3
    <3> QED BY <1>sv, <3>2, <3>3, <3>4 DEF Servers
  <2>6. FormTyped'
    BY <1>ty, <2>1, <2>3, <2>5, UsesKeeps DEF FormTyped
  <2>7. tests' = tests \cup {t}
    BY <2>1, <2>3
  <2>8. \A u \in tests : u.of = "server" => u.gen \in Nat /\ u.gen # server'.gen /\ u.gen <= server'.gen
    BY <1>ty, <2>5, TestsOlder
  <2>9. TestsOfServer'
    BY <1>ty, <1>sv, <2>4, <2>5, <2>7, <2>8 DEF TestsOfServer, Newest
  <2>10. AnswerShown' /\ AppliedAnswered'
    BY <1>ty, <2>1, <2>5 DEF AnswerShown, AppliedAnswered
  <2>11. OneManager' /\ OneWork'
    BY <1>ty, <2>1, ComputerStays
  <2> QED BY <2>6, <2>9, <2>10, <2>11 DEF SetupInv
<1>2. CASE TestWrapper
  <2>1. /\ typed.wrapper # Nowhere /\ Uses("tests")
        /\ tests' = tests \union {Test("wrapper", left.tests, typed.wrapper)}
        /\ UNCHANGED <<settings, typed, server, reached, run, managers, guest, works>>
    BY <1>2 DEF TestWrapper, ComputerVars
  <2>2. typed.wrapper \in Addresses /\ left.tests \in Nat
    BY <1>ty, <2>1 DEF FormTyped, Forms, Typing, Budgets
  <2>3. PICK t \in TestRecords : t = Test("wrapper", left.tests, typed.wrapper)
    BY <2>2 DEF Test, TestRecords
  <2>4. t.of = "wrapper" /\ tests' = tests \cup {t}
    BY <2>1, <2>3 DEF Test
  <2>5. FormTyped'
    BY <1>ty, <2>1, <2>4, UsesKeeps DEF FormTyped
  <2>6. TestsOfServer' /\ AnswerShown' /\ AppliedAnswered'
    BY <1>ty, <2>1, <2>4 DEF TestsOfServer, Newest, AnswerShown, AppliedAnswered
  <2>7. OneManager' /\ OneWork'
    BY <1>ty, <2>1, ComputerStays
  <2> QED BY <2>5, <2>6, <2>7 DEF SetupInv
<1>3. ASSUME NEW t \in tests, Answers(t) PROVE SetupInv'
  <2>1. PICK f \in {"ready", "failed"} : tests' = (tests \ {t}) \union {[t EXCEPT !.found = f]}
    BY <1>3 DEF Answers
  <2>2. UNCHANGED <<left, settings, typed, server, reached, run, managers, guest, works>>
    BY <1>3 DEF Answers, ComputerVars
  <2>3. PICK u \in TestRecords : u = [t EXCEPT !.found = f]
    BY <1>sv DEF TestRecords
  <2>4. u.of = t.of /\ u.gen = t.gen /\ u.address = t.address /\ tests' = (tests \ {t}) \cup {u}
    BY <1>sv, <2>1, <2>3 DEF TestRecords
  <2>5. FormTyped'
    BY <1>ty, <2>2, <2>4 DEF FormTyped
  <2>6. TestsOfServer'
    BY <1>ty, <2>2, <2>4 DEF TestsOfServer, Newest
  <2>7. AnswerShown' /\ AppliedAnswered'
    BY <1>ty, <2>2 DEF AnswerShown, AppliedAnswered
  <2>8. OneManager' /\ OneWork'
    BY <1>ty, <2>2, ComputerStays
  <2> QED BY <2>5, <2>6, <2>7, <2>8 DEF SetupInv
<1>4. ASSUME NEW t \in tests, Lands(t) PROVE SetupInv'
  <2>1. /\ tests' = tests \ {t} /\ UNCHANGED <<left, settings, typed, run, managers, guest, works>>
        /\ t.found # "nothing yet" /\ reached \subseteq reached'
        /\ t.found = "ready" => <<t.of, t.address>> \in reached'
    BY <1>4 DEF Lands, ComputerVars
  <2>2. t \in TestRecords /\ t.address \in Typing /\ t.found \in {"ready", "failed"}
    BY <1>sv, <2>1 DEF TestRecords, Typing
  <2>3. CASE t.of = "server" /\ Shows(t)
    <3>1. server' = [server EXCEPT !.shown = [address |-> t.address, reach |-> t.found], !.testing = Nowhere]
      BY <1>4, <2>3 DEF Lands
    <3>2. /\ server' \in Servers /\ server'.testing = Nowhere /\ server'.gen = server.gen
          /\ server'.shown.address = t.address /\ server'.shown.reach = t.found
      BY <1>sv, <2>2, <3>1 DEF Servers, ShownServers, Typing
    <3>3. \A u \in tests \ {t} : ~Newest(u)
      BY <1>ty, <2>3 DEF TestsOfServer, Newest, Shows
    <3>4. FormTyped'
      BY <1>ty, <2>1, <3>2 DEF FormTyped
    <3>5. TestsOfServer'
      BY <1>ty, <2>1, <3>2, <3>3 DEF TestsOfServer, Newest
    <3>6. AnswerShown' /\ AppliedAnswered'
      BY <1>ty, <2>1, <2>3, <3>2 DEF AnswerShown, AppliedAnswered
    <3>7. OneManager' /\ OneWork'
      BY <1>ty, <2>1, ComputerStays
    <3> QED BY <3>4, <3>5, <3>6, <3>7 DEF SetupInv
  <2>4. CASE ~(t.of = "server" /\ Shows(t))
    <3>1. UNCHANGED server
      BY <1>4, <2>4 DEF Lands
    <3>2. ~Newest(t)
      BY <2>1, <2>4 DEF Newest, Shows
    <3>3. FormTyped'
      BY <1>ty, <2>1, <3>1 DEF FormTyped
    <3>4. TestsOfServer'
      BY <1>ty, <2>1, <3>1, <3>2 DEF TestsOfServer, Newest
    <3>5. AnswerShown' /\ AppliedAnswered'
      BY <1>ty, <2>1, <3>1 DEF AnswerShown, AppliedAnswered
    <3>6. OneManager' /\ OneWork'
      BY <1>ty, <2>1, ComputerStays
    <3> QED BY <3>3, <3>4, <3>5, <3>6 DEF SetupInv
  <2> QED BY <2>3, <2>4
<1> QED BY <1>1, <1>2, <1>3, <1>4

\* What runs on this computer.
LEMMA ComputerKeeps ==
    ASSUME SetupInv,
           \/ Check \/ CancelRun \/ CancelGuest \/ WorldChanges \/ \E t \in Tools : Install(t)
           \/ \E m \in managers : RunEnds(m)
           \/ \E c \in BOOLEAN : InstallGuest(c)
           \/ \E w \in works : GuestEnds(w)
    PROVE  SetupInv'
<1> USE SetupAssumption
<1>ty. FormTyped /\ TestsOfServer /\ AnswerShown /\ AppliedAnswered /\ OneManager /\ OneWork
  BY DEF SetupInv
<1>1. ASSUME UNCHANGED <<typed, settings, tests, server, reached>>, left' \in Budgets, managers' \subseteq Managers,
             run' \in [tool : Tools \cup {"none"}, state : {"none", "working", "failed", "ready"}],
             OneManager', OneWork'
      PROVE  SetupInv'
  BY <1>ty, <1>1 DEF SetupInv, FormTyped, TestsOfServer, Newest, AnswerShown, AppliedAnswered
<1>2. CASE Check \/ WorldChanges
  <2>1. /\ UNCHANGED <<typed, settings, tests, server, reached, run, managers, works>>
        /\ guest' = CheckGuest(guest) \/ UNCHANGED guest
        /\ UNCHANGED left \/ Uses("world")
    BY <1>2 DEF Check, WorldChanges, FormVars, ComputerVars
  <2>2. OneManager' /\ OneWork'
    BY <1>ty, <2>1, GuestLooked, ComputerStays
  <2> QED BY <1>1, <1>ty, <2>1, <2>2, UsesKeeps DEF FormTyped
<1>3. CASE CancelRun
  <2>1. /\ managers' = {[m EXCEPT !.canceled = TRUE] : m \in managers} /\ run.state = "working"
        /\ UNCHANGED <<left, typed, settings, tests, server, reached, run, works, guest>>
    BY <1>3 DEF CancelRun, FormVars
  <2>2. PICK m : managers = {m} /\ m.tool = run.tool
    BY <1>ty, <2>1 DEF OneManager
  <2>3. m \in Managers
    BY <1>ty, <2>2 DEF FormTyped
  <2>4. PICK n \in Managers : n = [m EXCEPT !.canceled = TRUE]
    BY <2>3 DEF Managers
  <2>5. n.tool = m.tool /\ managers' = {n}
    BY <2>1, <2>2, <2>3, <2>4 DEF Managers
  <2>6. OneManager' /\ OneWork'
    BY <1>ty, <2>1, <2>2, <2>5 DEF OneManager, OneWork
  <2> QED BY <1>1, <1>ty, <2>1, <2>4, <2>5, <2>6 DEF FormTyped
<1>4. CASE CancelGuest
  <2>1. /\ works' = {[w EXCEPT !.canceled = TRUE] : w \in works}
        /\ UNCHANGED <<left, typed, settings, tests, server, reached, run, managers, guest>>
    BY <1>4 DEF CancelGuest, FormVars
  <2>2. works' = {} <=> works = {}
    BY <2>1
  <2>3. ASSUME NEW w, works = {w} PROVE works' = {[w EXCEPT !.canceled = TRUE]}
    BY <2>1, <2>3
  <2>4. OneManager' /\ OneWork'
    BY <1>ty, <2>1, <2>2, <2>3 DEF OneManager, OneWork
  <2> QED BY <1>1, <1>ty, <2>1, <2>4 DEF FormTyped
<1>5. ASSUME NEW t \in Tools, Install(t) PROVE SetupInv'
  <2>1. /\ run.state # "working" /\ Uses("installs") /\ run' = [tool |-> t, state |-> "working"]
        /\ managers' = managers \union {[tool |-> t, ffmpeg |-> settings.ffmpeg, canceled |-> FALSE]}
        /\ UNCHANGED <<typed, settings, tests, server, reached, guest, works>>
    BY <1>5 DEF Install, MayInstall, FormVars
  <2>2. settings.ffmpeg \in FFmpegs
    BY <1>ty DEF FormTyped, Settings
  <2>3. PICK n \in Managers : n = [tool |-> t, ffmpeg |-> settings.ffmpeg, canceled |-> FALSE]
    BY <2>2 DEF Managers
  <2>4. managers' = {n} /\ n.tool = t /\ run'.tool = t /\ run'.state = "working"
    BY <1>ty, <2>1, <2>3 DEF OneManager
  <2>5. OneManager' /\ OneWork'
    BY <1>ty, <2>1, <2>4 DEF OneManager, OneWork
  <2>6. run' \in [tool : Tools \cup {"none"}, state : {"none", "working", "failed", "ready"}]
    BY <2>1
  <2> QED BY <1>1, <1>ty, <2>1, <2>3, <2>4, <2>5, <2>6, UsesKeeps DEF FormTyped
<1>6. ASSUME NEW m \in managers, RunEnds(m) PROVE SetupInv'
  <2>1. /\ managers' = managers \ {m} /\ guest' = CheckGuest(guest)
        /\ UNCHANGED <<left, typed, settings, tests, server, reached, works>>
    BY <1>6 DEF RunEnds, FormVars
  <2>2. PICK end \in {"ready", "failed"} : run' = [run EXCEPT !.state = end]
    BY <1>6 DEF RunEnds
  <2>3. /\ run' \in [tool : Tools \cup {"none"}, state : {"none", "working", "failed", "ready"}]
        /\ run'.state = end
    BY <1>ty, <2>2 DEF FormTyped
  <2>4. managers' = {}
    BY <1>ty, <2>1 DEF OneManager
  <2>5. OneManager' /\ OneWork'
    BY <1>ty, <2>1, <2>3, <2>4, GuestLooked DEF OneManager, OneWork
  <2> QED BY <1>1, <1>ty, <2>1, <2>3, <2>4, <2>5 DEF FormTyped
<1>7. ASSUME NEW c \in BOOLEAN, InstallGuest(c) PROVE SetupInv'
  <2>1. /\ guest.state # "working" /\ Uses("installs") /\ guest' = [state |-> "working", cancel |-> c]
        /\ works' = works \union {[n |-> left.installs, canceled |-> FALSE]}
        /\ UNCHANGED <<typed, settings, tests, server, reached, run, managers>>
    BY <1>7 DEF InstallGuest, FormVars
  <2>2. OneManager' /\ OneWork'
    BY <1>ty, <2>1 DEF OneManager, OneWork
  <2> QED BY <1>1, <1>ty, <2>1, <2>2, UsesKeeps DEF FormTyped
<1>8. ASSUME NEW w \in works, GuestEnds(w) PROVE SetupInv'
  <2>1. /\ works' = works \ {w} /\ guest'.state \in {"ready", "missing", "failed"}
        /\ UNCHANGED <<left, typed, settings, tests, server, reached, run, managers>>
    BY <1>8 DEF GuestEnds, FormVars
  <2>2. OneManager' /\ OneWork'
    BY <1>ty, <2>1 DEF OneManager, OneWork
  <2> QED BY <1>1, <1>ty, <2>1, <2>2 DEF FormTyped
<1> QED BY <1>2, <1>3, <1>4, <1>5, <1>6, <1>7, <1>8

LEMMA SetupInvStep == SetupInv /\ [SetupNext]_setupVars => SetupInv'
<1> SUFFICES ASSUME SetupInv, [SetupNext]_setupVars PROVE SetupInv'
  OBVIOUS
<1>1. CASE UNCHANGED setupVars
  BY <1>1 DEF SetupInv, FormTyped, TestsOfServer, Newest, AnswerShown, AppliedAnswered, OneManager, OneWork, setupVars
<1>2. CASE SetupNext
  BY <1>2, FormKeeps, TestsKeep, ComputerKeeps, Zenon DEF SetupNext
<1> QED BY <1>1, <1>2

LEMMA OneCounted ==
    ASSUME NEW S, S = {} \/ \E x : S = {x} PROVE Cardinality(S) <= 1
<1>1. CASE S = {}
  <2>1. Cardinality(S) = 0
    BY <1>1, FS_EmptySet
  <2> QED BY <2>1
<1>2. ASSUME NEW x, S = {x} PROVE Cardinality(S) <= 1
  <2>1. Cardinality(S) = 1
    BY <1>2, FS_Singleton
  <2> QED BY <2>1
<1> QED BY <1>1, <1>2

LEMMA SetupInvHolds == SetupInv => SetupHolds
<1> SUFFICES ASSUME SetupInv PROVE SetupHolds
  OBVIOUS
<1>ty. FormTyped /\ TestsOfServer /\ AppliedAnswered /\ OneManager /\ OneWork
  BY DEF SetupInv
<1>1. NewestShown
  <2> DEFINE newest == {t \in tests : t.of = "server" /\ t.gen = server.gen}
  <2>1. \A t \in newest : server.testing = t.address
    BY <1>ty DEF TestsOfServer, Newest
  <2>2. newest # {} => server.testing # Nowhere
    <3>1. \A t \in newest : t.address \in Addresses
      BY <1>ty DEF FormTyped, TestRecords
    <3>2. ASSUME NEW t \in newest PROVE server.testing # Nowhere
      BY <2>1, <3>1, SetupAssumption
    <3> HIDE DEF newest
    <3> QED BY <3>2
  <2>3. server.testing # Nowhere => newest # {}
    BY <1>ty DEF TestsOfServer, Newest
  <2>4. (server.testing # Nowhere) = (newest # {})
    BY <2>2, <2>3
  <2> QED BY <2>1, <2>4 DEF NewestShown
<1>2. OneOfEach
  <2>1. Cardinality(managers) <= 1 /\ Cardinality(works) <= 1
    BY <1>ty, OneCounted DEF OneManager, OneWork
  <2>2. (run.state = "working") = (managers # {}) /\ \A m \in managers : m.tool = run.tool
    BY <1>ty DEF OneManager
  <2>3. (guest.state = "working") = (works # {})
    BY <1>ty DEF OneWork
  <2> QED BY <2>1, <2>2, <2>3 DEF OneOfEach
<1> QED BY <1>ty, <1>1, <1>2 DEF SetupHolds

\* The setup screen applies only a server that answered a test, shows the newest
\* test and no other, and runs one package manager and one guest install at a
\* time, however answers, openings and cancels cross (ui/setup*.go).
THEOREM SetupStands == SetupSpec => []SetupHolds
<1>1. SetupInit => SetupInv
  BY SetupInvInit
<1>2. SetupInv /\ [SetupNext]_setupVars => SetupInv'
  BY SetupInvStep
<1>3. SetupInv => SetupHolds
  BY SetupInvHolds
<1> QED BY <1>1, <1>2, <1>3, PTL DEF SetupSpec

-----------------------------------------------------------------------------
(* The motion covers *)

EntryRecords == [id : Nat, player : Nat, loading : BOOLEAN, failedAt : Nat, used : Nat]
OpenRecords == [key : Covers, entry : Nat, ffmpeg : Decoders \cup {NoDecoder},
                at : {"queued", "slot", "fetching", "file", "failed", "opened", "gone"}]
Entered == [Covers -> EntryRecords]
Opened == Seq(OpenRecords)
Under(os) == {o \in DOMAIN os : os[o].at # "gone"}
CoversTyped ==
    /\ entries \in Entered /\ opens \in Opened
    /\ clock \in Nat /\ sweepAt \in Nat /\ sweepAt <= clock + 1
    /\ decoder \in Decoders \cup {NoDecoder}

\* The entries es beside the opens os: an entry that nobody waits for has nothing,
\* ids and opens are told apart by their numbers, and an entry waits while the one
\* open that it started last is under way.
Numbered(es, os) ==
    /\ \A k \in Covers : es[k].id <= Len(os) /\ (es[k].id = 0 => es[k].player = 0 /\ ~es[k].loading)
    /\ \A o \in DOMAIN os : 1 <= os[o].entry /\ os[o].entry <= Len(os)
Awaited(es, os) ==
    /\ \A o \in Under(os) : es[os[o].key].id = os[o].entry => es[os[o].key].loading
    /\ \A o, p \in Under(os) : os[o].key = os[p].key /\ os[o].entry = os[p].entry => o = p
    /\ \A k \in Covers : es[k].loading => es[k].player = 0
OfDecoder(es, os) ==
    \A o \in DOMAIN os : es[os[o].key].id = os[o].entry => os[o].ffmpeg = decoder
Playing(es, os) ==
    \A k \in Covers : es[k].player # 0 =>
        /\ es[k].player \in DOMAIN os /\ os[es[k].player].at = "gone"
        /\ os[es[k].player].key = k /\ os[es[k].player].ffmpeg = decoder
EntriesHold(es, os) == Numbered(es, os) /\ Awaited(es, os) /\ OfDecoder(es, os) /\ Playing(es, os)

OpenedIn(os) == {o \in DOMAIN os : os[o].at = "opened"}
PlayersIn(es) == {k \in Covers : es[k].player # 0}
FewPlay == Cardinality(PlayersIn(entries)) <= MaxPlayers
Asked ==
    /\ \A k \in Covers : entries[k].used <= clock
    /\ SweepIsDue
Trimmings ==
    /\ parts \subseteq DOMAIN opens \cup {0}
    /\ trimming.at \in {"before", "read", "done"}
    /\ trimming.at = "read" /\ 0 \in parts => 0 \in trimming.parts
    /\ PartsAreFetches

CoversInv == CoversTyped /\ EntriesHold(entries, opens) /\ NoneOrphaned /\ FewPlay /\ Asked /\ Trimmings

LEMMA NoEntryIs == NoEntry \in EntryRecords /\ NoEntry.id = 0 /\ NoEntry.player = 0 /\ NoEntry.used = 0 /\ ~NoEntry.loading
  BY DEF NoEntry, EntryRecords

LEMMA EntryIs ==
    ASSUME NEW es \in Entered, NEW k \in Covers
    PROVE  /\ es[k] \in EntryRecords /\ es[k].id \in Nat /\ es[k].player \in Nat /\ es[k].used \in Nat
           /\ es[k].loading \in BOOLEAN
  BY DEF Entered, EntryRecords

LEMMA OpenIs ==
    ASSUME NEW os \in Opened
    PROVE  /\ DOMAIN os = 1..Len(os) /\ Len(os) \in Nat
           /\ \A o \in DOMAIN os : os[o] \in OpenRecords /\ os[o].key \in Covers /\ os[o].entry \in Nat
<1>1. DOMAIN os = 1..Len(os) /\ Len(os) \in Nat
  BY DEF Opened
<1>2. \A o \in DOMAIN os : os[o] \in OpenRecords
  BY DEF Opened
<1>3. \A r \in OpenRecords : r.key \in Covers /\ r.entry \in Nat
  BY DEF OpenRecords
<1> QED BY <1>1, <1>2, <1>3

\* A sweep leaves an entry as it is or drops it, keeps what is on its way, and
\* stops the players of what it drops and no other.
LEMMA SweepDrops ==
    ASSUME CoversAssumption, NEW es \in Entered, NEW os \in Opened, EntriesHold(es, os), clock \in Nat,
           NEW gone, NEW over \in Over(es), gone = LongUnasked(es) \union over,
           NEW es2, es2 = Without(es, gone), NEW stopped, stopped = PlayersOf(es, gone)
    PROVE  /\ es2 \in Entered
           /\ \A k \in Covers : es2[k] = es[k] \/ es2[k] = NoEntry
           /\ \A k \in Covers : es[k].loading => es2[k] = es[k]
           /\ \A k \in Covers : es2[k].player # 0 => es2[k] = es[k] /\ clock <= es[k].used + 1 /\ k \in Live(es)
           /\ PlayersOf(es2, Covers) = PlayersOf(es, Covers) \ stopped
           /\ stopped \subseteq PlayersOf(es, Covers)
           /\ Cardinality(PlayersIn(es2)) <= MaxPlayers
<1>1. /\ over \subseteq Live(es) /\ Cardinality(Live(es) \ over) <= MaxPlayers
  BY DEF Over
<1>2. \A k \in Covers : es2[k] = IF k \in gone THEN NoEntry ELSE es[k]
  BY DEF Without
<1>3. es2 \in Entered
  BY NoEntryIs, EntryIs DEF Without, Entered
<1>4. \A k \in Covers : es[k].loading => k \notin gone
  BY <1>1 DEF Live, LongUnasked
<1>5. \A k \in Covers : es2[k].player # 0 => k \notin gone /\ es2[k] = es[k]
  BY <1>2, NoEntryIs
<1>6. \A k \in Covers : es[k].player # 0 => k \in Holds(es) /\ ~es[k].loading
  BY DEF Holds, EntriesHold, Numbered, Awaited
<1>7. \A k \in Covers : es2[k].player # 0 => k \in Live(es) \ over
  BY <1>5, <1>6 DEF Live
<1>8. ASSUME NEW k \in Covers, es2[k].player # 0 PROVE clock <= es[k].used + 1
  <2>1. ~(clock - es[k].used > 1)
    BY <1>5, <1>6, <1>8 DEF LongUnasked
  <2>2. es[k].used \in Nat
    BY EntryIs
  <2> QED BY <2>1, <2>2
<1>9. PlayersOf(es2, Covers) = PlayersOf(es, Covers) \ stopped
  <2>1. ASSUME NEW k \in Covers, NEW l \in Covers, es[k].player = es[l].player, es[k].player # 0 PROVE k = l
    BY <2>1 DEF EntriesHold, Playing
  <2>2. gone \subseteq Covers
    BY <1>1 DEF Live, LongUnasked, Holds
  <2>3. \A p : p \in PlayersOf(es2, Covers) <=> p # 0 /\ \E k \in Covers : es2[k].player = p
    BY DEF PlayersOf
  <2>4. \A p : p \in PlayersOf(es, Covers) <=> p # 0 /\ \E k \in Covers : es[k].player = p
    BY DEF PlayersOf
  <2>5. \A p : p \in stopped <=> p # 0 /\ \E k \in gone : es[k].player = p
    BY DEF PlayersOf
  <2>6. ASSUME NEW p, p \in PlayersOf(es2, Covers) PROVE p \in PlayersOf(es, Covers) /\ p \notin stopped
    <3>1. PICK k \in Covers : es2[k].player = p /\ p # 0
      BY <2>3, <2>6
    <3>2. k \notin gone /\ es[k].player = p
      BY <1>5, <3>1
    <3>3. p \in PlayersOf(es, Covers)
      BY <2>4, <3>1, <3>2
    <3>4. ASSUME NEW l \in gone, es[l].player = p PROVE FALSE
      BY <2>1, <2>2, <3>1, <3>2, <3>4
    <3> QED BY <2>5, <3>3, <3>4
  <2>7. ASSUME NEW p, p \in PlayersOf(es, Covers), p \notin stopped PROVE p \in PlayersOf(es2, Covers)
    <3>1. PICK k \in Covers : es[k].player = p /\ p # 0
      BY <2>4, <2>7
    <3>2. k \notin gone
      BY <2>5, <2>7, <3>1
    <3> QED BY <1>2, <2>3, <3>1, <3>2
  <2> QED BY <2>6, <2>7
<1>10. stopped \subseteq PlayersOf(es, Covers)
  BY <1>1 DEF PlayersOf, Live, LongUnasked, Holds
<1>11. Cardinality(PlayersIn(es2)) <= MaxPlayers
  <2>1. PlayersIn(es2) \subseteq Live(es) \ over
    BY <1>7 DEF PlayersIn
  <2>2. IsFiniteSet(Live(es) \ over)
    <3>1. Live(es) \ over \in SUBSET Covers
      BY DEF Live, Holds
    <3> QED BY <3>1, FS_Subset DEF CoversAssumption
  <2>3. Cardinality(PlayersIn(es2)) <= Cardinality(Live(es) \ over)
    BY <2>1, <2>2, FS_Subset
  <2>4. IsFiniteSet(PlayersIn(es2))
    BY <2>1, <2>2, FS_Subset
  <2>5. Cardinality(PlayersIn(es2)) \in Nat /\ Cardinality(Live(es) \ over) \in Nat /\ MaxPlayers \in Nat
    BY <2>2, <2>4, FS_CardinalityType DEF CoversAssumption
  <2> QED BY <1>1, <2>3, <2>5
<1> QED BY <1>2, <1>3, <1>4, <1>5, <1>7, <1>8, <1>9, <1>10, <1>11

\* What it leaves still holds beside the opens.
LEMMA DroppedHold ==
    ASSUME NEW es \in Entered, NEW es2 \in Entered, NEW os \in Opened, EntriesHold(es, os),
           \A k \in Covers : es2[k] = es[k] \/ es2[k] = NoEntry,
           \A k \in Covers : es[k].loading => es2[k] = es[k]
    PROVE  EntriesHold(es2, os)
<1>o. /\ Len(os) \in Nat /\ DOMAIN os = 1..Len(os)
      /\ \A o \in DOMAIN os : os[o].key \in Covers /\ os[o].entry \in Nat
  BY OpenIs
<1>1. Numbered(es2, os)
  BY <1>o, NoEntryIs, EntryIs DEF EntriesHold, Numbered
<1>2. \A o \in DOMAIN os : es2[os[o].key].id = os[o].entry => es2[os[o].key] = es[os[o].key]
  BY <1>o, NoEntryIs DEF EntriesHold, Numbered
<1>3. Awaited(es2, os)
  BY <1>o, <1>2, NoEntryIs DEF EntriesHold, Awaited, Under
<1>4. OfDecoder(es2, os) /\ Playing(es2, os)
  BY <1>o, <1>2, NoEntryIs DEF EntriesHold, OfDecoder, Playing
<1> QED BY <1>1, <1>3, <1>4 DEF EntriesHold

LEMMA StepMoves ==
    ASSUME NEW os \in Opened, NEW o \in DOMAIN os,
           NEW at \in {"queued", "slot", "fetching", "file", "failed", "opened", "gone"},
           NEW os2, os2 = [os EXCEPT ![o].at = at]
    PROVE  /\ os2 \in Opened /\ Len(os2) = Len(os) /\ DOMAIN os2 = DOMAIN os
           /\ \A p \in DOMAIN os :
               /\ os2[p].key = os[p].key /\ os2[p].entry = os[p].entry /\ os2[p].ffmpeg = os[p].ffmpeg
               /\ os2[p].at = IF p = o THEN at ELSE os[p].at
<1>1. os[o] \in OpenRecords
  BY OpenIs
<1>2. PICK r \in OpenRecords : r = [os[o] EXCEPT !.at = at]
  BY <1>1 DEF OpenRecords
<1>3. r.key = os[o].key /\ r.entry = os[o].entry /\ r.ffmpeg = os[o].ffmpeg /\ r.at = at
  BY <1>1, <1>2 DEF OpenRecords
<1>4. os2 = [os EXCEPT ![o] = r]
  BY <1>2
<1>5. os2 \in Opened /\ Len(os2) = Len(os) /\ DOMAIN os2 = DOMAIN os
  BY <1>4 DEF Opened
<1>6. \A p \in DOMAIN os : os2[p] = IF p = o THEN r ELSE os[p]
  BY <1>4
<1> QED BY <1>3, <1>5, <1>6

\* An open moves on, is over without its entry, or lands on it.
LEMMA MovesHold ==
    ASSUME NEW es \in Entered, NEW os \in Opened, EntriesHold(es, os), NEW o \in Under(os),
           NEW at \in {"queued", "slot", "fetching", "file", "failed", "opened", "gone"},
           at = "gone" => es[os[o].key].id # os[o].entry,
           NEW os2, os2 = [os EXCEPT ![o].at = at]
    PROVE  EntriesHold(es, os2)
<1>1. /\ Len(os2) = Len(os) /\ DOMAIN os2 = DOMAIN os
      /\ \A p \in DOMAIN os :
          /\ os2[p].key = os[p].key /\ os2[p].entry = os[p].entry /\ os2[p].ffmpeg = os[p].ffmpeg
          /\ os2[p].at = IF p = o THEN at ELSE os[p].at
  BY StepMoves DEF Under
<1>2. Under(os2) \subseteq Under(os)
  BY <1>1 DEF Under
<1>3. Numbered(es, os2)
  BY <1>1 DEF EntriesHold, Numbered
<1>4. Awaited(es, os2)
  BY <1>1, <1>2 DEF EntriesHold, Awaited, Under
<1>5. OfDecoder(es, os2) /\ Playing(es, os2)
  BY <1>1 DEF EntriesHold, OfDecoder, Playing, Under
<1> QED BY <1>3, <1>4, <1>5 DEF EntriesHold

LEMMA LandsHold ==
    ASSUME NEW es \in Entered, NEW os \in Opened, EntriesHold(es, os), NEW o \in Under(os),
           es[os[o].key].id = os[o].entry,
           NEW os2, os2 = [os EXCEPT ![o].at = "gone"],
           NEW es2 \in Entered, \A l \in Covers : l # os[o].key => es2[l] = es[l],
           es2[os[o].key].id = es[os[o].key].id, es2[os[o].key].player \in {0, o}, ~es2[os[o].key].loading
    PROVE  EntriesHold(es2, os2)
<1>1. /\ Len(os2) = Len(os) /\ DOMAIN os2 = DOMAIN os
      /\ \A p \in DOMAIN os :
          /\ os2[p].key = os[p].key /\ os2[p].entry = os[p].entry /\ os2[p].ffmpeg = os[p].ffmpeg
          /\ os2[p].at = IF p = o THEN "gone" ELSE os[p].at
  BY StepMoves DEF Under
<1>2. Under(os2) = Under(os) \ {o}
  BY <1>1 DEF Under
<1>3. /\ DOMAIN os = 1..Len(os) /\ Len(os) \in Nat /\ o \in DOMAIN os
      /\ \A p \in DOMAIN os : os[p].key \in Covers /\ os[p].entry \in Nat
  BY OpenIs DEF Under
<1>4. es2[os[o].key].id # 0
  BY <1>3 DEF EntriesHold, Numbered
<1>5. Numbered(es2, os2)
  BY <1>1, <1>3, <1>4 DEF EntriesHold, Numbered
<1>6. Awaited(es2, os2)
  <2>1. \A p \in Under(os) : p # o => ~(os[p].key = os[o].key /\ os[p].entry = os[o].entry)
    BY DEF EntriesHold, Awaited
  <2>2. \A p \in Under(os2) : p \in Under(os) /\ p \in DOMAIN os /\ p # o
    BY <1>2 DEF Under
  <2>3. \A p \in Under(os2) : es2[os2[p].key].id = os2[p].entry => es2[os2[p].key].loading
    BY <1>1, <1>3, <2>1, <2>2 DEF EntriesHold, Awaited
  <2>4. \A p, q \in Under(os2) : os2[p].key = os2[q].key /\ os2[p].entry = os2[q].entry => p = q
    BY <1>1, <2>2 DEF EntriesHold, Awaited
  <2>5. \A l \in Covers : es2[l].loading => es2[l].player = 0
    BY DEF EntriesHold, Awaited
  <2> QED BY <2>3, <2>4, <2>5 DEF Awaited
<1>7. OfDecoder(es2, os2)
  BY <1>1, <1>3 DEF EntriesHold, OfDecoder
<1>8. Playing(es2, os2)
  BY <1>1, <1>3 DEF EntriesHold, OfDecoder, Playing, Under
<1> QED BY <1>5, <1>6, <1>7, <1>8 DEF EntriesHold

\* Get leaves an entry that has a player or an open, or one that failed of late;
\* else it starts an open.
LEMMA AskedHold ==
    ASSUME NEW es \in Entered, NEW os \in Opened, EntriesHold(es, os), NEW k \in Covers,
           NEW es2 \in Entered, \A l \in Covers : l # k => es2[l] = es[l],
           es2[k].id = es[k].id, es2[k].player = es[k].player, es2[k].loading = es[k].loading
    PROVE  EntriesHold(es2, os)
<1>1. \A l \in Covers : es2[l].id = es[l].id /\ es2[l].player = es[l].player /\ es2[l].loading = es[l].loading
  OBVIOUS
<1>2. \A o \in DOMAIN os : os[o].key \in Covers
  BY OpenIs
<1> QED BY <1>1, <1>2 DEF EntriesHold, Numbered, Awaited, OfDecoder, Playing, Under

Started(es, es2, os, os2, k, r) ==
    /\ es \in Entered /\ os \in Opened /\ EntriesHold(es, os) /\ k \in Covers
    /\ es[k].player = 0 /\ ~es[k].loading
    /\ r \in OpenRecords /\ r.key = k /\ r.ffmpeg = decoder /\ r.at = "queued"
    /\ r.entry = IF es[k].id = 0 THEN Len(os) + 1 ELSE es[k].id
    /\ Len(os2) = Len(os) + 1 /\ DOMAIN os2 = DOMAIN os \cup {Len(os) + 1} /\ os2[Len(os) + 1] = r
    /\ \A p \in DOMAIN os : os2[p] = os[p]
    /\ es2 \in Entered /\ \A l \in Covers : l # k => es2[l] = es[l]
    /\ es2[k].id = r.entry /\ es2[k].player = 0 /\ es2[k].loading

LEMMA StartsHold ==
    ASSUME NEW es, NEW es2, NEW os, NEW os2, NEW k, NEW r, Started(es, es2, os, os2, k, r)
    PROVE  EntriesHold(es2, os2)
<1> USE DEF Started
<1>0. es \in Entered /\ os \in Opened /\ k \in Covers /\ es2 \in Entered /\ r \in OpenRecords /\ EntriesHold(es, os)
  OBVIOUS
<1>n. PICK n \in Nat : n = Len(os) + 1
  BY <1>0, OpenIs
<1>i. PICK id \in Nat : id = r.entry /\ id = IF es[k].id = 0 THEN Len(os) + 1 ELSE es[k].id
  BY <1>0 DEF OpenRecords
<1>1. /\ DOMAIN os = 1..Len(os) /\ Len(os) \in Nat
      /\ \A p \in DOMAIN os : os[p].key \in Covers /\ os[p].entry \in Nat
  BY <1>0, OpenIs
<1>2. n = Len(os) + 1 /\ n \notin DOMAIN os
  BY <1>1, <1>n
<1>3. /\ Len(os2) = n /\ DOMAIN os2 = DOMAIN os \cup {n}
      /\ os2[n] = r /\ \A p \in DOMAIN os : os2[p] = os[p]
  BY <1>n
<1>4. Under(os2) = Under(os) \cup {n}
  BY <1>2, <1>3 DEF Under
<1>5. \A p \in DOMAIN os : os[p].key = k /\ os[p].entry = id => es[k].id = id
  BY <1>1, <1>i DEF EntriesHold, Numbered
<1>6. Numbered(es2, os2)
  <2>1. \A l \in Covers : es[l].id \in Nat /\ es[l].id <= Len(os)
    BY <1>0, EntryIs DEF EntriesHold, Numbered
  <2>2. 1 <= id /\ id <= n
    BY <1>1, <1>2, <1>i, <2>1
  <2>3. \A l \in Covers : es2[l].id <= n
    BY <1>1, <1>2, <1>i, <2>1, <2>2
  <2>4. \A l \in Covers : es2[l].id = 0 => es2[l].player = 0 /\ ~es2[l].loading
    BY <1>i, <2>2 DEF EntriesHold, Numbered
  <2>5. \A p \in DOMAIN os2 : 1 <= os2[p].entry /\ os2[p].entry <= n
    BY <1>1, <1>2, <1>3, <1>i, <2>2 DEF EntriesHold, Numbered
  <2> QED BY <1>3, <2>3, <2>4, <2>5 DEF Numbered
<1>7. Awaited(es2, os2)
  <2>1. \A p \in Under(os) : ~(os[p].key = k /\ os[p].entry = id)
    BY <1>5 DEF EntriesHold, Awaited, Under
  <2>2. \A p \in Under(os2) : es2[os2[p].key].id = os2[p].entry => es2[os2[p].key].loading
    BY <1>1, <1>3, <1>4, <1>i, <2>1 DEF EntriesHold, Awaited, Under
  <2>3. \A p, q \in Under(os2) : os2[p].key = os2[q].key /\ os2[p].entry = os2[q].entry => p = q
    BY <1>1, <1>3, <1>4, <1>i, <2>1 DEF EntriesHold, Awaited, Under
  <2>4. \A l \in Covers : es2[l].loading => es2[l].player = 0
    BY DEF EntriesHold, Awaited
  <2> QED BY <2>2, <2>3, <2>4 DEF Awaited
<1>8. OfDecoder(es2, os2)
  BY <1>1, <1>3, <1>5, <1>i DEF EntriesHold, OfDecoder
<1>9. Playing(es2, os2)
  BY <1>1, <1>2, <1>3 DEF EntriesHold, Playing
<1> QED BY <1>6, <1>7, <1>8, <1>9 DEF EntriesHold

LEMMA CoversInvInit == CoversAssumption /\ CoversInit => CoversInv
<1> SUFFICES ASSUME CoversAssumption, CoversInit PROVE CoversInv
  OBVIOUS
<1>1. /\ decoder = NoDecoder /\ entries = [k \in Covers |-> NoEntry] /\ sweepAt = 0 /\ clock = 1 /\ opens = <<>> /\ running = {}
      /\ parts = IF showing.trims THEN {0} ELSE {}
      /\ trimming = [at |-> IF showing.trims THEN "before" ELSE "done", parts |-> {}, over |-> {}]
  BY DEF CoversInit
<1>2. entries \in Entered /\ opens \in Opened /\ DOMAIN opens = {} /\ Len(opens) = 0
  BY <1>1, NoEntryIs DEF Entered, Opened
<1>3. CoversTyped
  BY <1>1, <1>2 DEF CoversTyped
<1>4. EntriesHold(entries, opens)
  BY <1>1, <1>2, NoEntryIs DEF EntriesHold, Numbered, Awaited, OfDecoder, Playing, Under
<1>5. PlayersOf(entries, Covers) = {} /\ PlayersIn(entries) = {}
  BY <1>1, NoEntryIs DEF PlayersOf, PlayersIn
<1>6. NoneOrphaned /\ SweepIsDue
  BY <1>1, <1>2, <1>5 DEF NoneOrphaned, SweepIsDue
<1>7. Cardinality({}) = 0 /\ 0 <= MaxPlayers
  BY FS_EmptySet DEF CoversAssumption
<1>8. FewPlay
  BY <1>5, <1>7 DEF FewPlay
<1>9. Asked
  BY <1>1, <1>6, NoEntryIs DEF Asked
<1>10. trimming.at = IF showing.trims THEN "before" ELSE "done"
  BY <1>1
<1>11. Trimmings
  BY <1>1, <1>10 DEF Trimmings, PartsAreFetches
<1> QED BY <1>3, <1>4, <1>6, <1>8, <1>9, <1>11 DEF CoversInv

\* The opens' own steps up to the UI thread.
LEMMA StepKeeps ==
    ASSUME CoversInv, NEW o \in DOMAIN opens, opens[o].at \notin {"gone", "opened"},
           NEW at \in {"queued", "slot", "fetching", "file", "failed", "opened", "gone"}, at # "gone", Step(o, at),
           UNCHANGED <<entries, sweepAt, clock, decoder, trimming>>,
           running' = IF at = "opened" THEN running \union {o} ELSE running,
           parts' \subseteq parts \cup {o}, o \in parts' => at = "fetching"
    PROVE  CoversInv'
<1>ty. CoversTyped /\ EntriesHold(entries, opens) /\ NoneOrphaned /\ FewPlay /\ Asked /\ Trimmings
  BY DEF CoversInv
<1>1. opens' = [opens EXCEPT ![o].at = at] /\ entries \in Entered /\ opens \in Opened /\ o \in Under(opens)
  BY <1>ty DEF Step, CoversTyped, Under
<1>2. /\ opens' \in Opened /\ DOMAIN opens' = DOMAIN opens
      /\ \A p \in DOMAIN opens : opens'[p].at = IF p = o THEN at ELSE opens[p].at
  <2>1. opens' \in Opened
    <3>1. PICK r \in OpenRecords : r = [opens[o] EXCEPT !.at = at]
      BY <1>1, OpenIs DEF OpenRecords
    <3>2. opens' = [opens EXCEPT ![o] = r]
      BY <1>1, <3>1
    <3> QED BY <1>1, <3>2 DEF Opened
  <2>2. DOMAIN opens' = DOMAIN opens
    BY <1>1, StepMoves
  <2>3. \A p \in DOMAIN opens : opens'[p].at = IF p = o THEN at ELSE opens[p].at
    BY <1>1, StepMoves
  <2> QED BY <2>1, <2>2, <2>3
<1>3. EntriesHold(entries, opens')
  BY <1>ty, <1>1, MovesHold
<1>4. EntriesHold(entries, opens)'
  BY <1>3 DEF EntriesHold, Numbered, Awaited, OfDecoder, Playing, Under
<1>5. CoversTyped'
  BY <1>ty, <1>2 DEF CoversTyped
<1>6. NoneOrphaned'
  <2>1. {p \in DOMAIN opens : opens'[p].at = "opened"}
        = IF at = "opened" THEN {p \in DOMAIN opens : opens[p].at = "opened"} \union {o}
          ELSE {p \in DOMAIN opens : opens[p].at = "opened"}
    BY <1>2
  <2> QED BY <1>ty, <1>2, <2>1 DEF NoneOrphaned, PlayersOf
<1>7. FewPlay' /\ Asked'
  BY <1>ty DEF FewPlay, PlayersIn, Asked, SweepIsDue, PlayersOf
<1>8. Trimmings'
  <2>1. o # 0
    BY <1>1, OpenIs
  <2> QED BY <1>ty, <1>2, <2>1 DEF Trimmings, PartsAreFetches
<1> QED BY <1>4, <1>5, <1>6, <1>7, <1>8 DEF CoversInv

LEMMA OpensKeep ==
    ASSUME CoversInv, NEW o \in DOMAIN opens, TakesSlot(o) \/ FindsFile(o) \/ Fetched(o) \/ Starts(o) PROVE CoversInv'
<1>ty. Trimmings /\ PartsAreFetches
  BY DEF CoversInv, Trimmings
<1>0. o # 0
  BY OpenIs DEF CoversInv, CoversTyped
<1>1. CASE TakesSlot(o)
  BY <1>ty, <1>0, <1>1, StepKeeps DEF TakesSlot, PartsAreFetches
<1>2. CASE FindsFile(o)
  <2>1. o \notin parts /\ opens[o].at = "slot" /\ UNCHANGED <<entries, sweepAt, clock, decoder, trimming, running>>
    BY <1>ty, <1>0, <1>2 DEF FindsFile, PartsAreFetches
  <2>2. (Step(o, "file") /\ parts' = parts) \/ (Step(o, "fetching") /\ parts' = parts \union {o})
    BY <1>2 DEF FindsFile
  <2> QED BY <2>1, <2>2, StepKeeps
<1>3. CASE Fetched(o)
  <2>1. /\ parts' = parts \ {o} /\ opens[o].at = "fetching"
        /\ UNCHANGED <<entries, sweepAt, clock, decoder, trimming, running>>
    BY <1>3 DEF Fetched
  <2>2. Step(o, "file") \/ Step(o, "failed")
    BY <1>3 DEF Fetched
  <2> QED BY <2>1, <2>2, StepKeeps
<1>4. CASE Starts(o)
  <2>1. o \notin parts /\ opens[o].at = "file" /\ UNCHANGED <<entries, sweepAt, clock, decoder, trimming, parts>>
    BY <1>ty, <1>0, <1>4 DEF Starts, PartsAreFetches
  <2>2. (Step(o, "opened") /\ running' = running \union {o}) \/ (Step(o, "failed") /\ UNCHANGED running)
    BY <1>4 DEF Starts
  <2> QED BY <2>1, <2>2, StepKeeps
<1> QED BY <1>1, <1>2, <1>3, <1>4

LEMMA HoldsThen ==
    ASSUME UNCHANGED decoder, EntriesHold(entries', opens') PROVE EntriesHold(entries, opens)'
  BY DEF EntriesHold, Numbered, Awaited, OfDecoder, Playing, Under

LEMMA Swept ==
    ASSUME CoversAssumption, CoversTyped, NEW es \in Entered, NEW os \in Opened, EntriesHold(es, os),
           NEW sweep \in Sweeps(es)
    PROVE  /\ sweep.left \in Entered /\ EntriesHold(sweep.left, os)
           /\ \A k \in Covers : sweep.left[k] = es[k] \/ sweep.left[k] = NoEntry
           /\ \A k \in Covers : es[k].loading => sweep.left[k] = es[k]
           /\ \A k \in Covers : sweep.left[k].player # 0 =>
                sweep.left[k] = es[k] /\ clock <= es[k].used + 1 /\ k \in Live(es)
           /\ PlayersOf(sweep.left, Covers) = PlayersOf(es, Covers) \ sweep.stopped
           /\ sweep.stopped \subseteq PlayersOf(es, Covers)
           /\ Cardinality(PlayersIn(sweep.left)) <= MaxPlayers
<1>1. PICK over \in Over(es) : /\ sweep.left = Without(es, LongUnasked(es) \union over)
                               /\ sweep.stopped = PlayersOf(es, LongUnasked(es) \union over)
  BY DEF Sweeps
<1>2. PICK gone : gone = LongUnasked(es) \union over
  OBVIOUS
<1>3. sweep.left = Without(es, gone) /\ sweep.stopped = PlayersOf(es, gone)
  BY <1>1, <1>2
<1>4. clock \in Nat
  BY DEF CoversTyped
<1>l. PICK es2 : es2 = sweep.left
  OBVIOUS
<1>s. PICK stopped : stopped = sweep.stopped
  OBVIOUS
<1>5. /\ es2 \in Entered
      /\ \A k \in Covers : es2[k] = es[k] \/ es2[k] = NoEntry
      /\ \A k \in Covers : es[k].loading => es2[k] = es[k]
      /\ \A k \in Covers : es2[k].player # 0 => es2[k] = es[k] /\ clock <= es[k].used + 1 /\ k \in Live(es)
      /\ PlayersOf(es2, Covers) = PlayersOf(es, Covers) \ stopped
      /\ stopped \subseteq PlayersOf(es, Covers)
      /\ Cardinality(PlayersIn(es2)) <= MaxPlayers
  <2>1. es2 = Without(es, gone) /\ stopped = PlayersOf(es, gone)
    BY <1>3, <1>l, <1>s
  <2> QED BY <1>2, <1>4, <2>1, SweepDrops
<1>6. EntriesHold(sweep.left, os)
  <2>1. EntriesHold(es2, os)
    BY <1>5, DroppedHold
  <2> QED BY <2>1, <1>l
<1> QED BY <1>5, <1>6, <1>l, <1>s

\* What a step that sweeps es and then changes what does not play leaves.
LEMMA SweptKeeps ==
    ASSUME CoversAssumption, CoversTyped, NEW es \in Entered, NEW os \in Opened, EntriesHold(es, os), UNCHANGED clock,
           NEW t \in Nat, t <= clock + 1, sweepAt' = Timer(es, t), \A k \in Covers : es[k].used <= clock,
           NEW sweep \in Sweeps(es),
           entries' \in Entered, \A k \in Covers : entries'[k].player = sweep.left[k].player,
           \A k \in Covers : entries'[k].used = sweep.left[k].used \/ entries'[k].used = clock,
           running = PlayersOf(es, Covers) \union OpenedIn(os), running' = running \ sweep.stopped
    PROVE  /\ FewPlay' /\ Asked' /\ sweepAt' \in Nat /\ sweepAt' <= clock + 1
           /\ running' = PlayersOf(entries', Covers) \union OpenedIn(os)
<1>1. /\ sweep.left \in Entered
      /\ \A k \in Covers : sweep.left[k] = es[k] \/ sweep.left[k] = NoEntry
      /\ \A k \in Covers : sweep.left[k].player # 0 =>
           sweep.left[k] = es[k] /\ clock <= es[k].used + 1 /\ k \in Live(es)
      /\ PlayersOf(sweep.left, Covers) = PlayersOf(es, Covers) \ sweep.stopped
      /\ sweep.stopped \subseteq PlayersOf(es, Covers)
      /\ Cardinality(PlayersIn(sweep.left)) <= MaxPlayers
  BY Swept, Zenon
<1>2. PICK kept \in Entered : kept = sweep.left
  BY <1>1
<1>3. PlayersIn(entries') = PlayersIn(kept) /\ PlayersOf(entries', Covers) = PlayersOf(kept, Covers)
  BY <1>2 DEF PlayersIn, PlayersOf
<1>4. FewPlay'
  BY <1>1, <1>2, <1>3 DEF FewPlay
<1>5. PICK t2 : t2 = Timer(es, t)
  OBVIOUS
<1>7. clock \in Nat /\ 0 <= clock /\ clock + 1 \in Nat /\ clock + 1 # 0
  BY DEF CoversTyped
<1>6. /\ t2 \in Nat /\ t2 <= clock + 1
      /\ \A k \in Covers : kept[k].player # 0 => t2 # 0 /\ t2 <= kept[k].used + 2
  <2>1. t2 = IF Live(es) # {} /\ t = 0 THEN clock + 1 ELSE t
    BY <1>5 DEF Timer
  <2>2. t2 \in Nat /\ t2 <= clock + 1
    BY <1>7, <2>1
  <2>3. ASSUME NEW k \in Covers, kept[k].player # 0 PROVE t2 # 0 /\ t2 <= kept[k].used + 2
    <3>1. kept[k].used \in Nat /\ clock <= kept[k].used + 1 /\ Live(es) # {}
      BY <1>1, <1>2, <2>3, EntryIs
    <3>2. t2 # 0
      BY <1>7, <2>1, <3>1
    <3> QED BY <1>7, <2>2, <3>1, <3>2
  <2> QED BY <2>2, <2>3
<1>8. \A k \in Covers : kept[k].used <= clock /\ kept[k].used \in Nat
  BY <1>1, <1>2, <1>7, NoEntryIs, EntryIs
<1>9. \A k \in Covers : entries'[k].player # 0 => sweepAt' # 0 /\ sweepAt' <= entries'[k].used + 2
  <2>1. ASSUME NEW k \in Covers, entries'[k].player # 0 PROVE sweepAt' # 0 /\ sweepAt' <= entries'[k].used + 2
    <3>1. t2 # 0 /\ t2 <= kept[k].used + 2
      BY <1>2, <1>6, <2>1
    <3>2. entries'[k].used = kept[k].used \/ entries'[k].used = clock
      BY <1>2
    <3> QED BY <1>5, <1>6, <1>7, <1>8, <3>1, <3>2
  <2> QED BY <2>1
<1>10. Asked'
  <2>1. \A k \in Covers : entries'[k].used <= clock
    BY <1>2, <1>7, <1>8
  <2>2. SweepIsDue'
    BY <1>9 DEF SweepIsDue, PlayersOf
  <2> QED BY <2>1, <2>2 DEF Asked
<1>11. running' = PlayersOf(entries', Covers) \union OpenedIn(os)
  <2>1. \A p \in PlayersOf(es, Covers) : p \notin OpenedIn(os)
    BY DEF PlayersOf, OpenedIn, EntriesHold, Playing
  <2> QED BY <1>1, <1>2, <1>3, <2>1
<1> QED BY <1>4, <1>5, <1>6, <1>10, <1>11

\* The UI thread takes what an open posts.
LEMMA LandingKeeps ==
    ASSUME CoversAssumption, CoversInv, NEW o \in DOMAIN opens, Failed(o) \/ Dropped(o) \/ Delivered(o) PROVE CoversInv'
<1>ty. CoversTyped /\ EntriesHold(entries, opens) /\ NoneOrphaned /\ FewPlay /\ Asked /\ Trimmings
  BY DEF CoversInv
<1>en. entries \in Entered /\ opens \in Opened /\ clock \in Nat /\ sweepAt \in Nat /\ sweepAt <= clock + 1
  BY <1>ty DEF CoversTyped
<1>ru. running = PlayersOf(entries, Covers) \union OpenedIn(opens)
  BY <1>ty DEF NoneOrphaned, OpenedIn
<1>0. PICK at \in {"failed", "opened"} : opens[o].at = at /\ o \in Under(opens)
  BY DEF Failed, Dropped, Delivered, Under
<1>1. opens' = [opens EXCEPT ![o].at = "gone"] /\ UNCHANGED <<decoder, clock, parts, trimming>>
  BY DEF Failed, Dropped, Delivered, Step
<1>2. opens' \in Opened
  <2>1. PICK r \in OpenRecords : r = [opens[o] EXCEPT !.at = "gone"]
    <3>1. opens[o] \in OpenRecords
      BY <1>en, OpenIs
    <3> QED BY <3>1 DEF OpenRecords
  <2>2. opens' = [opens EXCEPT ![o] = r]
    BY <1>1, <2>1
  <2> QED BY <1>en, <2>2 DEF Opened
<1>3. DOMAIN opens' = DOMAIN opens
  BY <1>1
<1>4. \A p \in DOMAIN opens : opens'[p].at = IF p = o THEN "gone" ELSE opens[p].at
  BY <1>en, <1>1, StepMoves
<1>5. OpenedIn(opens') = OpenedIn(opens) \ {o}
  BY <1>3, <1>4 DEF OpenedIn
<1>6. Trimmings'
  <2>1. \A p \in parts : p = 0 \/ p # o
    BY <1>ty, <1>0 DEF Trimmings, PartsAreFetches
  <2> QED BY <1>ty, <1>1, <1>3, <1>4, <2>1 DEF Trimmings, PartsAreFetches
<1>7. opens[o].key \in Covers
  BY <1>en, OpenIs
<1>fin. ASSUME entries' \in Entered, EntriesHold(entries', opens'), sweepAt' \in Nat, sweepAt' <= clock + 1,
               running' = PlayersOf(entries', Covers) \union OpenedIn(opens'), FewPlay', Asked'
        PROVE  CoversInv'
  <2>1. CoversTyped'
    BY <1>ty, <1>1, <1>2, <1>fin DEF CoversTyped
  <2>2. EntriesHold(entries, opens)'
    BY <1>1, <1>fin, HoldsThen
  <2>3. NoneOrphaned'
    BY <1>fin DEF NoneOrphaned, OpenedIn
  <2> QED BY <1>6, <1>fin, <2>1, <2>2, <2>3 DEF CoversInv
<1>8. CASE ~Wanted(o)
  <2>1. UNCHANGED <<entries, sweepAt>> /\ running' = running \ {o}
    <3>1. CASE Failed(o)
      <4>1. opens[o].at = "failed" /\ UNCHANGED <<entries, sweepAt, running>>
        BY <1>8, <3>1 DEF Failed
      <4>2. o \notin running
        BY <1>ru, <1>ty, <1>0, <4>1 DEF OpenedIn, PlayersOf, EntriesHold, Playing
      <4> QED BY <4>1, <4>2
    <3>2. CASE Dropped(o) \/ Delivered(o)
      BY <1>8, <3>2 DEF Dropped, Delivered
    <3> QED BY <3>1, <3>2
  <2>2. EntriesHold(entries, opens')
    BY <1>ty, <1>en, <1>0, <1>1, <1>8, MovesHold DEF Wanted
  <2>3. o \notin PlayersOf(entries, Covers)
    BY <1>ty, <1>0 DEF PlayersOf, EntriesHold, Playing
  <2>4. FewPlay' /\ Asked'
    BY <1>ty, <1>1, <2>1 DEF FewPlay, PlayersIn, Asked, SweepIsDue, PlayersOf
  <2>5. running' = PlayersOf(entries', Covers) \union OpenedIn(opens')
    <3>1. PlayersOf(entries', Covers) = PlayersOf(entries, Covers)
      BY <2>1 DEF PlayersOf
    <3> QED BY <1>ru, <1>5, <2>1, <2>3, <3>1
  <2> QED BY <1>fin, <1>en, <2>1, <2>2, <2>4, <2>5
<1>9. CASE Failed(o) /\ Wanted(o)
  <2>1. /\ entries' = [entries EXCEPT ![opens[o].key] = [@ EXCEPT !.loading = FALSE, !.failedAt = clock]]
        /\ UNCHANGED <<sweepAt, running>> /\ opens[o].at = "failed"
    BY <1>9 DEF Failed
  <2>2. PICK k \in Covers : k = opens[o].key
    BY <1>7
  <2>3. PICK e \in EntryRecords : e = [entries[k] EXCEPT !.loading = FALSE, !.failedAt = clock]
    BY <1>en, EntryIs DEF EntryRecords
  <2>4. e.id = entries[k].id /\ e.player = entries[k].player /\ e.used = entries[k].used /\ ~e.loading
    BY <1>en, <2>3, EntryIs DEF EntryRecords
  <2>5. entries' = [entries EXCEPT ![k] = e]
    BY <2>1, <2>2, <2>3
  <2>6. entries' \in Entered /\ \A l \in Covers : entries'[l] = IF l = k THEN e ELSE entries[l]
    BY <1>en, <2>5 DEF Entered
  <2>7. entries[k].id = opens[o].entry /\ entries[k].player = 0
    BY <1>ty, <1>0, <1>9, <2>2 DEF Wanted, EntriesHold, Awaited
  <2>8. EntriesHold(entries', opens')
    <3>1. \A l \in Covers : l # opens[o].key => entries'[l] = entries[l]
      BY <2>2, <2>6
    <3>2. /\ entries[opens[o].key].id = opens[o].entry /\ entries'[opens[o].key].id = entries[opens[o].key].id
          /\ entries'[opens[o].key].player \in {0, o} /\ ~entries'[opens[o].key].loading
      BY <2>2, <2>4, <2>6, <2>7
    <3> QED BY <1>ty, <1>en, <1>0, <1>1, <2>6, <3>1, <3>2, LandsHold
  <2>9. /\ PlayersIn(entries') = PlayersIn(entries) /\ PlayersOf(entries', Covers) = PlayersOf(entries, Covers)
        /\ \A l \in Covers : entries'[l].used = entries[l].used /\ entries'[l].player = entries[l].player
    BY <2>4, <2>6 DEF PlayersIn, PlayersOf
  <2>10. FewPlay' /\ Asked'
    BY <1>ty, <1>1, <2>1, <2>9 DEF FewPlay, Asked, SweepIsDue
  <2>11. running' = PlayersOf(entries', Covers) \union OpenedIn(opens')
    <3>1. o \notin OpenedIn(opens)
      BY <2>1 DEF OpenedIn
    <3> QED BY <1>ru, <1>5, <2>1, <2>9, <3>1
  <2> QED BY <1>fin, <1>en, <2>1, <2>6, <2>8, <2>10, <2>11
<1>10. CASE Delivered(o)
  <2> DEFINE taken == [entries EXCEPT ![opens[o].key] = [@ EXCEPT !.loading = FALSE, !.player = o]]
  <2>1. /\ opens[o].at = "opened" /\ Wanted(o) /\ sweepAt' = Timer(taken, sweepAt)
        /\ \E sweep \in Sweeps(taken) : entries' = sweep.left /\ running' = running \ sweep.stopped
    BY <1>10 DEF Delivered
  <2>2. PICK k \in Covers : k = opens[o].key
    BY <1>7
  <2>o. o \in Nat /\ o # 0
    BY <1>en, OpenIs
  <2>3. PICK e \in EntryRecords : e = [entries[k] EXCEPT !.loading = FALSE, !.player = o]
    BY <1>en, <2>o, EntryIs DEF EntryRecords
  <2>4. e.id = entries[k].id /\ e.player = o /\ e.used = entries[k].used /\ ~e.loading
    BY <1>en, <2>3, EntryIs DEF EntryRecords
  <2>5. PICK es : es = [entries EXCEPT ![k] = e]
    OBVIOUS
  <2>6. es \in Entered /\ \A l \in Covers : es[l] = IF l = k THEN e ELSE entries[l]
    BY <1>en, <2>5 DEF Entered
  <2>t. taken = es
    BY <2>2, <2>3, <2>5
  <2>7. entries[k].id = opens[o].entry /\ entries[k].player = 0
    BY <1>ty, <1>0, <2>1, <2>2 DEF Wanted, EntriesHold, Awaited
  <2>8. EntriesHold(es, opens')
    <3>1. \A l \in Covers : l # opens[o].key => es[l] = entries[l]
      BY <2>2, <2>6
    <3>2. /\ entries[opens[o].key].id = opens[o].entry /\ es[opens[o].key].id = entries[opens[o].key].id
          /\ es[opens[o].key].player \in {0, o} /\ ~es[opens[o].key].loading
      BY <2>2, <2>4, <2>6, <2>7
    <3> QED BY <1>ty, <1>en, <1>0, <1>1, <2>6, <3>1, <3>2, LandsHold
  <2>9. running = PlayersOf(es, Covers) \union OpenedIn(opens')
    <3>1. PlayersOf(es, Covers) = PlayersOf(entries, Covers) \union {o}
      BY <2>4, <2>6, <2>7, <2>o DEF PlayersOf
    <3>2. o \in OpenedIn(opens)
      BY <2>1 DEF OpenedIn
    <3> QED BY <1>ru, <1>5, <3>1, <3>2
  <2> HIDE DEF taken
  <2>10. PICK sweep \in Sweeps(es) : entries' = sweep.left /\ running' = running \ sweep.stopped
    BY <2>1, <2>t
  <2>11. sweep.left \in Entered /\ EntriesHold(sweep.left, opens')
    BY <1>ty, <1>2, <2>6, <2>8, Swept
  <2>12. \A l \in Covers : es[l].used <= clock
    BY <1>ty, <2>4, <2>6 DEF Asked
  <2>13. /\ FewPlay' /\ Asked' /\ sweepAt' \in Nat /\ sweepAt' <= clock + 1
         /\ running' = PlayersOf(entries', Covers) \union OpenedIn(opens')
    <3>1. sweepAt' = Timer(es, sweepAt)
      BY <2>1, <2>t
    <3>2. entries' \in Entered /\ \A l \in Covers : entries'[l].player = sweep.left[l].player
      BY <2>10, <2>11
    <3>3. \A l \in Covers : entries'[l].used = sweep.left[l].used \/ entries'[l].used = clock
      BY <2>10
    <3> QED BY <1>ty, <1>en, <1>1, <1>2, <2>6, <2>8, <2>9, <2>10, <2>12, <3>1, <3>2, <3>3, SweptKeeps
  <2> QED BY <1>fin, <2>10, <2>11, <2>13
<1> QED BY <1>8, <1>9, <1>10 DEF Dropped

LEMMA GetKeeps == ASSUME CoversAssumption, CoversInv, NEW k \in Covers, Get(k) PROVE CoversInv'
<1>ty. CoversTyped /\ EntriesHold(entries, opens) /\ NoneOrphaned /\ FewPlay /\ Asked /\ Trimmings
  BY DEF CoversInv
<1>en. entries \in Entered /\ opens \in Opened /\ clock \in Nat /\ sweepAt \in Nat /\ sweepAt <= clock + 1
  BY <1>ty DEF CoversTyped
<1>ru. running = PlayersOf(entries, Covers) \union OpenedIn(opens)
  BY <1>ty DEF NoneOrphaned, OpenedIn
<1> DEFINE E(kept) == IF kept[k].id = 0 THEN [NoEntry EXCEPT !.id = Len(opens) + 1] ELSE kept[k]
           S(e) == e.player = 0 /\ ~e.loading /\ ~(e.failedAt # 0 /\ clock - e.failedAt < RetryAfter)
<1>1. PICK sweep \in Sweeps(entries) :
        /\ running' = running \ sweep.stopped
        /\ entries' = [sweep.left EXCEPT ![k] = [E(sweep.left) EXCEPT !.used = clock, !.loading = @ \/ S(E(sweep.left))]]
        /\ opens' = IF S(E(sweep.left))
                    THEN Append(opens, [key |-> k, entry |-> E(sweep.left).id, ffmpeg |-> decoder, at |-> "queued"])
                    ELSE opens
  BY DEF Get
<1>2. sweepAt' = Timer(entries, sweepAt) /\ UNCHANGED <<decoder, clock, parts, trimming>> /\ decoder # NoDecoder
  BY DEF Get
<1>3. sweep.left \in Entered /\ EntriesHold(sweep.left, opens)
  BY <1>ty, <1>en, Swept
<1>4. PICK kept \in Entered : kept = sweep.left /\ EntriesHold(kept, opens)
  BY <1>3
<1>5. PICK e : e = E(kept)
  OBVIOUS
<1>6. PICK starts \in BOOLEAN : starts = S(e)
  OBVIOUS
<1>8. /\ e = IF kept[k].id = 0 THEN [NoEntry EXCEPT !.id = Len(opens) + 1] ELSE kept[k]
      /\ starts => e.player = 0 /\ ~e.loading
      /\ e.player = 0 /\ ~e.loading /\ e.failedAt = 0 => starts
  BY <1>5, <1>6
<1>es. E(sweep.left) = e /\ S(E(sweep.left)) = starts
  BY <1>4, <1>5, <1>6
<1> HIDE DEF E, S
<1>7. /\ entries' = [kept EXCEPT ![k] = [e EXCEPT !.used = clock, !.loading = e.loading \/ starts]]
      /\ opens' = IF starts THEN Append(opens, [key |-> k, entry |-> e.id, ffmpeg |-> decoder, at |-> "queued"]) ELSE opens
  BY <1>1, <1>4, <1>es
<1>9. Len(opens) \in Nat /\ Len(opens) + 1 \in Nat
  BY <1>en, OpenIs
<1>10. [NoEntry EXCEPT !.id = Len(opens) + 1] \in EntryRecords
  BY <1>9, NoEntryIs DEF EntryRecords
<1>11. e \in EntryRecords
  BY <1>8, <1>10, EntryIs
<1>12. /\ kept[k].id = 0 => e.id = Len(opens) + 1 /\ e.player = 0 /\ ~e.loading /\ e.failedAt = 0
       /\ kept[k].id # 0 => e = kept[k]
  BY <1>8 DEF NoEntry
<1>13. e.player = kept[k].player
  BY <1>4, <1>12 DEF EntriesHold, Numbered
<1>14. PICK l \in BOOLEAN : l = (e.loading \/ starts)
  OBVIOUS
<1>15. PICK f \in EntryRecords : f = [e EXCEPT !.used = clock, !.loading = l]
  BY <1>en, <1>11 DEF EntryRecords
<1>16. f.id = e.id /\ f.player = e.player /\ f.used = clock /\ f.loading = l
  BY <1>11, <1>15 DEF EntryRecords
<1>17. entries' = [kept EXCEPT ![k] = f]
  BY <1>7, <1>14, <1>15
<1>18. entries' \in Entered /\ \A j \in Covers : entries'[j] = IF j = k THEN f ELSE kept[j]
  BY <1>17 DEF Entered
<1>19. EntriesHold(entries', opens') /\ opens' \in Opened /\ OpenedIn(opens') = OpenedIn(opens)
       /\ DOMAIN opens \subseteq DOMAIN opens' /\ \A p \in DOMAIN opens : opens'[p] = opens[p]
  <2>1. CASE ~starts
    <3>1. opens' = opens /\ kept[k].id # 0
      BY <1>7, <1>8, <1>12, <2>1
    <3>2. f.id = kept[k].id /\ f.player = kept[k].player /\ f.loading = kept[k].loading
      <4>1. l = e.loading /\ e = kept[k]
        BY <1>11, <1>12, <1>14, <2>1, <3>1 DEF EntryRecords
      <4> QED BY <1>16, <4>1
    <3>3. EntriesHold(entries', opens)
      <4>1. \A j \in Covers : j # k => entries'[j] = kept[j]
        BY <1>18
      <4>2. entries'[k].id = kept[k].id /\ entries'[k].player = kept[k].player /\ entries'[k].loading = kept[k].loading
        BY <1>18, <3>2
      <4> QED BY <1>4, <1>en, <1>18, <4>1, <4>2, AskedHold
    <3> QED BY <1>en, <3>1, <3>3
  <2>2. CASE starts
    <3>0. e.id \in Nat /\ e.player = 0 /\ ~e.loading
      BY <1>8, <1>11, <2>2 DEF EntryRecords
    <3>1. PICK id \in Nat : id = e.id
      BY <3>0
    <3>2. id = IF kept[k].id = 0 THEN Len(opens) + 1 ELSE kept[k].id
      BY <1>12, <3>1
    <3>3. kept[k].player = 0 /\ ~kept[k].loading
      BY <1>4, <1>12, <3>0 DEF EntriesHold, Numbered
    <3>4. PICK r \in OpenRecords : r = [key |-> k, entry |-> id, ffmpeg |-> decoder, at |-> "queued"]
      BY <1>ty DEF CoversTyped, OpenRecords
    <3>5. r.key = k /\ r.entry = id /\ r.ffmpeg = decoder /\ r.at = "queued"
      BY <3>4
    <3>6. opens' = Append(opens, r)
      BY <1>7, <2>2, <3>1, <3>4
    <3>n. PICK n \in Nat : n = Len(opens) + 1
      BY <1>9
    <3>7. PICK os2 : os2 = Append(opens, r)
      OBVIOUS
    <3>8. f.id = id /\ f.player = 0 /\ f.loading
      BY <1>14, <1>16, <2>2, <3>0, <3>1
    <3>10. os2 \in Opened
      BY <1>en, <3>7 DEF Opened
    <3>11. Len(os2) = n /\ DOMAIN os2 = DOMAIN opens \cup {n} /\ os2[n] = r
      BY <1>en, <1>9, <3>7, <3>n DEF Opened
    <3>12. \A p \in DOMAIN opens : os2[p] = opens[p]
      BY <1>en, <1>9, <3>7 DEF Opened
    <3>9. EntriesHold(entries', os2)
      <4>e. PICK es2 \in Entered : es2 = entries'
        BY <1>18
      <4>1. \A j \in Covers : j # k => es2[j] = kept[j]
        BY <1>18, <4>e
      <4>2. es2[k].id = r.entry /\ es2[k].player = 0 /\ es2[k].loading
        BY <1>18, <3>5, <3>8, <4>e
      <4>3. EntriesHold(es2, os2)
        <5>1. r.entry = IF kept[k].id = 0 THEN Len(opens) + 1 ELSE kept[k].id
          BY <3>2, <3>5
        <5>2. /\ Len(os2) = Len(opens) + 1 /\ DOMAIN os2 = DOMAIN opens \cup {Len(opens) + 1}
              /\ os2[Len(opens) + 1] = r
          BY <3>11, <3>n
        <5>3. Started(kept, es2, opens, os2, k, r)
          BY <1>4, <1>en, <3>3, <3>5, <3>12, <4>1, <4>2, <5>1, <5>2 DEF Started
        <5> QED BY <5>3, StartsHold
      <4> QED BY <4>3, <4>e
    <3>13. OpenedIn(os2) = OpenedIn(opens)
      BY <3>5, <3>11, <3>12 DEF OpenedIn
    <3> QED BY <3>6, <3>7, <3>9, <3>10, <3>11, <3>12, <3>13
  <2> QED BY <2>1, <2>2
<1>20. /\ FewPlay' /\ Asked' /\ sweepAt' \in Nat /\ sweepAt' <= clock + 1
       /\ running' = PlayersOf(entries', Covers) \union OpenedIn(opens)
  <2>1. \A j \in Covers : entries'[j].player = sweep.left[j].player
    BY <1>4, <1>13, <1>16, <1>18
  <2>2. \A j \in Covers : entries'[j].used = sweep.left[j].used \/ entries'[j].used = clock
    BY <1>4, <1>16, <1>18
  <2>3. \A j \in Covers : entries[j].used <= clock
    BY <1>ty DEF Asked
  <2> QED BY <1>ty, <1>en, <1>ru, <1>1, <1>2, <1>18, <2>1, <2>2, <2>3, SweptKeeps
<1>21. CoversTyped'
  BY <1>ty, <1>2, <1>18, <1>19, <1>20 DEF CoversTyped
<1>22. EntriesHold(entries, opens)'
  BY <1>2, <1>19, HoldsThen
<1>23. NoneOrphaned'
  BY <1>19, <1>20 DEF NoneOrphaned, OpenedIn
<1>24. Trimmings'
  BY <1>ty, <1>2, <1>19 DEF Trimmings, PartsAreFetches
<1> QED BY <1>20, <1>21, <1>22, <1>23, <1>24 DEF CoversInv

\* The other steps, of the UI thread, the timer, the clock and the directory.
LEMMA RestKeeps ==
    ASSUME CoversAssumption, CoversInv,
           \/ \E path \in Decoders \union {NoDecoder} : SetFFmpeg(path)
           \/ SweepsAgain \/ TimePasses \/ TrimReads \/ TrimDeletes
    PROVE  CoversInv'
<1>ty. CoversTyped /\ EntriesHold(entries, opens) /\ NoneOrphaned /\ FewPlay /\ Asked /\ Trimmings
  BY DEF CoversInv
<1>en. /\ entries \in Entered /\ opens \in Opened /\ clock \in Nat /\ sweepAt \in Nat /\ sweepAt <= clock + 1
       /\ decoder \in Decoders \cup {NoDecoder}
  BY <1>ty DEF CoversTyped
<1>ru. running = PlayersOf(entries, Covers) \union OpenedIn(opens)
  BY <1>ty DEF NoneOrphaned, OpenedIn
<1>1. ASSUME NEW path \in Decoders \union {NoDecoder}, SetFFmpeg(path) PROVE CoversInv'
  <2>1. /\ decoder' = path /\ running' = running \ PlayersOf(entries, Covers)
        /\ entries' = [k \in Covers |-> NoEntry]
        /\ UNCHANGED <<sweepAt, clock, opens, parts, trimming>>
    BY <1>1 DEF SetFFmpeg
  <2>2. entries' \in Entered /\ \A k \in Covers : entries'[k] = NoEntry
    BY <2>1, NoEntryIs DEF Entered
  <2>3. CoversTyped'
    BY <1>en, <2>1, <2>2 DEF CoversTyped
  <2>4. /\ DOMAIN opens = 1..Len(opens) /\ Len(opens) \in Nat
        /\ \A o \in DOMAIN opens : opens[o].key \in Covers /\ opens[o].entry \in Nat
    BY <1>en, OpenIs
  <2>5. EntriesHold(entries, opens)'
    <3>1. Numbered(entries, opens)'
      BY <1>ty, <2>1, <2>2, <2>4, NoEntryIs DEF EntriesHold, Numbered
    <3>2. \A o \in DOMAIN opens : opens[o].entry # 0
      BY <1>ty, <2>4 DEF EntriesHold, Numbered
    <3>3. Awaited(entries, opens)' /\ OfDecoder(entries, opens)' /\ Playing(entries, opens)'
      BY <1>ty, <2>1, <2>2, <2>4, <3>2, NoEntryIs DEF EntriesHold, Awaited, OfDecoder, Playing, Under
    <3> QED BY <3>1, <3>3 DEF EntriesHold
  <2>6. PlayersOf(entries', Covers) = {} /\ PlayersIn(entries') = {}
    BY <2>2, NoEntryIs DEF PlayersOf, PlayersIn
  <2>7. Cardinality({}) = 0 /\ 0 <= MaxPlayers
    BY FS_EmptySet DEF CoversAssumption
  <2>8. FewPlay'
    BY <2>6, <2>7 DEF FewPlay
  <2>9. Asked'
    BY <1>en, <2>1, <2>2, <2>6, NoEntryIs DEF Asked, SweepIsDue
  <2>10. NoneOrphaned'
    <3>1. \A p \in PlayersOf(entries, Covers) : p \notin OpenedIn(opens)
      BY <1>ty DEF PlayersOf, OpenedIn, EntriesHold, Playing
    <3>2. running' = OpenedIn(opens)
      BY <1>ru, <2>1, <3>1
    <3> QED BY <2>1, <2>6, <3>2 DEF NoneOrphaned, OpenedIn
  <2>11. Trimmings'
    BY <1>ty, <2>1 DEF Trimmings, PartsAreFetches
  <2> QED BY <2>3, <2>5, <2>8, <2>9, <2>10, <2>11 DEF CoversInv
<1>2. CASE SweepsAgain
  <2>1. PICK sweep \in Sweeps(entries) : entries' = sweep.left /\ running' = running \ sweep.stopped
    BY <1>2 DEF SweepsAgain
  <2>2. sweepAt' = Timer(entries, 0) /\ UNCHANGED <<decoder, clock, opens, parts, trimming>>
    BY <1>2 DEF SweepsAgain
  <2>3. sweep.left \in Entered /\ EntriesHold(sweep.left, opens)
    BY <1>ty, <1>en, Swept
  <2>4. /\ FewPlay' /\ Asked' /\ sweepAt' \in Nat /\ sweepAt' <= clock + 1
        /\ running' = PlayersOf(entries', Covers) \union OpenedIn(opens)
    <3>1. entries' \in Entered /\ \A l \in Covers : entries'[l].player = sweep.left[l].player
      BY <2>1, <2>3
    <3>2. \A l \in Covers : entries'[l].used = sweep.left[l].used \/ entries'[l].used = clock
      BY <2>1
    <3>3. (\A l \in Covers : entries[l].used <= clock) /\ 0 <= clock + 1
      BY <1>ty, <1>en DEF Asked
    <3> QED BY <1>ty, <1>en, <1>ru, <2>1, <2>2, <3>1, <3>2, <3>3, SweptKeeps
  <2>5. CoversTyped'
    BY <1>en, <2>1, <2>2, <2>3, <2>4 DEF CoversTyped
  <2>6. EntriesHold(entries, opens)'
    BY <2>1, <2>2, <2>3, HoldsThen
  <2>7. NoneOrphaned' /\ Trimmings'
    BY <1>ty, <2>2, <2>4 DEF NoneOrphaned, OpenedIn, Trimmings, PartsAreFetches
  <2> QED BY <2>4, <2>5, <2>6, <2>7 DEF CoversInv
<1>3. ASSUME UNCHANGED <<decoder, entries, sweepAt, opens, running>>, clock' \in {clock, clock + 1}, Trimmings' PROVE CoversInv'
  <2>1. CoversTyped'
    BY <1>en, <1>3 DEF CoversTyped
  <2>2. EntriesHold(entries, opens)'
    BY <1>ty, <1>3, HoldsThen
  <2>3. NoneOrphaned' /\ FewPlay' /\ SweepIsDue'
    BY <1>ty, <1>3 DEF NoneOrphaned, FewPlay, PlayersIn, PlayersOf, Asked, SweepIsDue
  <2>4. \A k \in Covers : entries'[k].used <= clock'
    <3>1. \A k \in Covers : entries[k].used \in Nat /\ entries[k].used <= clock
      BY <1>ty, <1>en, EntryIs DEF Asked
    <3> QED BY <1>en, <1>3, <3>1
  <2> QED BY <1>3, <2>1, <2>2, <2>3, <2>4 DEF CoversInv, Asked
<1>4. CASE TimePasses
  <2>1. Trimmings'
    BY <1>ty, <1>4 DEF TimePasses, Trimmings, PartsAreFetches
  <2> QED BY <1>3, <1>4, <2>1 DEF TimePasses
<1>5. CASE TrimReads
  <2>1. /\ UNCHANGED <<opens, parts>>
        /\ \E over : trimming' = [at |-> "read", parts |-> parts, over |-> over]
    BY <1>5 DEF TrimReads
  <2>2. trimming'.at = "read" /\ trimming'.parts = parts
    BY <2>1
  <2>3. Trimmings'
    BY <1>ty, <2>1, <2>2 DEF Trimmings, PartsAreFetches
  <2> QED BY <1>3, <1>5, <2>3 DEF TrimReads
<1>6. CASE TrimDeletes
  <2>1. /\ trimming.at = "read" /\ trimming' = [trimming EXCEPT !.at = "done"] /\ parts' = parts \ trimming.parts
        /\ UNCHANGED opens
    BY <1>6 DEF TrimDeletes
  <2>2. Trimmings'
    <3>1. 0 \notin parts'
      BY <1>ty, <2>1 DEF Trimmings
    <3>2. trimming'.at = "done"
      BY <2>1
    <3> QED BY <1>ty, <2>1, <3>1, <3>2 DEF Trimmings, PartsAreFetches
  <2> QED BY <1>3, <1>6, <2>2 DEF TrimDeletes
<1> QED BY <1>1, <1>2, <1>4, <1>5, <1>6

LEMMA CoversInvStep == CoversAssumption /\ CoversInv /\ [CoversNext]_coverVars => CoversInv'
<1> SUFFICES ASSUME CoversAssumption, CoversInv, [CoversNext]_coverVars PROVE CoversInv'
  OBVIOUS
<1>1. CASE UNCHANGED coverVars
  BY <1>1 DEF coverVars, CoversInv, CoversTyped, EntriesHold, Numbered, Awaited, OfDecoder, Playing, Under, NoneOrphaned,
              FewPlay, PlayersIn, PlayersOf, Asked, SweepIsDue, Trimmings, PartsAreFetches
<1>2. CASE CoversNext
  <2>1. ASSUME NEW o \in DOMAIN opens, OpenStep(o) PROVE CoversInv'
    BY <2>1, OpensKeep, LandingKeeps, Zenon DEF OpenStep
  <2> QED BY <1>2, <2>1, GetKeeps, RestKeeps, Zenon DEF CoversNext
<1> QED BY <1>1, <1>2

LEMMA CoversInvHolds == CoversAssumption /\ CoversInv => PlayersHold
<1> SUFFICES ASSUME CoversAssumption, CoversInv PROVE PlayersHold
  OBVIOUS
<1>ty. CoversTyped /\ EntriesHold(entries, opens) /\ NoneOrphaned /\ FewPlay /\ Asked /\ Trimmings
  BY DEF CoversInv
<1>1. IsFiniteSet(PlayersIn(entries))
  BY FS_Subset DEF PlayersIn, CoversAssumption
<1>2. Cardinality(PlayersOf(entries, Covers)) <= MaxPlayers
  <2>1. PICK f : f = [k \in PlayersIn(entries) |-> entries[k].player]
    OBVIOUS
  <2>2. f \in Surjection(PlayersIn(entries), PlayersOf(entries, Covers))
    <3>1. f \in [PlayersIn(entries) -> PlayersOf(entries, Covers)]
      BY <2>1 DEF PlayersIn, PlayersOf
    <3>2. \A p \in PlayersOf(entries, Covers) : \E k \in PlayersIn(entries) : f[k] = p
      BY <2>1 DEF PlayersIn, PlayersOf
    <3> QED BY <3>1, <3>2 DEF Surjection
  <2>3. IsFiniteSet(PlayersOf(entries, Covers)) /\ Cardinality(PlayersOf(entries, Covers)) <= Cardinality(PlayersIn(entries))
    BY <1>1, <2>2, FS_Surjection
  <2>4. Cardinality(PlayersOf(entries, Covers)) \in Nat /\ Cardinality(PlayersIn(entries)) \in Nat /\ MaxPlayers \in Nat
    BY <1>1, <2>3, FS_CardinalityType DEF CoversAssumption
  <2> QED BY <1>ty, <2>3, <2>4 DEF FewPlay
<1>3. PlayersCurrent
  BY <1>ty, <1>2 DEF PlayersCurrent, EntriesHold, Playing
<1> QED BY <1>ty, <1>3 DEF PlayersHold, Asked, Trimmings

\* Every ffmpeg of a motion cover has an entry or is on its way to one, no more
\* than maxPlayers play, each with the ffmpeg now set, while one plays a sweep is
\* due, and no part is left behind (motion/cache.go).
THEOREM CoversHold == CoversSpec => []PlayersHold
<1>1. CoversInit => CoversInv
  BY CoversInvInit, CoversAssumption
<1>2. CoversInv /\ [CoversNext]_coverVars => CoversInv'
  BY CoversInvStep, CoversAssumption
<1>3. CoversInv => PlayersHold
  BY CoversInvHolds, CoversAssumption
<1> QED BY <1>1, <1>2, <1>3, PTL DEF CoversSpec

-----------------------------------------------------------------------------
(* The list of downloads: the inductive invariant *)

Messages == [id : Nat, job : Jobs, row : Shown \cup {None}]
Entries == [job : Jobs, type : {"milestone", "detail", "tombstone", "purged"}]

FeedTyped ==
    /\ setup \in Setups /\ rows \in [Jobs -> Shown \cup {None}] /\ log \in Seq(Entries)
    /\ lanes \in [Jobs -> [Lanes -> {"idle", "event", "publish"}]]
    /\ lookup \in [Jobs -> {"none", "running", "over"}]
    /\ hpc \in {"off", "page", "counts", "job", "send", "wait", "pushCounts"}
    /\ cpc \in {"cursor", "list", "counts", "open", "live"}
    /\ wakeup \in BOOLEAN /\ full \in BOOLEAN
    /\ lastID \in 0 .. Len(log) /\ cursor \in 0 .. Len(log) /\ queue \subseteq 1 .. Len(log)
    /\ out \subseteq Messages /\ \A w \in wire : w.msg \in Messages
    /\ view \in [Jobs -> Shown \cup {None}]
    /\ dropped \subseteq Jobs

\* How far the handler is, and what it has in hand.
Pipeline ==
    /\ hpc = "off" <=> cpc # "live"
    /\ hpc = "off" => wire = {}
    /\ hpc \in {"send", "pushCounts"} <=> out # {}
    /\ hpc \in {"counts", "job"} => queue # {}
    /\ hpc \in {"off", "page", "wait", "pushCounts"} => queue = {}
    /\ hpc = "pushCounts" => ~full /\ \A m \in out : m.id = lastID
    /\ \A m \in out : m.id \in lastID .. Len(log) /\ \A n \in out : n.id = m.id
    /\ \A m, n \in out : m # n => m.job # n.job /\ m.id = lastID /\ queue = {}
    /\ \A i \in queue : lastID < i /\ \A m \in out : m.id < i
    /\ \A w, v \in wire : w = v
    /\ \A w \in wire : w.msg.id = lastID
    /\ hpc # "off" => cursor <= lastID /\ (wire = {} => cursor = lastID)

\* A job that was deleted has a tombstone, and stays away.
Gone(j) == \E i \in 1 .. Len(log) : log[i].job = j /\ log[i].type = "tombstone"
Told(j) == {m.row : m \in {m \in out : m.job = j}}
           \cup {w.msg.row : w \in {w \in wire : w.msg.job = j}}
Deletes ==
    /\ \A j \in Jobs : Gone(j) => rows[j] = None
    /\ \A i \in 1 .. Len(log) : rows[log[i].job] = None => Gone(log[i].job)
    /\ \A j \in Jobs : rows[j] = None /\ ~Gone(j) =>
         view[j] = None /\ Told(j) = {} /\ \A l \in Lanes : Idle(j, l)
    /\ \A j \in Jobs : None \in Told(j) => Gone(j)
    /\ \A w \in wire, m \in out : w.msg.job = m.job /\ w.msg.row = None => m.row = None
    /\ \A j \in dropped : Gone(j) /\ view[j] = None /\ Told(j) \subseteq {None}

\* The events no message built so far accounts for; those no read has reached.
Unread(i) == i \in News(lastID) /\ \A m \in out : m.id < i
Beyond(i) == Unread(i) /\ \A k \in queue : k < i

\* What was read of a job is in the queue at its last event.
Queued ==
    /\ \A i \in News(lastID) : Unread(i) /\ ~Beyond(i) =>
         \E k \in queue : i <= k /\ log[k].job = log[i].job
    /\ \A k \in queue : \E i \in News(lastID) : k <= i /\ log[k].job = log[i].job

\* What the client will show of a job when it has what was sent, and what was
\* built.
WhenSent(j) == IF \E w \in wire : w.msg.job = j THEN {w.msg.row : w \in {w \in wire : w.msg.job = j}}
               ELSE {view[j]}
WhenBuilt(j) == IF \E m \in out : m.job = j THEN {m.row : m \in {m \in out : m.job = j}}
                ELSE WhenSent(j)

Pending(j) == \E l \in Lanes : lanes[j][l] = "event"
\* v shows of the job what it has to, or an event will say so.
Right(v, j) ==
    /\ rows[j] = None => v = None
    /\ Is(j, "ended") => v.status = "ended" /\ v.items = rows[j].items
    /\ Faults = {} => v = rows[j] \/ Pending(j)
Announced(j, id) == \E i \in News(id) : log[i].job = j
ShownOrAnnounced ==
    /\ cpc \in {"counts", "open", "live"} =>
         \A j \in Jobs : Right(view[j], j) \/ Announced(j, cursor)
    /\ hpc # "off" =>
         \A j \in Jobs : \A v \in WhenSent(j) : Right(v, j) \/ Announced(j, lastID)
    /\ hpc # "off" =>
         \A j \in Jobs : \A v \in WhenBuilt(j) :
            Right(v, j) \/ \E i \in News(lastID) : Unread(i) /\ log[i].job = j

SomePending == \E j \in Jobs : Pending(j)
CountsAnnounced ==
    Faults = {} =>
        /\ cpc \in {"open", "live"} => counts = CountsNow \/ SomePending \/ News(cursor) # {}
        /\ \A w \in wire : w.counts = CountsNow \/ SomePending \/ News(lastID) # {}
        /\ hpc \in {"job", "send"} => tally = CountsNow \/ SomePending \/ \E i \in News(lastID) : Beyond(i)

\* What no read has reached wakes the handler, or the drain goes on.
WillWake ==
    /\ Faults = {} /\ hpc \notin {"off", "page"} /\ (\E i \in News(lastID) : Beyond(i)) =>
         full \/ wakeup \/ \E j \in Jobs, l \in Lanes : lanes[j][l] = "publish"
    /\ Faults = {} /\ hpc = "wait" => ~full
    /\ \A j \in Jobs : lookup[j] # "over" => Idle(j, "artwork")

FeedInv == FeedTyped /\ Pipeline /\ Deletes /\ Queued /\ ShownOrAnnounced /\ CountsAnnounced /\ WillWake

-----------------------------------------------------------------------------
(* The list of downloads: pages *)

LEMMA NatOrder == \E less : IsWellFoundedOn(less, Nat) /\ \A n, m \in Nat : <<n, m>> \in less <=> n < m
<1> WITNESS OpToRel(<, Nat)
<1>1. \A n, m \in Nat : <<n, m>> \in OpToRel(<, Nat) <=> n < m
  BY DEF OpToRel
<1> QED BY <1>1, NatLessThanWellFounded

LEMMA LeastNatural == ASSUME NEW S \in SUBSET Nat, S # {} PROVE \E m \in S : \A n \in S : m <= n
<1>1. PICK less : IsWellFoundedOn(less, Nat) /\ \A n, m \in Nat : <<n, m>> \in less <=> n < m
  BY NatOrder
<1>2. IsWellFoundedOn(less, Nat)
  BY <1>1
<1>3. \E m \in S : \A n \in S : ~(<<n, m>> \in less)
  BY <1>2, WFMin, Zenon
<1>4. PICK m \in S : \A n \in S : ~(<<n, m>> \in less)
  BY <1>3
<1>5. m \in Nat /\ \A n \in S : n \in Nat /\ ~(<<n, m>> \in less)
  BY <1>4
<1>6. ASSUME NEW n \in S PROVE m <= n
  <2>1. n \in Nat /\ m \in Nat /\ ~(n < m)
    BY <1>1, <1>5
  <2> QED BY <2>1
<1> QED BY <1>6

LEMMA GreatestNatural ==
  ASSUME NEW n \in Nat, NEW S \in SUBSET (0 .. n), S # {}
  PROVE \E m \in S : \A k \in S : k <= m
<1>1. PICK T : T = {n - k : k \in S}
  OBVIOUS
<1>2. T \in SUBSET Nat /\ T # {}
  <2>1. ASSUME NEW k \in S PROVE n - k \in Nat
    <3>1. k \in 0 .. n
      OBVIOUS
    <3> QED BY <3>1
  <2> QED BY <1>1, <2>1
<1>3. PICK t \in T : \A k \in T : t <= k
  BY <1>2, LeastNatural
<1>4. PICK m \in S : t = n - m
  BY <1>1, <1>3
<1>5. ASSUME NEW k \in S PROVE k <= m
  <2>1. t <= n - k /\ k \in 0 .. n /\ m \in 0 .. n
    BY <1>1, <1>3
  <2> QED BY <2>1, <1>4
<1> QED BY <1>5

\* The events of the list after an id.
LEMMA NewsIs ==
  ASSUME FeedTyped, NEW id \in Nat
  PROVE /\ Len(log) \in Nat
        /\ \A i : i \in News(id) <=> i \in 1 .. Len(log) /\ id < i /\ OnList(i)
        /\ News(id) \subseteq 1 .. Len(log)
<1>1. Len(log) \in Nat
  BY DEF FeedTyped
<1>2. ASSUME NEW i PROVE i \in News(id) <=> i \in 1 .. Len(log) /\ id < i /\ OnList(i)
  <2>1. i \in News(id) <=> i \in id + 1 .. Len(log) /\ OnList(i)
    BY DEF News
  <2>2. i \in id + 1 .. Len(log) <=> i \in 1 .. Len(log) /\ id < i
    BY <1>1
  <2> QED BY <2>1, <2>2
<1> QED BY <1>1, <1>2

\* A page ends where the events end or where it is full.
LEMMA PageIs ==
  ASSUME FeedSetupsAssumption, FeedTyped, NEW id \in Nat
  PROVE /\ PageSize \in Nat \ {0}
        /\ PageAfter(id) \subseteq News(id)
        /\ PageAfter(id) = {} => News(id) = {}
        /\ \A k \in PageAfter(id), i \in News(id) : i <= k => i \in PageAfter(id)
        /\ IsFiniteSet(PageAfter(id)) /\ Cardinality(PageAfter(id)) \in Nat
        /\ Cardinality(PageAfter(id)) < PageSize => PageAfter(id) = News(id)
<1>1. PageSize \in Nat \ {0}
  BY DEF FeedSetupsAssumption, FeedTyped, PageSize
<1>2. /\ Len(log) \in Nat /\ News(id) \subseteq 1 .. Len(log) /\ News(id) \in SUBSET Nat
  BY NewsIs
<1>3. IsFiniteSet(1 .. Len(log))
  BY <1>2, FS_Interval
<1>4. ASSUME NEW S \in SUBSET News(id), NEW T \in SUBSET S
      PROVE /\ IsFiniteSet(S) /\ Cardinality(S) \in Nat
            /\ Cardinality(T) \in Nat /\ Cardinality(T) <= Cardinality(S)
  <2>1. IsFiniteSet(S)
    BY <1>2, <1>3, FS_Subset
  <2>2. IsFiniteSet(T) /\ Cardinality(T) <= Cardinality(S)
    BY <2>1, FS_Subset
  <2> QED BY <2>1, <2>2, FS_CardinalityType
<1> DEFINE Below(i) == {k \in News(id) : k < i}
<1>5. PageAfter(id) = {i \in News(id) : Cardinality(Below(i)) < PageSize}
  BY DEF PageAfter
<1>6. ASSUME NEW k \in PageAfter(id), NEW i \in News(id), i <= k PROVE i \in PageAfter(id)
  <2>1. k \in News(id) /\ Cardinality(Below(k)) < PageSize
    BY <1>5
  <2>2. Below(i) \in SUBSET Below(k) /\ Below(k) \in SUBSET News(id)
    BY <1>2, <1>6, <2>1
  <2>3. Cardinality(Below(k)) \in Nat /\ Cardinality(Below(i)) \in Nat /\ Cardinality(Below(i)) <= Cardinality(Below(k))
    BY <1>4, <2>2
  <2>4. Cardinality(Below(i)) < PageSize
    BY <1>1, <2>1, <2>3
  <2> QED BY <1>5, <2>4
<1>7. ASSUME Cardinality(PageAfter(id)) < PageSize PROVE PageAfter(id) = News(id)
  <2>1. PICK R : R = News(id) \ PageAfter(id)
    OBVIOUS
  <2>2. SUFFICES ASSUME R # {} PROVE FALSE
    BY <1>5, <2>1
  <2>3. PICK i \in R : \A k \in R : i <= k
    BY <1>2, <2>1, <2>2, LeastNatural
  <2>4. i \in Nat /\ \A k \in R : k \in Nat
    BY <1>2, <2>1
  <2>5. Below(i) \in SUBSET PageAfter(id) /\ PageAfter(id) \in SUBSET News(id)
    <3>1. ASSUME NEW k \in Below(i) PROVE k \in PageAfter(id)
      <4>1. k \in News(id) /\ k < i /\ k \in Nat
        BY <1>2
      <4>2. ~(k \in R)
        BY <2>3, <2>4, <4>1
      <4> QED BY <4>1, <4>2, <2>1
    <3> QED BY <3>1, <1>5
  <2>6. Cardinality(Below(i)) \in Nat /\ Cardinality(PageAfter(id)) \in Nat
        /\ Cardinality(Below(i)) <= Cardinality(PageAfter(id))
    BY <1>4, <2>5
  <2>7. Cardinality(Below(i)) < PageSize
    BY <1>1, <1>7, <2>6
  <2> QED BY <1>5, <2>1, <2>3, <2>7
<1>8. ASSUME PageAfter(id) = {} PROVE News(id) = {}
  <2>1. Cardinality(PageAfter(id)) < PageSize
    BY <1>1, <1>8, FS_EmptySet
  <2> QED BY <1>7, <1>8, <2>1
<1>9. PageAfter(id) \subseteq News(id)
  BY <1>5
<1> QED BY <1>1, <1>4, <1>6, <1>7, <1>8, <1>9

\* The latest event of each job of a page.
LEMMA LatestIs ==
  ASSUME FeedTyped, NEW ids \in SUBSET (1 .. Len(log))
  PROVE /\ LatestPerJob(ids) \subseteq ids
        /\ \A i \in ids : \E k \in LatestPerJob(ids) : i <= k /\ log[k].job = log[i].job
<1>1. LatestPerJob(ids) \subseteq ids
  BY DEF LatestPerJob
<1>2. ASSUME NEW i \in ids PROVE \E k \in LatestPerJob(ids) : i <= k /\ log[k].job = log[i].job
  <2>1. PICK S : S = {k \in ids : log[k].job = log[i].job}
    OBVIOUS
  <2>2. Len(log) \in Nat
    BY DEF FeedTyped
  <2>3. S \in SUBSET (0 .. Len(log)) /\ S # {}
    <3>1. \A k \in 1 .. Len(log) : k \in 0 .. Len(log)
      BY <2>2
    <3>2. S \subseteq ids /\ ids \subseteq 1 .. Len(log) /\ i \in S
      BY <2>1
    <3> QED BY <3>1, <3>2
  <2>4. PICK m \in S : \A k \in S : k <= m
    BY <2>2, <2>3, GreatestNatural
  <2>5. m \in ids /\ log[m].job = log[i].job /\ i <= m /\ m \in Nat
    BY <2>1, <2>2, <2>4
  <2>6. ASSUME NEW k \in ids, k > m PROVE log[k].job # log[m].job
    <3>1. k \in Nat
      BY <2>2
    <3>2. ~(k \in S)
      BY <2>4, <2>5, <2>6, <3>1
    <3> QED BY <2>1, <2>5, <3>2
  <2>7. m \in LatestPerJob(ids)
    BY <2>5, <2>6 DEF LatestPerJob
  <2> QED BY <2>5, <2>7
<1> QED BY <1>1, <1>2

-----------------------------------------------------------------------------
(* The list of downloads: the client and the failures *)

\* What the definitions say of one row, of one event, now and after a step.
LEMMA WhenIs ==
  /\ \A j, v : v \in WhenSent(j) <=> \/ \E w \in wire : w.msg.job = j /\ v = w.msg.row
                                     \/ (\A w \in wire : w.msg.job # j) /\ v = view[j]
  /\ \A j, v : v \in WhenBuilt(j) <=> \/ \E m \in out : m.job = j /\ v = m.row
                                      \/ (\A m \in out : m.job # j) /\ v \in WhenSent(j)
  /\ \A j, v : v \in Told(j) <=> \/ \E m \in out : m.job = j /\ v = m.row
                                 \/ \E w \in wire : w.msg.job = j /\ v = w.msg.row
BY DEF WhenSent, WhenBuilt, Told

LEMMA WhenIsThen ==
  /\ \A j, v : v \in WhenSent(j)' <=> \/ \E w \in wire' : w.msg.job = j /\ v = w.msg.row
                                      \/ (\A w \in wire' : w.msg.job # j) /\ v = view'[j]
  /\ \A j, v : v \in WhenBuilt(j)' <=> \/ \E m \in out' : m.job = j /\ v = m.row
                                       \/ (\A m \in out' : m.job # j) /\ v \in WhenSent(j)'
  /\ \A j, v : v \in Told(j)' <=> \/ \E m \in out' : m.job = j /\ v = m.row
                                  \/ \E w \in wire' : w.msg.job = j /\ v = w.msg.row
BY DEF WhenSent, WhenBuilt, Told

\* What a step of the handler or of the client leaves alone with the store.
LEMMA StoreStill ==
  ASSUME setup' = setup, rows' = rows, log' = log, lanes' = lanes
  PROVE /\ \A id : News(id)' = News(id)
        /\ \A v, j : Right(v, j)' <=> Right(v, j)
        /\ \A j, id : Announced(j, id)' <=> Announced(j, id)
        /\ \A j : Gone(j)' <=> Gone(j)
        /\ \A j : Pending(j)' <=> Pending(j)
        /\ SomePending' <=> SomePending
        /\ CountsNow' = CountsNow /\ Faults' = Faults
        /\ \A j, l : Idle(j, l)' <=> Idle(j, l)
<1>1. \A id : News(id)' = News(id)
  BY DEF News, OnList
<1>2. \A j : Pending(j)' <=> Pending(j)
  BY DEF Pending
<1>3. Faults' = Faults
  BY DEF Faults
<1>4. \A v, j : Right(v, j)' <=> Right(v, j)
  BY <1>2, <1>3 DEF Right, Is
<1>5. \A j, id : Announced(j, id)' <=> Announced(j, id)
  BY <1>1 DEF Announced
<1>6. \A j : Gone(j)' <=> Gone(j)
  BY DEF Gone
<1>7. SomePending' <=> SomePending
  BY <1>2 DEF SomePending
<1>8. CountsNow' = CountsNow
  BY DEF CountsNow
<1>9. \A j, l : Idle(j, l)' <=> Idle(j, l)
  BY DEF Idle
<1> QED BY <1>1, <1>2, <1>3, <1>4, <1>5, <1>6, <1>7, <1>8, <1>9

\* A step that keeps what the handler has in hand and what the client shows.
LEMMA HandStill ==
  ASSUME setup' = setup, rows' = rows, log' = log, lanes' = lanes,
         out' = out, queue' = queue, lastID' = lastID, wire' = wire, view' = view, dropped' = dropped
  PROVE /\ \A i : Unread(i)' <=> Unread(i)
        /\ \A i : Beyond(i)' <=> Beyond(i)
        /\ \A j : WhenSent(j)' = WhenSent(j) /\ WhenBuilt(j)' = WhenBuilt(j)
        /\ Queued => Queued'
        /\ Deletes => Deletes'
<1>1. \A id : News(id)' = News(id)
  BY StoreStill
<1>2. \A i : Unread(i)' <=> Unread(i)
  BY <1>1 DEF Unread
<1>3. \A i : Beyond(i)' <=> Beyond(i)
  BY <1>2 DEF Beyond
<1>4. \A j : WhenSent(j)' = WhenSent(j) /\ WhenBuilt(j)' = WhenBuilt(j)
  BY DEF WhenSent, WhenBuilt
<1>5. Queued => Queued'
  BY <1>1, <1>2, <1>3 DEF Queued
<1>6. Deletes => Deletes'
  <2>1. \A j : Told(j)' = Told(j)
    BY DEF Told
  <2>2. (\A j : Gone(j)' <=> Gone(j)) /\ (\A j, l : Idle(j, l)' <=> Idle(j, l))
    BY StoreStill
  <2> QED BY <2>1, <2>2 DEF Deletes
<1> QED BY <1>2, <1>3, <1>4, <1>5, <1>6

\* The steps in which the handler only goes on, and reads the counts.
LEMMA GoesOnKeeps ==
  ASSUME FeedInv, ReadCounts \/ Woken \/ Redrain \/ PushCounts
  PROVE FeedInv'
<1>1. /\ setup' = setup /\ rows' = rows /\ log' = log /\ lanes' = lanes /\ lookup' = lookup
      /\ out' = out /\ queue' = queue /\ lastID' = lastID /\ wire' = wire /\ view' = view /\ dropped' = dropped
      /\ cpc' = cpc /\ cursor' = cursor /\ counts' = counts
  BY DEF ReadCounts, Woken, Redrain, PushCounts, HandlerStep, store, client
<1>2. \/ hpc = "counts" /\ hpc' = "job" /\ tally' = CountsNow /\ full' = full /\ wakeup' = wakeup
      \/ hpc = "wait" /\ hpc' = "page" /\ tally' = tally /\ full' = full /\ wakeup' \in BOOLEAN
      \/ hpc = "pushCounts" /\ hpc' = "send" /\ tally' = CountsNow /\ full' = full /\ wakeup' = wakeup
  BY DEF ReadCounts, Woken, Redrain, PushCounts, FeedInv, FeedTyped
<1>3. FeedTyped'
  BY <1>1, <1>2 DEF FeedInv, FeedTyped
<1>4. Pipeline'
  BY <1>1, <1>2 DEF FeedInv, Pipeline
<1>5. Deletes' /\ Queued'
  BY <1>1, HandStill DEF FeedInv
<1>6. ShownOrAnnounced'
  <2>1. /\ \A v, j : Right(v, j)' <=> Right(v, j)
        /\ \A j, id : Announced(j, id)' <=> Announced(j, id)
        /\ \A id : News(id)' = News(id)
    BY <1>1, StoreStill
  <2>2. /\ \A i : Unread(i)' <=> Unread(i)
        /\ \A j : WhenSent(j)' = WhenSent(j) /\ WhenBuilt(j)' = WhenBuilt(j)
    BY <1>1, HandStill
  <2> QED BY <1>1, <1>2, <2>1, <2>2 DEF FeedInv, ShownOrAnnounced
<1>7. CountsAnnounced'
  <2>1. /\ CountsNow' = CountsNow /\ Faults' = Faults /\ (SomePending' <=> SomePending)
        /\ \A id : News(id)' = News(id)
    BY <1>1, StoreStill
  <2>2. \A i : Beyond(i)' <=> Beyond(i)
    BY <1>1, HandStill
  <2> QED BY <1>1, <1>2, <2>1, <2>2 DEF FeedInv, CountsAnnounced
<1>8. WillWake'
  <2>1. /\ Faults' = Faults /\ \A j, l : Idle(j, l)' <=> Idle(j, l)
        /\ \A id : News(id)' = News(id)
    BY <1>1, StoreStill
  <2>2. \A i : Beyond(i)' <=> Beyond(i)
    BY <1>1, HandStill
  <2> QED BY <1>1, <1>2, <2>1, <2>2 DEF FeedInv, WillWake
<1> QED BY <1>3, <1>4, <1>5, <1>6, <1>7, <1>8 DEF FeedInv

LEMMA LatestIDIs == ASSUME FeedTyped PROVE LatestID \in 0 .. Len(log)
<1>1. Len(log) \in Nat
  BY DEF FeedTyped
<1>2. PICK S : S = {0} \cup {i \in 1 .. Len(log) : log[i].type # "purged"}
  OBVIOUS
<1>3. S \in SUBSET (0 .. Len(log)) /\ S # {}
  <2>1. \A k \in 1 .. Len(log) : k \in 0 .. Len(log)
    BY <1>1
  <2>2. 0 \in 0 .. Len(log)
    BY <1>1
  <2> QED BY <1>2, <2>1, <2>2
<1>4. \E m \in S : \A k \in S : k <= m
  BY <1>1, <1>3, GreatestNatural
<1>5. \E m \in S : \A k \in S : m >= k
  <2>1. PICK m \in S : \A k \in S : k <= m
    BY <1>4
  <2>2. \A k \in S : k \in Int
    BY <1>1, <1>3
  <2> QED BY <2>1, <2>2
<1>6. LatestID = Max(S)
  BY <1>2 DEF LatestID
<1>7. Max(S) \in S
  <2>1. Max(S) = CHOOSE x \in S : \A y \in S : x >= y
    BY DEF Max
  <2> QED BY <1>5, <2>1
<1> QED BY <1>3, <1>6, <1>7

\* The three reads of the snapshot: the cursor, the jobs, the counts.
LEMMA ListingKeeps ==
  ASSUME FeedInv, ListCursor \/ ListJobs \/ ListCounts
  PROVE FeedInv'
<1>1. /\ setup' = setup /\ rows' = rows /\ log' = log /\ lanes' = lanes /\ lookup' = lookup
      /\ out' = out /\ queue' = queue /\ lastID' = lastID /\ wire' = wire /\ hpc' = hpc
      /\ tally' = tally /\ full' = full /\ wakeup' = wakeup
  BY DEF ListCursor, ListJobs, ListCounts, ClientStep, store
<1>2. \/ cpc = "cursor" /\ cpc' = "list" /\ cursor' = LatestID /\ view' = view /\ counts' = counts /\ dropped' = dropped
      \/ cpc = "list" /\ cpc' = "counts" /\ cursor' = cursor /\ view' = rows /\ counts' = counts
         /\ dropped' = dropped \cup Left
      \/ cpc = "counts" /\ cpc' = "open" /\ cursor' = cursor /\ view' = view /\ counts' = CountsNow /\ dropped' = dropped
  BY DEF ListCursor, ListJobs, ListCounts
<1>3. hpc = "off" /\ wire = {} /\ out = {} /\ queue = {}
  BY <1>2 DEF FeedInv, Pipeline
<1>4. FeedTyped'
  <2>1. LatestID \in 0 .. Len(log)
    BY LatestIDIs DEF FeedInv
  <2> QED BY <1>1, <1>2, <2>1 DEF FeedInv, FeedTyped, Left
<1>5. Pipeline'
  BY <1>1, <1>2, <1>3 DEF FeedInv, Pipeline
<1>6. /\ \A id : News(id)' = News(id)
      /\ \A v, j : Right(v, j)' <=> Right(v, j)
      /\ \A j, id : Announced(j, id)' <=> Announced(j, id)
      /\ \A j : Gone(j)' <=> Gone(j)
      /\ \A j, l : Idle(j, l)' <=> Idle(j, l)
      /\ SomePending' <=> SomePending
      /\ CountsNow' = CountsNow /\ Faults' = Faults
  BY <1>1, StoreStill
<1>7. Deletes'
  <2>1. \A j : Told(j)' = {} /\ Told(j) = {}
    BY <1>1, <1>3 DEF Told
  <2>2. \A j \in Jobs : view'[j] = view[j] \/ view'[j] = rows[j]
    BY <1>2
  <2>3. \A j \in dropped' : j \in dropped \/ (j \in Jobs /\ view[j] # None /\ view'[j] = None /\ view' = rows)
    BY <1>2 DEF Left
  <2>4. \A j \in Jobs : rows[j] = None /\ ~Gone(j) => view[j] = None /\ \A l \in Lanes : Idle(j, l)
    BY DEF FeedInv, Deletes
  <2>5. \A j \in Jobs : Gone(j) => rows[j] = None
    BY DEF FeedInv, Deletes
  <2>6. \A i \in 1 .. Len(log) : rows[log[i].job] = None => Gone(log[i].job)
    BY DEF FeedInv, Deletes
  <2>7. \A j \in dropped : j \in Jobs /\ Gone(j) /\ view[j] = None
    BY DEF FeedInv, Deletes, FeedTyped
  <2>8. (\A j \in Jobs : Gone(j) => rows[j] = None)'
    BY <1>1, <1>6, <2>5
  <2>9. (\A i \in 1 .. Len(log) : rows[log[i].job] = None => Gone(log[i].job))'
    BY <1>1, <1>6, <2>6
  <2>10. (\A j \in Jobs : rows[j] = None /\ ~Gone(j) => view[j] = None /\ Told(j) = {} /\ \A l \in Lanes : Idle(j, l))'
    BY <1>1, <1>6, <2>1, <2>2, <2>4
  <2>11. (\A j \in Jobs : None \in Told(j) => Gone(j))'
    BY <2>1
  <2>12. (\A w \in wire, m \in out : w.msg.job = m.job /\ w.msg.row = None => m.row = None)'
    BY <1>1, <1>3
  <2>13. (\A j \in dropped : Gone(j) /\ view[j] = None /\ Told(j) \subseteq {None})'
    BY <1>6, <2>1, <2>2, <2>3, <2>4, <2>5, <2>7
  <2> QED BY <2>8, <2>9, <2>10, <2>11, <2>12, <2>13 DEF Deletes
<1>8. Queued'
  <2>1. \A i : (Unread(i)' <=> Unread(i)) /\ (Beyond(i)' <=> Beyond(i))
    BY <1>1, <1>6 DEF Unread, Beyond
  <2> QED BY <1>1, <1>6, <2>1 DEF FeedInv, Queued
<1>9. ShownOrAnnounced'
  <2>1. \A j \in Jobs : Right(rows[j], j)
    BY DEF Right, Is
  <2> QED BY <1>1, <1>2, <1>3, <1>6, <2>1 DEF FeedInv, ShownOrAnnounced
<1>10. CountsAnnounced'
  BY <1>1, <1>2, <1>3, <1>6 DEF FeedInv, CountsAnnounced
<1>11. WillWake'
  BY <1>1, <1>3, <1>6 DEF FeedInv, WillWake
<1> QED BY <1>4, <1>5, <1>7, <1>8, <1>9, <1>10, <1>11 DEF FeedInv

\* The stream begins at the client's cursor.
LEMMA OpenKeeps ==
  ASSUME FeedInv, Open
  PROVE FeedInv'
<1>1. /\ setup' = setup /\ rows' = rows /\ log' = log /\ lanes' = lanes /\ lookup' = lookup
      /\ out' = out /\ queue' = queue /\ wire' = wire /\ view' = view /\ dropped' = dropped
      /\ tally' = tally /\ full' = full /\ counts' = counts /\ cursor' = cursor
  BY DEF Open, ClientStep, store
<1>2. cpc = "open" /\ cpc' = "live" /\ hpc' = "page" /\ lastID' = cursor /\ wakeup' = FALSE
  BY DEF Open
<1>3. hpc = "off" /\ wire = {} /\ out = {} /\ queue = {}
  BY <1>2 DEF FeedInv, Pipeline
<1>4. FeedTyped'
  BY <1>1, <1>2 DEF FeedInv, FeedTyped
<1>5. Pipeline'
  <2>1. cursor \in Nat
    BY DEF FeedInv, FeedTyped
  <2> QED BY <1>1, <1>2, <1>3, <2>1 DEF Pipeline
<1>6. /\ \A id : News(id)' = News(id)
      /\ \A v, j : Right(v, j)' <=> Right(v, j)
      /\ \A j, id : Announced(j, id)' <=> Announced(j, id)
      /\ \A j : Gone(j)' <=> Gone(j)
      /\ \A j, l : Idle(j, l)' <=> Idle(j, l)
      /\ SomePending' <=> SomePending
      /\ CountsNow' = CountsNow /\ Faults' = Faults
  BY <1>1, StoreStill
<1>7. Deletes'
  <2>1. \A j : Told(j)' = Told(j)
    BY <1>1 DEF Told
  <2> QED BY <1>1, <1>6, <2>1 DEF FeedInv, Deletes
<1>8. \A i : (Unread(i)' <=> i \in News(cursor)) /\ (Beyond(i)' <=> i \in News(cursor))
  <2>1. \A i : News(lastID)' = News(cursor)
    BY <1>1, <1>2 DEF News, OnList
  <2> QED BY <1>1, <1>3, <2>1 DEF Unread, Beyond
<1>9. Queued'
  BY <1>1, <1>3, <1>8 DEF Queued
<1>10. ShownOrAnnounced'
  <2>1. \A j : WhenSent(j)' = {view[j]} /\ WhenBuilt(j)' = {view[j]}
    BY <1>1, <1>3 DEF WhenSent, WhenBuilt
  <2>2. \A j \in Jobs : Right(view[j], j) \/ Announced(j, cursor)
    BY <1>2 DEF FeedInv, ShownOrAnnounced
  <2>3. \A j : Announced(j, lastID)' <=> Announced(j, cursor)
    BY <1>1, <1>2 DEF Announced, News, OnList
  <2>4. \A j : Announced(j, cursor) => \E i \in News(lastID)' : Unread(i)' /\ log'[i].job = j
    <3>1. News(lastID)' = News(cursor)
      BY <1>1, <1>2 DEF News, OnList
    <3> QED BY <1>1, <1>8, <3>1 DEF Announced
  <2>5. \A j : Announced(j, cursor)' <=> Announced(j, cursor)
    BY <1>1 DEF Announced, News, OnList
  <2> QED BY <1>1, <1>2, <1>6, <2>1, <2>2, <2>3, <2>4, <2>5 DEF ShownOrAnnounced
<1>11. CountsAnnounced'
  <2>1. News(cursor)' = News(cursor)
    BY <1>1 DEF News, OnList
  <2> QED BY <1>1, <1>2, <1>3, <1>6, <2>1 DEF FeedInv, CountsAnnounced
<1>12. WillWake'
  BY <1>1, <1>2, <1>6 DEF FeedInv, WillWake
<1> QED BY <1>4, <1>5, <1>7, <1>9, <1>10, <1>11, <1>12 DEF FeedInv

\* The connection breaks.
LEMMA CutKeeps ==
  ASSUME FeedInv, Cut
  PROVE FeedInv'
<1>1. /\ setup' = setup /\ rows' = rows /\ log' = log /\ lanes' = lanes /\ lookup' = lookup
      /\ view' = view /\ dropped' = dropped /\ counts' = counts /\ cursor' = cursor
  BY DEF Cut, store
<1>2. /\ cpc = "live" /\ cpc' \in {"open", "cursor"} /\ hpc' = "off" /\ wakeup' = FALSE /\ wire' = {}
      /\ full' = FALSE /\ queue' = {} /\ out' = {} /\ lastID' = 0
  BY DEF Cut
<1>3. FeedTyped'
  <2>1. 0 \in 0 .. Len(log) /\ {} \subseteq 1 .. Len(log)
    BY DEF FeedInv, FeedTyped
  <2> QED BY <1>1, <1>2, <2>1 DEF FeedInv, FeedTyped
<1>4. Pipeline'
  BY <1>2 DEF Pipeline
<1>5. /\ \A id : News(id)' = News(id)
      /\ \A v, j : Right(v, j)' <=> Right(v, j)
      /\ \A j, id : Announced(j, id)' <=> Announced(j, id)
      /\ \A j : Gone(j)' <=> Gone(j)
      /\ \A j, l : Idle(j, l)' <=> Idle(j, l)
      /\ SomePending' <=> SomePending
      /\ CountsNow' = CountsNow /\ Faults' = Faults
  BY <1>1, StoreStill
<1>6. Deletes'
  <2>1. \A j : Told(j)' = {}
    BY <1>2 DEF Told
  <2> QED BY <1>1, <1>2, <1>5, <2>1 DEF FeedInv, Deletes
<1>7. Queued'
  BY <1>2 DEF Queued, Beyond
<1>8. ShownOrAnnounced'
  BY <1>1, <1>2, <1>5 DEF FeedInv, ShownOrAnnounced
<1>9. CountsAnnounced'
  BY <1>1, <1>2, <1>5 DEF FeedInv, CountsAnnounced
<1>10. WillWake'
  BY <1>1, <1>2, <1>5 DEF FeedInv, WillWake
<1> QED BY <1>3, <1>4, <1>6, <1>7, <1>8, <1>9, <1>10 DEF FeedInv

\* A read of the handler fails: what it had not sent is forgotten.
LEMMA FailuresKeep ==
  ASSUME FeedInv, DrainFails \/ PushFails
  PROVE FeedInv'
<1>1. /\ setup' = setup /\ rows' = rows /\ log' = log /\ lanes' = lanes /\ lookup' = lookup
      /\ wire' = wire /\ view' = view /\ dropped' = dropped /\ counts' = counts /\ cursor' = cursor
      /\ tally' = tally /\ full' = full /\ cpc' = cpc /\ lastID' = lastID /\ wakeup' = wakeup
  BY DEF DrainFails, PushFails, store, client
<1>2. hpc' = "wait" /\ hpc \in {"page", "counts", "job", "pushCounts"} /\ Faults # {}
  BY DEF DrainFails, PushFails, ReadFails
<1>3. queue' = {} /\ out' = {} /\ \A m \in out : m.id = lastID
  BY DEF DrainFails, PushFails, FeedInv, Pipeline
<1>4. FeedTyped'
  <2>1. {} \subseteq 1 .. Len(log)
    OBVIOUS
  <2> QED BY <1>1, <1>2, <1>3, <2>1 DEF FeedInv, FeedTyped
<1>5. Pipeline'
  BY <1>1, <1>2, <1>3 DEF FeedInv, Pipeline
<1>6. /\ \A id : News(id)' = News(id)
      /\ \A v, j : Right(v, j)' <=> Right(v, j)
      /\ \A j, id : Announced(j, id)' <=> Announced(j, id)
      /\ \A j : Gone(j)' <=> Gone(j)
      /\ \A j, l : Idle(j, l)' <=> Idle(j, l)
      /\ SomePending' <=> SomePending
      /\ CountsNow' = CountsNow /\ Faults' = Faults
  BY <1>1, StoreStill
<1>7. Deletes'
  <2>1. \A j : Told(j)' \subseteq Told(j)
    BY <1>1, <1>3 DEF Told
  <2> QED BY <1>1, <1>3, <1>6, <2>1 DEF FeedInv, Deletes
<1>8. \A i : (Unread(i)' <=> i \in News(lastID)) /\ (Beyond(i)' <=> i \in News(lastID))
  BY <1>1, <1>3, <1>6 DEF Unread, Beyond
<1>9. Queued'
  BY <1>1, <1>3, <1>8 DEF Queued
<1>10. ShownOrAnnounced'
  <2>1. \A j : WhenSent(j)' = WhenSent(j) /\ WhenBuilt(j)' = WhenSent(j)
    BY <1>1, <1>3 DEF WhenSent, WhenBuilt
  <2>2. hpc # "off" /\ hpc' # "off"
    BY <1>2
  <2>3. \A j \in Jobs : \A v \in WhenSent(j) : Right(v, j) \/ Announced(j, lastID)
    BY <2>2 DEF FeedInv, ShownOrAnnounced
  <2>4. \A j : Announced(j, lastID) => \E i \in News(lastID)' : Unread(i)' /\ log'[i].job = j
    BY <1>1, <1>6, <1>8 DEF Announced
  <2>5. /\ \A j : Announced(j, lastID)' <=> Announced(j, lastID)
        /\ \A j : Announced(j, cursor)' <=> Announced(j, cursor)
    BY <1>1 DEF Announced, News, OnList
  <2>6. cpc \in {"counts", "open", "live"} => \A j \in Jobs : Right(view[j], j) \/ Announced(j, cursor)
    BY DEF FeedInv, ShownOrAnnounced
  <2> QED BY <1>1, <1>6, <2>1, <2>3, <2>4, <2>5, <2>6 DEF ShownOrAnnounced
<1>11. CountsAnnounced'
  BY <1>2, <1>6 DEF CountsAnnounced
<1>12. WillWake'
  BY <1>1, <1>2, <1>6 DEF FeedInv, WillWake
<1> QED BY <1>4, <1>5, <1>7, <1>9, <1>10, <1>11, <1>12 DEF FeedInv

-----------------------------------------------------------------------------
(* The list of downloads: the handler *)

\* A page of events is read: what is left out of it is left because it is full.
LEMMA ReadPageKeeps ==
  ASSUME FeedSetupsAssumption, FeedInv, ReadPage
  PROVE FeedInv'
<1>1. /\ setup' = setup /\ rows' = rows /\ log' = log /\ lanes' = lanes /\ lookup' = lookup
      /\ wire' = wire /\ view' = view /\ dropped' = dropped /\ counts' = counts /\ cursor' = cursor
      /\ tally' = tally /\ out' = out /\ cpc' = cpc /\ lastID' = lastID /\ wakeup' = wakeup
  BY DEF ReadPage, HandlerStep, store, client
<1> DEFINE page == PageAfter(lastID)
<1>2. /\ hpc = "page" /\ hpc' = (IF page = {} THEN "wait" ELSE "counts")
      /\ queue' = LatestPerJob(page) /\ full' = (Cardinality(page) >= PageSize)
  BY DEF ReadPage
<1>3. out = {} /\ queue = {} /\ cpc = "live"
  BY <1>2 DEF FeedInv, Pipeline
<1>4. FeedTyped /\ lastID \in Nat /\ Len(log) \in Nat
  BY DEF FeedInv, FeedTyped
<1>5. /\ PageSize \in Nat \ {0} /\ page \subseteq News(lastID) /\ Cardinality(page) \in Nat
      /\ page = {} => News(lastID) = {}
      /\ \A k \in page, i \in News(lastID) : i <= k => i \in page
      /\ Cardinality(page) < PageSize => page = News(lastID)
  BY <1>4, PageIs
<1>6. /\ News(lastID) \subseteq 1 .. Len(log) /\ \A i \in News(lastID) : lastID < i
  BY <1>4, NewsIs
<1>7. /\ queue' \subseteq page
      /\ \A i \in page : \E k \in queue' : i <= k /\ log[k].job = log[i].job
  <2>1. page \in SUBSET (1 .. Len(log))
    BY <1>5, <1>6
  <2> QED BY <1>2, <1>4, <2>1, LatestIs
<1> HIDE DEF page
<1>8. page # {} => queue' # {}
  BY <1>7
<1>9. ~full' => page = News(lastID)
  <2>1. ~full' => ~(Cardinality(page) >= PageSize)
    BY <1>2, Zenon
  <2> QED BY <1>5, <2>1
<1>10. page = {} => ~full'
  <2>1. page = {} => Cardinality(page) = 0
    BY FS_EmptySet, Zenon
  <2>2. ~(0 >= PageSize)
    BY <1>5
  <2> QED BY <1>2, <2>1, <2>2, Zenon
<1>11. /\ \A id : News(id)' = News(id)
       /\ \A v, j : Right(v, j)' <=> Right(v, j)
       /\ \A j, id : Announced(j, id)' <=> Announced(j, id)
       /\ \A j : Gone(j)' <=> Gone(j)
       /\ \A j, l : Idle(j, l)' <=> Idle(j, l)
       /\ SomePending' <=> SomePending
       /\ CountsNow' = CountsNow /\ Faults' = Faults
  BY <1>1, StoreStill
<1>12. \A i : (Unread(i)' <=> i \in News(lastID)) /\ (Unread(i) <=> i \in News(lastID))
  BY <1>1, <1>3, <1>11 DEF Unread
<1>13. FeedTyped'
  <2>1. queue' \subseteq 1 .. Len(log) /\ full' \in BOOLEAN
    BY <1>2, <1>5, <1>6, <1>7
  <2> QED BY <1>1, <1>2, <1>4, <2>1 DEF FeedTyped
<1>14. Pipeline'
  <2>1. \A i \in queue' : lastID < i
    BY <1>5, <1>6, <1>7
  <2>2. (hpc' = "wait" /\ queue' = {}) \/ (hpc' = "counts" /\ queue' # {})
    BY <1>2, <1>7, <1>8
  <2> QED BY <1>1, <1>2, <1>3, <2>1, <2>2 DEF FeedInv, Pipeline
<1>15. Deletes'
  <2>1. \A j : Told(j)' = Told(j)
    BY <1>1 DEF Told
  <2> QED BY <1>1, <1>11, <2>1 DEF FeedInv, Deletes
<1>16. ASSUME NEW i \in News(lastID), ~Beyond(i)' PROVE i \in page
  <2>1. PICK k \in queue' : ~(k < i)
    BY <1>12, <1>16 DEF Beyond
  <2>2. k \in page /\ k \in Nat /\ i \in Nat /\ i <= k
    BY <1>4, <1>5, <1>6, <1>7, <2>1
  <2> QED BY <1>5, <2>2
<1>17. Queued'
  <2>1. \A i \in News(lastID) : Unread(i)' /\ ~Beyond(i)' => \E k \in queue' : i <= k /\ log[k].job = log[i].job
    BY <1>7, <1>16
  <2>2. \A k \in queue' : k \in News(lastID) /\ k <= k /\ log[k].job = log[k].job
    BY <1>4, <1>5, <1>6, <1>7
  <2> QED BY <1>1, <1>11, <2>1, <2>2 DEF Queued
<1>18. ShownOrAnnounced'
  <2>1. \A j : WhenSent(j)' = WhenSent(j) /\ WhenBuilt(j)' = WhenBuilt(j)
    BY <1>1 DEF WhenSent, WhenBuilt
  <2>2. hpc # "off" /\ hpc' # "off"
    BY <1>2
  <2> QED BY <1>1, <1>11, <1>12, <2>1, <2>2 DEF FeedInv, ShownOrAnnounced
<1>19. CountsAnnounced'
  BY <1>1, <1>2, <1>3, <1>11 DEF FeedInv, CountsAnnounced
<1>20. WillWake'
  <2>1. ~full' => \A i \in News(lastID) : ~Beyond(i)'
    <3>1. SUFFICES ASSUME ~full', NEW i \in News(lastID) PROVE ~Beyond(i)'
      OBVIOUS
    <3>2. PICK k \in queue' : i <= k
      BY <1>7, <1>9, <3>1
    <3>3. i \in Nat /\ k \in Nat /\ ~(k < i)
      BY <1>4, <1>5, <1>6, <1>7, <3>2
    <3> QED BY <3>3 DEF Beyond
  <2>2. hpc' = "wait" => ~full'
    BY <1>2, <1>10
  <2> QED BY <1>1, <1>2, <1>11, <2>1, <2>2 DEF FeedInv, WillWake
<1> QED BY <1>13, <1>14, <1>15, <1>17, <1>18, <1>19, <1>20 DEF FeedInv

\* The message of the next event is built from the row as it is now.
LEMMA ReadJobKeeps ==
  ASSUME FeedInv, ReadJob
  PROVE FeedInv'
<1>1. /\ setup' = setup /\ rows' = rows /\ log' = log /\ lanes' = lanes /\ lookup' = lookup
      /\ wire' = wire /\ view' = view /\ dropped' = dropped /\ counts' = counts /\ cursor' = cursor
      /\ tally' = tally /\ full' = full /\ cpc' = cpc /\ lastID' = lastID /\ wakeup' = wakeup
  BY DEF ReadJob, HandlerStep, store, client
<1>2. hpc = "job" /\ hpc' = "send"
  BY DEF ReadJob
<1>3. PICK i \in queue : /\ \A k \in queue : i <= k
                         /\ queue' = queue \ {i}
                         /\ out' = {[id |-> i, job |-> log[i].job, row |-> RowFor(i)]}
  BY DEF ReadJob, IsNext
<1>4. out = {} /\ cpc = "live"
  BY <1>2 DEF FeedInv, Pipeline
<1>5. /\ FeedTyped /\ lastID \in Nat /\ Len(log) \in Nat /\ queue \subseteq 1 .. Len(log)
      /\ i \in 1 .. Len(log) /\ lastID < i
  BY DEF FeedInv, FeedTyped, Pipeline
<1>6. PICK jb : jb = log[i].job
  OBVIOUS
<1>7. PICK row : row = RowFor(i)
  OBVIOUS
<1>8. PICK msg : msg = [id |-> i, job |-> jb, row |-> row]
  OBVIOUS
<1>9. out' = {msg} /\ msg.id = i /\ msg.job = jb /\ msg.row = row
  BY <1>3, <1>6, <1>7, <1>8
<1>10. jb \in Jobs
  <2>1. log[i] \in Entries
    BY <1>5 DEF FeedTyped
  <2> QED BY <1>6, <2>1 DEF Entries
<1>11. /\ row = rows[jb] /\ row \in Shown \cup {None}
       /\ row = None => Gone(jb)
  <2>1. /\ Gone(jb) => rows[jb] = None
        /\ rows[jb] = None => Gone(jb)
    BY <1>5, <1>6, <1>10 DEF FeedInv, Deletes
  <2>2. log[i].type = "tombstone" => Gone(jb)
    BY <1>5, <1>6 DEF Gone
  <2>3. row = rows[jb]
    BY <1>6, <1>7, <2>1, <2>2 DEF RowFor
  <2>4. rows[jb] \in Shown \cup {None}
    BY <1>5, <1>10 DEF FeedTyped
  <2> QED BY <2>1, <2>3, <2>4
<1>12. /\ \A id : News(id)' = News(id)
       /\ \A v, j : Right(v, j)' <=> Right(v, j)
       /\ \A j, id : Announced(j, id)' <=> Announced(j, id)
       /\ \A j : Gone(j)' <=> Gone(j)
       /\ \A j, l : Idle(j, l)' <=> Idle(j, l)
       /\ SomePending' <=> SomePending
       /\ CountsNow' = CountsNow /\ Faults' = Faults
  BY <1>1, StoreStill
<1>13. News(lastID) \subseteq 1 .. Len(log)
  BY <1>5, NewsIs
<1>14. \A k : (Unread(k) <=> k \in News(lastID)) /\ (Unread(k)' <=> k \in News(lastID) /\ i < k)
  BY <1>1, <1>4, <1>9, <1>12 DEF Unread
<1>15. \A k \in News(lastID) : Beyond(k)' <=> Beyond(k)
  <2>1. SUFFICES ASSUME NEW k \in News(lastID) PROVE Beyond(k)' <=> Beyond(k)
    OBVIOUS
  <2>2. k \in Nat /\ \A n \in queue : n \in Nat
    BY <1>5, <1>13
  <2> QED BY <1>3, <1>14, <2>2 DEF Beyond
<1>16. FeedTyped'
  <2>1. msg \in Messages
    BY <1>5, <1>8, <1>10, <1>11 DEF Messages
  <2> QED BY <1>1, <1>2, <1>3, <1>5, <1>9, <2>1 DEF FeedTyped
<1>17. Pipeline'
  <2>1. \A k \in queue' : k \in Nat /\ i < k /\ lastID < k
    BY <1>3, <1>5
  <2>2. i \in lastID .. Len(log)
    BY <1>5
  <2> QED BY <1>1, <1>2, <1>4, <1>9, <2>1, <2>2 DEF FeedInv, Pipeline
<1>18. Deletes'
  <2>1. \A j, v : v \in Told(j)' <=> (j = jb /\ v = row) \/ v \in Told(j)
    <3>1. \A j, v : v \in Told(j) <=> \E w \in wire : w.msg.job = j /\ v = w.msg.row
      BY <1>4, WhenIs
    <3>2. \A j, v : v \in Told(j)' <=> (j = jb /\ v = row) \/ \E w \in wire : w.msg.job = j /\ v = w.msg.row
      BY <1>1, <1>9, WhenIsThen
    <3> QED BY <3>1, <3>2
  <2>2. \A j \in Jobs : Gone(j) => rows[j] = None
    BY DEF FeedInv, Deletes
  <2>3. \A n \in 1 .. Len(log) : rows[log[n].job] = None => Gone(log[n].job)
    BY DEF FeedInv, Deletes
  <2>4. \A j \in Jobs : rows[j] = None /\ ~Gone(j) => view[j] = None /\ Told(j)' = {} /\ \A l \in Lanes : Idle(j, l)
    <3>1. \A j \in Jobs : rows[j] = None /\ ~Gone(j) => view[j] = None /\ Told(j) = {} /\ \A l \in Lanes : Idle(j, l)
      BY DEF FeedInv, Deletes
    <3>2. \A j \in Jobs : rows[j] = None /\ ~Gone(j) => j # jb
      BY <1>11
    <3> QED BY <2>1, <3>1, <3>2
  <2>5. \A j \in Jobs : None \in Told(j)' => Gone(j)
    BY <1>11, <2>1 DEF FeedInv, Deletes
  <2>6. \A w \in wire : w.msg.job = jb /\ w.msg.row = None => row = None
    <3>1. SUFFICES ASSUME NEW w \in wire, w.msg.job = jb, w.msg.row = None PROVE row = None
      OBVIOUS
    <3>2. None \in Told(jb)
      BY <3>1, WhenIs
    <3>3. Gone(jb)
      BY <1>10, <3>2 DEF FeedInv, Deletes
    <3> QED BY <1>10, <1>11, <2>2, <3>3
  <2>7. \A j \in dropped : Gone(j) /\ view[j] = None /\ Told(j)' \subseteq {None}
    <3>1. \A j \in dropped : j \in Jobs /\ Gone(j) /\ view[j] = None /\ Told(j) \subseteq {None}
      BY <1>5 DEF FeedInv, Deletes, FeedTyped
    <3>2. Gone(jb) => row = None
      BY <1>10, <1>11, <2>2
    <3> QED BY <2>1, <3>1, <3>2
  <2> QED BY <1>1, <1>9, <1>12, <2>2, <2>3, <2>4, <2>5, <2>6, <2>7 DEF Deletes
<1>19. Queued'
  <2>1. \A k \in News(lastID) : Unread(k)' /\ ~Beyond(k)' => \E n \in queue' : k <= n /\ log[n].job = log[k].job
    <3>1. SUFFICES ASSUME NEW k \in News(lastID), Unread(k)', ~Beyond(k)'
                   PROVE \E n \in queue' : k <= n /\ log[n].job = log[k].job
      OBVIOUS
    <3>2. i < k /\ Unread(k) /\ ~Beyond(k) /\ k \in Nat
      BY <1>13, <1>14, <1>15, <3>1
    <3>3. PICK n \in queue : k <= n /\ log[n].job = log[k].job
      BY <3>2 DEF FeedInv, Queued
    <3>4. n \in Nat /\ n # i
      BY <1>5, <3>2, <3>3
    <3> QED BY <1>3, <3>3, <3>4
  <2>2. \A k \in queue' : \E n \in News(lastID) : k <= n /\ log[n].job = log[k].job
    BY <1>3 DEF FeedInv, Queued
  <2> QED BY <1>1, <1>12, <2>1, <2>2 DEF Queued
<1>20. ShownOrAnnounced'
  <2>1. \A j : WhenSent(j)' = WhenSent(j)
    BY <1>1 DEF WhenSent
  <2>2. \A j \in Jobs : \A v \in WhenBuilt(j)' :
           Right(v, j) \/ \E k \in News(lastID) : Unread(k)' /\ log[k].job = j
    <3>1. SUFFICES ASSUME NEW j \in Jobs, NEW v \in WhenBuilt(j)'
                   PROVE Right(v, j) \/ \E k \in News(lastID) : Unread(k)' /\ log[k].job = j
      OBVIOUS
    <3>2. CASE j = jb
      <4>1. v = row
        BY <1>9, <3>2, WhenIsThen
      <4>2. Right(rows[jb], jb)
        BY DEF Right, Is
      <4> QED BY <1>11, <3>2, <4>1, <4>2
    <3>3. CASE j # jb
      <4>1. v \in WhenSent(j)
        BY <1>9, <2>1, <3>3, WhenIsThen
      <4>2. v \in WhenBuilt(j)
        BY <1>4, <4>1, WhenIs
      <4>3. hpc # "off"
        BY <1>2
      <4>4. Right(v, j) \/ \E k \in News(lastID) : Unread(k) /\ log[k].job = j
        BY <4>2, <4>3 DEF FeedInv, ShownOrAnnounced
      <4>5. SUFFICES ASSUME NEW k \in News(lastID), Unread(k), log[k].job = j, ~(i < k)
                     PROVE \E n \in News(lastID) : Unread(n)' /\ log[n].job = j
        BY <1>14, <4>4
      <4>6. k \in Nat /\ ~(i < k) /\ ~Beyond(k)
        BY <1>13, <4>5 DEF Beyond
      <4>7. PICK n \in queue : k <= n /\ log[n].job = j
        BY <4>5, <4>6 DEF FeedInv, Queued
      <4>8. n \in Nat /\ n # i /\ i < n
        BY <1>3, <1>5, <1>6, <3>3, <4>7
      <4>9. PICK e \in News(lastID) : n <= e /\ log[e].job = j
        BY <4>7 DEF FeedInv, Queued
      <4>10. i < e
        BY <1>5, <1>13, <4>8, <4>9
      <4> QED BY <1>14, <4>9, <4>10
    <3> QED BY <3>2, <3>3
  <2>3. hpc # "off" /\ hpc' # "off"
    BY <1>2
  <2>4. /\ cpc \in {"counts", "open", "live"} => \A j \in Jobs : Right(view[j], j) \/ Announced(j, cursor)
        /\ \A j \in Jobs : \A v \in WhenSent(j) : Right(v, j) \/ Announced(j, lastID)
    BY <2>3 DEF FeedInv, ShownOrAnnounced
  <2> QED BY <1>1, <1>12, <2>1, <2>2, <2>4 DEF ShownOrAnnounced
<1>21. CountsAnnounced'
  BY <1>1, <1>2, <1>12, <1>15 DEF FeedInv, CountsAnnounced
<1>22. WillWake'
  BY <1>1, <1>2, <1>12, <1>15 DEF FeedInv, WillWake
<1> QED BY <1>16, <1>17, <1>18, <1>19, <1>20, <1>21, <1>22 DEF FeedInv

\* Progress of running jobs is read beside the events.
LEMMA PushReadKeeps ==
  ASSUME FeedInv, PushRead
  PROVE FeedInv'
<1>1. /\ setup' = setup /\ rows' = rows /\ log' = log /\ lanes' = lanes /\ lookup' = lookup
      /\ wire' = wire /\ view' = view /\ dropped' = dropped /\ counts' = counts /\ cursor' = cursor
      /\ queue' = queue /\ cpc' = cpc /\ lastID' = lastID /\ wakeup' = wakeup
  BY DEF PushRead, HandlerStep, store, client
<1>2. hpc = "wait" /\ hpc' = "pushCounts" /\ full' = FALSE
  BY DEF PushRead
<1>3. PICK moved \in SUBSET {j \in Jobs : Is(j, "running")} :
        moved # {} /\ out' = {[id |-> lastID, job |-> j, row |-> rows[j]] : j \in moved}
  BY DEF PushRead
<1>4. out = {} /\ queue = {} /\ cpc = "live"
  BY <1>2 DEF FeedInv, Pipeline
<1>5. FeedTyped /\ lastID \in Nat /\ Len(log) \in Nat /\ lastID \in 0 .. Len(log)
  BY DEF FeedInv, FeedTyped
<1>6. ASSUME NEW m \in out' PROVE m.id = lastID /\ m.job \in moved /\ m.row = rows[m.job] /\ m \in Messages
  <2>1. PICK j \in moved : m = [id |-> lastID, job |-> j, row |-> rows[j]]
    BY <1>3
  <2>2. j \in Jobs /\ rows[j] \in Shown \cup {None}
    BY <1>3, <1>5 DEF FeedTyped
  <2>3. m \in Messages
    BY <1>5, <2>1, <2>2 DEF Messages
  <2> QED BY <2>1, <2>3
<1>7. \A m, n \in out' : m.job = n.job => m = n
  BY <1>3
<1>8. out' # {}
  BY <1>3
<1>9. /\ \A id : News(id)' = News(id)
      /\ \A v, j : Right(v, j)' <=> Right(v, j)
      /\ \A j, id : Announced(j, id)' <=> Announced(j, id)
      /\ \A j : Gone(j)' <=> Gone(j)
      /\ \A j, l : Idle(j, l)' <=> Idle(j, l)
      /\ SomePending' <=> SomePending
      /\ CountsNow' = CountsNow /\ Faults' = Faults
  BY <1>1, StoreStill
<1>10. \A j \in moved : j \in Jobs /\ rows[j] # None /\ ~Gone(j) /\ Right(rows[j], j)
  <2>1. SUFFICES ASSUME NEW j \in moved PROVE j \in Jobs /\ rows[j] # None /\ ~Gone(j) /\ Right(rows[j], j)
    OBVIOUS
  <2>2. j \in Jobs /\ rows[j].status = "running"
    BY <1>3 DEF Is
  <2>3. rows[j] # None
    BY <2>2 DEF None
  <2>4. ~Gone(j)
    BY <2>2, <2>3 DEF FeedInv, Deletes
  <2>5. Right(rows[j], j)
    BY DEF Right, Is
  <2> QED BY <2>2, <2>3, <2>4, <2>5
<1>11. \A i \in News(lastID) : i \in Nat /\ lastID < i
  BY <1>5, NewsIs
<1>12. \A i : (Unread(i)' <=> i \in News(lastID)) /\ (Unread(i) <=> i \in News(lastID))
  BY <1>1, <1>4, <1>6, <1>9, <1>11 DEF Unread
<1>13. \A i : Beyond(i)' <=> Beyond(i)
  BY <1>1, <1>12 DEF Beyond
<1>14. FeedTyped'
  <2>1. out' \subseteq Messages
    BY <1>6
  <2> QED BY <1>1, <1>2, <1>5, <2>1 DEF FeedTyped
<1>15. Pipeline'
  <2>1. lastID \in lastID .. Len(log)
    BY <1>5
  <2>2. \A m \in out' : m.id = lastID
    BY <1>6
  <2>3. \A m, n \in out' : m # n => m.job # n.job
    BY <1>7
  <2> QED BY <1>1, <1>2, <1>4, <1>8, <2>1, <2>2, <2>3 DEF FeedInv, Pipeline
<1>16. Deletes'
  <2>1. \A j, v : v \in Told(j)' => (j \in moved /\ v = rows[j]) \/ v \in Told(j)
    BY <1>1, <1>6, WhenIs, WhenIsThen
  <2>2. (\A j \in Jobs : Gone(j) => rows[j] = None) /\ (\A n \in 1 .. Len(log) : rows[log[n].job] = None => Gone(log[n].job))
    BY DEF FeedInv, Deletes
  <2>3. \A j \in Jobs : rows[j] = None /\ ~Gone(j) => view[j] = None /\ Told(j)' = {} /\ \A l \in Lanes : Idle(j, l)
    <3>1. \A j \in Jobs : rows[j] = None /\ ~Gone(j) => view[j] = None /\ Told(j) = {} /\ \A l \in Lanes : Idle(j, l)
      BY DEF FeedInv, Deletes
    <3> QED BY <1>10, <2>1, <3>1
  <2>4. \A j \in Jobs : None \in Told(j)' => Gone(j)
    BY <1>10, <2>1 DEF FeedInv, Deletes
  <2>5. \A w \in wire, m \in out' : w.msg.job = m.job /\ w.msg.row = None => m.row = None
    <3>1. SUFFICES ASSUME NEW w \in wire, NEW m \in out', w.msg.job = m.job, w.msg.row = None PROVE FALSE
      OBVIOUS
    <3>2. None \in Told(m.job) /\ m.job \in moved
      BY <1>6, <3>1, WhenIs
    <3> QED BY <1>10, <3>2 DEF FeedInv, Deletes
  <2>6. \A j \in dropped : Gone(j) /\ view[j] = None /\ Told(j)' \subseteq {None}
    <3>1. \A j \in dropped : Gone(j) /\ view[j] = None /\ Told(j) \subseteq {None}
      BY DEF FeedInv, Deletes
    <3> QED BY <1>10, <2>1, <3>1
  <2> QED BY <1>1, <1>9, <2>2, <2>3, <2>4, <2>5, <2>6 DEF Deletes
<1>17. Queued'
  BY <1>1, <1>9, <1>12, <1>13 DEF FeedInv, Queued
<1>18. ShownOrAnnounced'
  <2>1. \A j : WhenSent(j)' = WhenSent(j)
    BY <1>1 DEF WhenSent
  <2>2. hpc # "off" /\ hpc' # "off"
    BY <1>2
  <2>3. /\ cpc \in {"counts", "open", "live"} => \A j \in Jobs : Right(view[j], j) \/ Announced(j, cursor)
        /\ \A j \in Jobs : \A v \in WhenSent(j) : Right(v, j) \/ Announced(j, lastID)
    BY <2>2 DEF FeedInv, ShownOrAnnounced
  <2>4. \A j \in Jobs : \A v \in WhenBuilt(j)' :
           Right(v, j) \/ \E i \in News(lastID) : Unread(i)' /\ log[i].job = j
    <3>1. SUFFICES ASSUME NEW j \in Jobs, NEW v \in WhenBuilt(j)'
                   PROVE Right(v, j) \/ \E i \in News(lastID) : Unread(i)' /\ log[i].job = j
      OBVIOUS
    <3>2. (j \in moved /\ v = rows[j]) \/ v \in WhenSent(j)
      BY <1>6, <2>1, WhenIsThen
    <3>3. v \in WhenSent(j) => Right(v, j) \/ \E i \in News(lastID) : Unread(i)' /\ log[i].job = j
      BY <1>12, <2>3 DEF Announced
    <3> QED BY <1>10, <3>2, <3>3
  <2> QED BY <1>1, <1>9, <2>1, <2>3, <2>4 DEF ShownOrAnnounced
<1>19. CountsAnnounced'
  BY <1>1, <1>2, <1>9 DEF FeedInv, CountsAnnounced
<1>20. WillWake'
  BY <1>1, <1>2, <1>9, <1>13 DEF FeedInv, WillWake
<1> QED BY <1>14, <1>15, <1>16, <1>17, <1>18, <1>19, <1>20 DEF FeedInv

\* A message goes on the wire, with the handler's cursor.
LEMMA SendKeeps ==
  ASSUME FeedInv, Send
  PROVE FeedInv'
<1>1. /\ setup' = setup /\ rows' = rows /\ log' = log /\ lanes' = lanes /\ lookup' = lookup
      /\ view' = view /\ dropped' = dropped /\ counts' = counts /\ cursor' = cursor
      /\ queue' = queue /\ cpc' = cpc /\ wakeup' = wakeup /\ full' = full /\ tally' = tally
  BY DEF Send, HandlerStep, store, client
<1>2. /\ hpc = "send" /\ wire = {}
      /\ hpc' = IF out' # {} THEN "send" ELSE IF queue # {} THEN "job" ELSE IF full THEN "page" ELSE "wait"
  BY DEF Send
<1>3. PICK m \in out : wire' = {[msg |-> m, counts |-> tally]} /\ lastID' = m.id /\ out' = out \ {m}
  BY DEF Send
<1>4. PICK w : w = [msg |-> m, counts |-> tally]
  OBVIOUS
<1>5. wire' = {w} /\ w.msg = m /\ w.counts = tally
  BY <1>3, <1>4
<1>6. cpc = "live" /\ hpc # "off" /\ hpc' # "off" /\ hpc' \in {"send", "job", "page", "wait"}
  BY <1>2 DEF FeedInv, Pipeline
<1>7. /\ FeedTyped /\ lastID \in Nat /\ Len(log) \in Nat /\ m \in Messages /\ m.job \in Jobs
      /\ \A n \in out : n \in Messages /\ n.id \in Nat
  BY DEF FeedInv, FeedTyped, Messages
<1>8. /\ m.id \in lastID .. Len(log) /\ \A n \in out : n.id = m.id
      /\ \A n \in out : n # m => n.job # m.job /\ m.id = lastID /\ queue = {}
      /\ \A i \in queue : lastID < i /\ m.id < i
      /\ cursor <= lastID
  BY <1>6 DEF FeedInv, Pipeline
<1>9. /\ \A id : News(id)' = News(id)
      /\ \A v, j : Right(v, j)' <=> Right(v, j)
      /\ \A j, id : Announced(j, id)' <=> Announced(j, id)
      /\ \A j : Gone(j)' <=> Gone(j)
      /\ \A j, l : Idle(j, l)' <=> Idle(j, l)
      /\ SomePending' <=> SomePending
      /\ CountsNow' = CountsNow /\ Faults' = Faults
  BY <1>1, StoreStill
<1>10. m.id \in Nat /\ lastID <= m.id
  BY <1>7, <1>8
<1>11. \A i : i \in News(m.id) <=> i \in News(lastID) /\ m.id < i
  <2>1. \A i : i \in News(m.id) <=> i \in 1 .. Len(log) /\ m.id < i /\ OnList(i)
    BY <1>7, <1>10, NewsIs
  <2>2. \A i : i \in News(lastID) <=> i \in 1 .. Len(log) /\ lastID < i /\ OnList(i)
    BY <1>7, NewsIs
  <2>3. \A i \in 1 .. Len(log) : m.id < i => lastID < i
    BY <1>7, <1>10
  <2> QED BY <2>1, <2>2, <2>3
<1>12. News(lastID)' = News(m.id)
  BY <1>1, <1>3 DEF News, OnList
<1>13. \A i : (Unread(i) <=> i \in News(m.id)) /\ (Unread(i)' <=> i \in News(m.id))
  <2>1. \A i : Unread(i) <=> i \in News(lastID) /\ m.id < i
    BY <1>8 DEF Unread
  <2>2. \A i : Unread(i)' <=> i \in News(m.id) /\ \A n \in out' : n.id < i
    BY <1>12 DEF Unread
  <2>3. \A n \in out' : n.id = m.id
    BY <1>3, <1>8
  <2> QED BY <1>11, <2>1, <2>2, <2>3
<1>14. \A i : Beyond(i)' <=> Beyond(i)
  BY <1>1, <1>13 DEF Beyond
<1>15. FeedTyped'
  <2>1. out' \subseteq Messages /\ \A v \in wire' : v.msg \in Messages
    BY <1>3, <1>5, <1>7
  <2>2. m.id \in 0 .. Len(log)
    BY <1>7, <1>8
  <2> QED BY <1>1, <1>3, <1>6, <1>7, <2>1, <2>2 DEF FeedTyped
<1>16. Pipeline'
  <2>1. \A n \in out' : n \in out /\ n.id = m.id /\ n # m
    BY <1>3, <1>8
  <2>2. \A n, k \in out' : n # k => n.job # k.job /\ n.id = lastID /\ queue = {}
    BY <1>3 DEF FeedInv, Pipeline
  <2>3. m.id \in m.id .. Len(log)
    BY <1>7, <1>8
  <2>4. \A n \in out' : m.id = lastID /\ queue = {}
    BY <1>8, <2>1
  <2>5. hpc' = "job" => queue' # {}
    BY <1>1, <1>2
  <2>6. hpc' \in {"page", "wait"} => queue' = {}
    BY <1>1, <1>2
  <2>7. hpc' = "send" <=> out' # {}
    BY <1>2
  <2>8. cursor \in Nat /\ cursor <= m.id
    BY <1>7, <1>8, <1>10 DEF FeedTyped
  <2>9. \A i \in queue : m.id < i /\ \A n \in out' : n.id < i
    BY <1>8, <2>1
  <2> QED BY <1>1, <1>3, <1>5, <1>6, <2>1, <2>2, <2>3, <2>4, <2>5, <2>6, <2>7, <2>8, <2>9 DEF Pipeline
<1>17. Deletes'
  <2>1. \A j, v : v \in Told(j)' <=> v \in Told(j)
    <3>1. \A j, v : v \in Told(j) <=> \E n \in out : n.job = j /\ v = n.row
      BY <1>2, WhenIs
    <3>2. \A j, v : v \in Told(j)' <=> (m.job = j /\ v = m.row) \/ \E n \in out' : n.job = j /\ v = n.row
      BY <1>5, WhenIsThen
    <3> QED BY <1>3, <3>1, <3>2
  <2>2. \A j : Told(j)' = {} <=> Told(j) = {}
    BY <2>1
  <2>3. \A j : Told(j)' \subseteq {None} <=> Told(j) \subseteq {None}
    BY <2>1
  <2>4. \A n \in out' : n.job # m.job
    BY <1>3, <1>8
  <2>5. (\A v \in wire, n \in out : v.msg.job = n.job /\ v.msg.row = None => n.row = None)'
    BY <1>5, <2>4
  <2> QED BY <1>1, <1>9, <2>1, <2>2, <2>3, <2>5 DEF FeedInv, Deletes
<1>18. Queued'
  <2>1. \A i \in News(m.id) : ~Beyond(i) => \E k \in queue : i <= k /\ log[k].job = log[i].job
    BY <1>11, <1>13 DEF FeedInv, Queued
  <2>2. \A k \in queue : \E i \in News(m.id) : k <= i /\ log[k].job = log[i].job
    <3>1. SUFFICES ASSUME NEW k \in queue PROVE \E i \in News(m.id) : k <= i /\ log[k].job = log[i].job
      OBVIOUS
    <3>2. PICK i \in News(lastID) : k <= i /\ log[k].job = log[i].job
      BY DEF FeedInv, Queued
    <3>3. i \in Nat /\ k \in Nat /\ m.id < k
      BY <1>7, <1>8, NewsIs DEF FeedTyped
    <3>4. m.id < i
      BY <1>10, <3>2, <3>3
    <3> QED BY <1>11, <3>2, <3>4
  <2> QED BY <1>1, <1>12, <1>14, <2>1, <2>2 DEF Queued
<1>19. ShownOrAnnounced'
  <2>1. \A j \in Jobs : \A v \in WhenBuilt(j) : Right(v, j) \/ \E i \in News(m.id) : log[i].job = j
    BY <1>6, <1>13 DEF FeedInv, ShownOrAnnounced
  <2>2. \A j \in Jobs : Right(view[j], j) \/ Announced(j, cursor)
    BY <1>6 DEF FeedInv, ShownOrAnnounced
  <2>3. \A j \in Jobs : \A v \in WhenSent(j) : Right(v, j) \/ Announced(j, lastID)
    BY <1>6 DEF FeedInv, ShownOrAnnounced
  <2>4. \A j \in Jobs : \A v \in WhenSent(j)' : Right(v, j) \/ Announced(j, m.id)
    <3>1. SUFFICES ASSUME NEW j \in Jobs, NEW v \in WhenSent(j)' PROVE Right(v, j) \/ Announced(j, m.id)
      OBVIOUS
    <3>2. CASE j = m.job
      <4>1. v = m.row
        BY <1>5, <3>2, WhenIsThen
      <4>2. v \in WhenBuilt(j)
        BY <3>2, <4>1, WhenIs
      <4> QED BY <2>1, <4>2 DEF Announced
    <3>3. CASE j # m.job
      <4>1. v = view[j]
        BY <1>1, <1>5, <3>3, WhenIsThen
      <4>2. v \in WhenSent(j)
        BY <1>2, <4>1, WhenIs
      <4>3. CASE \E n \in out : n.job = j
        <5>1. m.id = lastID
          BY <1>8, <3>3, <4>3
        <5> QED BY <2>3, <4>2, <5>1
      <4>4. CASE \A n \in out : n.job # j
        <5>1. v \in WhenBuilt(j)
          BY <4>2, <4>4, WhenIs
        <5> QED BY <2>1, <5>1 DEF Announced
      <4> QED BY <4>3, <4>4
    <3> QED BY <3>2, <3>3
  <2>5. \A j \in Jobs : \A v \in WhenBuilt(j)' : Right(v, j) \/ \E i \in News(m.id) : log[i].job = j
    <3>1. SUFFICES ASSUME NEW j \in Jobs, NEW v \in WhenBuilt(j)'
                   PROVE Right(v, j) \/ \E i \in News(m.id) : log[i].job = j
      OBVIOUS
    <3>2. CASE \E n \in out' : n.job = j
      <4>1. v \in WhenBuilt(j)
        BY <1>3, <3>2, WhenIs, WhenIsThen
      <4> QED BY <2>1, <4>1
    <3>3. CASE \A n \in out' : n.job # j
      <4>1. v \in WhenSent(j)'
        BY <3>3, WhenIsThen
      <4> QED BY <2>4, <4>1 DEF Announced
    <3> QED BY <3>2, <3>3
  <2>6. \A j : Announced(j, lastID)' <=> Announced(j, m.id)
    BY <1>1, <1>3 DEF Announced, News, OnList
  <2>7. \A j : Announced(j, cursor)' <=> Announced(j, cursor)
    BY <1>1 DEF Announced, News, OnList
  <2> QED BY <1>1, <1>9, <1>12, <1>13, <2>2, <2>4, <2>5, <2>6, <2>7 DEF ShownOrAnnounced
<1>20. CountsAnnounced'
  <2>1. \A i : Beyond(i) => i \in News(m.id)
    BY <1>13 DEF Beyond
  <2>2. Faults = {} => tally = CountsNow \/ SomePending \/ \E i \in News(m.id) : Beyond(i)
    BY <1>2, <2>1 DEF FeedInv, CountsAnnounced
  <2> QED BY <1>1, <1>2, <1>5, <1>6, <1>9, <1>12, <1>14, <2>2 DEF FeedInv, CountsAnnounced
<1>21. WillWake'
  <2>1. \A i \in News(m.id) : i \in News(lastID)
    BY <1>11
  <2>2. hpc \notin {"off", "page"}
    BY <1>2
  <2>3. Faults = {} /\ (\E i \in News(lastID) : Beyond(i)) =>
          full \/ wakeup \/ \E j \in Jobs, l \in Lanes : lanes[j][l] = "publish"
    BY <2>2 DEF FeedInv, WillWake
  <2>4. hpc' = "wait" => ~full
    BY <1>2
  <2> QED BY <1>1, <1>9, <1>12, <1>14, <2>1, <2>3, <2>4 DEF FeedInv, WillWake
<1> QED BY <1>15, <1>16, <1>17, <1>18, <1>19, <1>20, <1>21 DEF FeedInv

\* The client takes the message from the wire.
LEMMA ReceiveKeeps ==
  ASSUME FeedInv, Receive
  PROVE FeedInv'
<1>1. /\ setup' = setup /\ rows' = rows /\ log' = log /\ lanes' = lanes /\ lookup' = lookup
      /\ queue' = queue /\ out' = out /\ full' = full /\ tally' = tally
      /\ cpc' = cpc /\ hpc' = hpc /\ lastID' = lastID /\ wakeup' = wakeup
  BY DEF Receive, ClientStep, store
<1>2. cpc = "live" /\ wire' = {}
  BY DEF Receive
<1>3. PICK w \in wire : /\ cursor' = (IF w.msg.id > cursor THEN w.msg.id ELSE cursor)
                        /\ view' = [view EXCEPT ![w.msg.job] = w.msg.row]
                        /\ counts' = w.counts
                        /\ dropped' = dropped \cup Left
  BY DEF Receive
<1>4. hpc # "off" /\ w.msg.id = lastID /\ (\A v \in wire : v = w) /\ cursor <= lastID
  BY <1>2 DEF FeedInv, Pipeline
<1>5. PICK jb : jb = w.msg.job
  OBVIOUS
<1>6. PICK row : row = w.msg.row
  OBVIOUS
<1>7. /\ FeedTyped /\ lastID \in Nat /\ Len(log) \in Nat /\ cursor \in Nat
      /\ jb \in Jobs /\ row \in Shown \cup {None}
      /\ view \in [Jobs -> Shown \cup {None}]
  BY <1>5, <1>6 DEF FeedInv, FeedTyped, Messages
<1>8. cursor' = lastID
  BY <1>3, <1>4, <1>7
<1>9. view' = [view EXCEPT ![jb] = row]
  BY <1>3, <1>5, <1>6
<1>10. /\ view' \in [Jobs -> Shown \cup {None}] /\ view'[jb] = row
       /\ \A j \in Jobs : j # jb => view'[j] = view[j]
  BY <1>7, <1>9
<1>11. /\ \A id : News(id)' = News(id)
       /\ \A v, j : Right(v, j)' <=> Right(v, j)
       /\ \A j, id : Announced(j, id)' <=> Announced(j, id)
       /\ \A j : Gone(j)' <=> Gone(j)
       /\ \A j, l : Idle(j, l)' <=> Idle(j, l)
       /\ SomePending' <=> SomePending
       /\ CountsNow' = CountsNow /\ Faults' = Faults
  BY <1>1, StoreStill
<1>12. \A i : (Unread(i)' <=> Unread(i)) /\ (Beyond(i)' <=> Beyond(i))
  BY <1>1, <1>11 DEF Unread, Beyond
<1>13. /\ \A j, v : v \in Told(j) <=> (j = jb /\ v = row) \/ \E m \in out : m.job = j /\ v = m.row
       /\ \A j, v : v \in Told(j)' <=> \E m \in out : m.job = j /\ v = m.row
  BY <1>1, <1>2, <1>4, <1>5, <1>6, WhenIs, WhenIsThen
<1>14. \A j \in Jobs : \A v : /\ v \in WhenSent(j) <=> v = view'[j]
                              /\ v \in WhenSent(j)' <=> v = view'[j]
  <2>1. SUFFICES ASSUME NEW j \in Jobs, NEW v
                 PROVE (v \in WhenSent(j) <=> v = view'[j]) /\ (v \in WhenSent(j)' <=> v = view'[j])
    OBVIOUS
  <2>2. v \in WhenSent(j)' <=> v = view'[j]
    BY <1>2, WhenIsThen
  <2>3. CASE j = jb
    BY <1>4, <1>5, <1>6, <1>10, <2>2, <2>3, WhenIs
  <2>4. CASE j # jb
    BY <1>4, <1>5, <1>10, <2>2, <2>4, WhenIs
  <2> QED BY <2>3, <2>4
<1>15. \A j \in Jobs : \A v : v \in WhenBuilt(j)' <=> v \in WhenBuilt(j)
  BY <1>1, <1>14, WhenIs, WhenIsThen
<1>16. dropped' \subseteq Jobs /\ \A j \in dropped' : j \in dropped \/ (view[j] # None /\ view'[j] = None /\ j \in Jobs)
  BY <1>3, <1>7 DEF Left, FeedTyped
<1>17. FeedTyped'
  <2>1. lastID \in 0 .. Len(log)
    BY <1>7 DEF FeedTyped
  <2> QED BY <1>1, <1>2, <1>7, <1>8, <1>10, <1>16, <2>1 DEF FeedTyped
<1>18. Pipeline'
  <2>1. lastID <= lastID
    BY <1>7
  <2> QED BY <1>1, <1>2, <1>4, <1>8, <2>1 DEF FeedInv, Pipeline
<1>19. Deletes'
  <2>1. (\A j \in Jobs : Gone(j) => rows[j] = None) /\ (\A n \in 1 .. Len(log) : rows[log[n].job] = None => Gone(log[n].job))
    BY DEF FeedInv, Deletes
  <2>2. \A j \in Jobs : rows[j] = None /\ ~Gone(j) => view[j] = None /\ Told(j) = {} /\ \A l \in Lanes : Idle(j, l)
    BY DEF FeedInv, Deletes
  <2>3. \A j \in Jobs : rows[j] = None /\ ~Gone(j) => view'[j] = None /\ Told(j)' = {} /\ \A l \in Lanes : Idle(j, l)
    BY <1>10, <1>13, <2>2
  <2>4. \A j \in Jobs : None \in Told(j) => Gone(j)
    BY DEF FeedInv, Deletes
  <2>5. \A j \in Jobs : None \in Told(j)' => Gone(j)
    BY <1>13, <2>4
  <2>6. \A j \in Jobs : j \in dropped => Gone(j) /\ view[j] = None /\ Told(j) \subseteq {None}
    BY DEF FeedInv, Deletes
  <2>7. \A m \in out : jb = m.job /\ row = None => m.row = None
    BY <1>5, <1>6 DEF FeedInv, Deletes
  <2>8. ASSUME NEW j \in dropped' PROVE Gone(j) /\ view'[j] = None /\ Told(j)' \subseteq {None}
    <3>0. j \in Jobs
      BY <1>16
    <3>1. CASE j \in dropped
      <4>1. Gone(j) /\ view[j] = None /\ Told(j) \subseteq {None}
        BY <2>6, <3>0, <3>1
      <4>2. Told(j)' \subseteq {None}
        BY <1>13, <4>1
      <4>3. j = jb => row = None
        BY <1>13, <4>1
      <4> QED BY <1>10, <3>0, <4>1, <4>2, <4>3
    <3>2. CASE view[j] # None /\ view'[j] = None
      <4>1. j = jb /\ row = None
        BY <1>10, <3>0, <3>2
      <4>2. Gone(j)
        BY <1>13, <2>4, <3>0, <4>1
      <4>3. Told(j)' \subseteq {None}
        BY <1>13, <2>7, <4>1
      <4> QED BY <3>2, <4>2, <4>3
    <3> QED BY <1>16, <3>1, <3>2
  <2> QED BY <1>1, <1>2, <1>11, <2>1, <2>3, <2>5, <2>8 DEF Deletes
<1>20. Queued'
  BY <1>1, <1>11, <1>12 DEF FeedInv, Queued
<1>21. ShownOrAnnounced'
  <2>1. /\ \A j \in Jobs : \A v \in WhenSent(j) : Right(v, j) \/ Announced(j, lastID)
        /\ \A j \in Jobs : \A v \in WhenBuilt(j) : Right(v, j) \/ \E i \in News(lastID) : Unread(i) /\ log[i].job = j
    BY <1>4 DEF FeedInv, ShownOrAnnounced
  <2>2. \A j \in Jobs : Right(view'[j], j) \/ Announced(j, lastID)
    BY <1>14, <2>1
  <2>3. \A j : /\ Announced(j, cursor)' <=> Announced(j, lastID)
               /\ Announced(j, lastID)' <=> Announced(j, lastID)
    BY <1>1, <1>8 DEF Announced, News, OnList
  <2>4. (\A j \in Jobs : Right(view[j], j) \/ Announced(j, cursor))'
    BY <1>11, <2>2, <2>3
  <2>5. (\A j \in Jobs : \A v \in WhenSent(j) : Right(v, j) \/ Announced(j, lastID))'
    BY <1>11, <1>14, <2>2, <2>3
  <2>6. (\A j \in Jobs : \A v \in WhenBuilt(j) : Right(v, j) \/ \E i \in News(lastID) : Unread(i) /\ log[i].job = j)'
    BY <1>1, <1>11, <1>12, <1>15, <2>1
  <2> QED BY <2>4, <2>5, <2>6 DEF ShownOrAnnounced
<1>22. CountsAnnounced'
  <2>1. News(cursor)' = News(lastID)
    BY <1>1, <1>8 DEF News, OnList
  <2>2. News(lastID)' = News(lastID)
    BY <1>1 DEF News, OnList
  <2> QED BY <1>1, <1>2, <1>3, <1>11, <1>12, <2>1, <2>2 DEF FeedInv, CountsAnnounced
<1>23. WillWake'
  BY <1>1, <1>11, <1>12 DEF FeedInv, WillWake
<1> QED BY <1>17, <1>18, <1>19, <1>20, <1>21, <1>22, <1>23 DEF FeedInv

-----------------------------------------------------------------------------
(* The list of downloads: the writers *)

\* What a writer of job j does to the store: it files an event of the list for
\* j, with the publication to follow, or leaves what has to be shown of j right
\* or pending.
Wrote(j) ==
    /\ UNCHANGED <<setup, hpc, lastID, full, queue, out, tally, cpc, cursor, view, counts, dropped, wire>>
    /\ rows' \in [Jobs -> Shown \cup {None}] /\ log' \in Seq(Entries) /\ wakeup' \in BOOLEAN
    /\ lanes' \in [Jobs -> [Lanes -> {"idle", "event", "publish"}]]
    /\ lookup' \in [Jobs -> {"none", "running", "over"}]
    /\ \A k \in Jobs : k # j => rows'[k] = rows[k] /\ lanes'[k] = lanes[k] /\ lookup'[k] = lookup[k]
    /\ lookup'[j] # "over" => Idle(j, "artwork")'
    /\ Len(log') \in {Len(log), Len(log) + 1}
    /\ \A i \in 1 .. Len(log) : /\ log'[i].job = log[i].job
                                /\ log[i].job # j => log'[i] = log[i]
                                /\ log'[i] = log[i] \/ log'[i].type = "purged"
    /\ \A i \in 1 .. Len(log') : i > Len(log) => log'[i].job = j
    /\ Gone(j) => Gone(j)'
    /\ Gone(j)' => rows'[j] = None
    /\ rows'[j] = None => Gone(j)' \/ (rows[j] = None /\ ~Gone(j) /\ Len(log') = Len(log) /\ \A l \in Lanes : Idle(j, l)')
    /\ \/ /\ \E i \in 1 .. Len(log') : i > Len(log) /\ log'[i].type \in {"milestone", "tombstone"}
          /\ \E l \in Lanes : lanes'[j][l] = "publish"
       \/ /\ \A i \in 1 .. Len(log) : log'[i] = log[i]
          /\ \A i \in 1 .. Len(log') : i > Len(log) => log'[i].type = "detail"
          /\ \A v : Right(v, j) => Right(v, j)'
          /\ Faults = {} => (rows' = rows /\ (Pending(j) => Pending(j)')) \/ Pending(j)'
          /\ \/ wakeup' \/ hpc = "off"
             \/ wakeup' = wakeup /\ \A l \in Lanes : lanes[j][l] = "publish" => lanes'[j][l] = "publish"

\* Whichever it is, the list is told of j and of the others as before.
LEMMA WroteKeeps ==
  ASSUME FeedInv, NEW j \in Jobs, Wrote(j)
  PROVE FeedInv'
<1> DEFINE Files == /\ \E i \in 1 .. Len(log') : i > Len(log) /\ log'[i].type \in {"milestone", "tombstone"}
                    /\ \E l \in Lanes : lanes'[j][l] = "publish"
           Leaves == /\ \A i \in 1 .. Len(log) : log'[i] = log[i]
                     /\ \A i \in 1 .. Len(log') : i > Len(log) => log'[i].type = "detail"
                     /\ \A v : Right(v, j) => Right(v, j)'
                     /\ Faults = {} => (rows' = rows /\ (Pending(j) => Pending(j)')) \/ Pending(j)'
                     /\ \/ wakeup' \/ hpc = "off"
                        \/ wakeup' = wakeup /\ \A l \in Lanes : lanes[j][l] = "publish" => lanes'[j][l] = "publish"
<1>1. /\ setup' = setup /\ hpc' = hpc /\ lastID' = lastID /\ full' = full /\ queue' = queue /\ out' = out
      /\ tally' = tally /\ cpc' = cpc /\ cursor' = cursor /\ view' = view /\ counts' = counts
      /\ dropped' = dropped /\ wire' = wire
  BY DEF Wrote
<1>2. /\ rows' \in [Jobs -> Shown \cup {None}] /\ log' \in Seq(Entries) /\ wakeup' \in BOOLEAN
      /\ lanes' \in [Jobs -> [Lanes -> {"idle", "event", "publish"}]]
      /\ lookup' \in [Jobs -> {"none", "running", "over"}]
      /\ \A k \in Jobs : k # j => rows'[k] = rows[k] /\ lanes'[k] = lanes[k] /\ lookup'[k] = lookup[k]
      /\ lookup'[j] # "over" => Idle(j, "artwork")'
  BY DEF Wrote
<1>3. Len(log') \in {Len(log), Len(log) + 1}
  BY DEF Wrote
<1>4. \A i \in 1 .. Len(log) : /\ log'[i].job = log[i].job
                               /\ log[i].job # j => log'[i] = log[i]
                               /\ log'[i] = log[i] \/ log'[i].type = "purged"
  BY DEF Wrote
<1>5. \A i \in 1 .. Len(log') : i > Len(log) => log'[i].job = j
  BY DEF Wrote
<1>6. (Gone(j) => Gone(j)') /\ (Gone(j)' => rows'[j] = None)
  BY DEF Wrote
<1>7. rows'[j] = None => Gone(j)' \/ (rows[j] = None /\ ~Gone(j) /\ Len(log') = Len(log) /\ \A l \in Lanes : Idle(j, l)')
  BY DEF Wrote
<1>8. Files \/ Leaves
  BY DEF Wrote
<1> HIDE DEF Files, Leaves
<1>9. /\ FeedTyped /\ Len(log) \in Nat /\ Len(log') \in Nat /\ lastID \in 0 .. Len(log) /\ cursor \in 0 .. Len(log)
      /\ queue \subseteq 1 .. Len(log) /\ \A m \in out : m \in Messages /\ m.id \in lastID .. Len(log)
  BY <1>2 DEF FeedInv, FeedTyped, Pipeline
<1>10. Faults' = Faults
  BY <1>1 DEF Faults
<1>11. \A id \in Nat : \A i : /\ i \in News(id) <=> i \in 1 .. Len(log) /\ id < i /\ OnList(i)
                              /\ i \in News(id)' <=> i \in 1 .. Len(log') /\ id < i /\ OnList(i)'
  <2>1. \A id \in Nat : \A i : i \in News(id) <=> i \in 1 .. Len(log) /\ id < i /\ OnList(i)
    BY <1>9, NewsIs
  <2>2. \A id \in Nat : \A i : i \in News(id)' <=> i \in 1 .. Len(log') /\ id < i /\ OnList(i)'
    BY <1>9 DEF News
  <2> QED BY <2>1, <2>2
<1>a. /\ \A id : (id = cursor => News(id)' = News(cursor)') /\ (id = lastID => News(id)' = News(lastID)')
      /\ \A i : i \in News(lastID)' <=> i \in 1 .. Len(log') /\ lastID < i /\ OnList(i)'
      /\ \A i : i \in News(lastID) <=> i \in 1 .. Len(log) /\ lastID < i /\ OnList(i)
  <2>1. \A id : (id = cursor => News(id)' = News(cursor)') /\ (id = lastID => News(id)' = News(lastID)')
    BY <1>1 DEF News
  <2> QED BY <1>9, <1>11, <2>1
<1>12. \A i \in 1 .. Len(log) : i \in 1 .. Len(log')
  BY <1>3, <1>9
<1>13. \A i \in 1 .. Len(log) : /\ OnList(i)' => OnList(i)
                                /\ OnList(i) /\ log[i].job # j => OnList(i)'
  BY <1>4, <1>12 DEF OnList
<1>14. ASSUME Files
       PROVE \E e \in 1 .. Len(log') : /\ e \in Nat /\ e > Len(log) /\ log'[e].job = j
                                       /\ \A id \in 0 .. Len(log) : e \in News(id)'
                                       /\ e \in News(lastID)' /\ e \in News(cursor)'
  <2>1. PICK e \in 1 .. Len(log') : e > Len(log) /\ log'[e].type \in {"milestone", "tombstone"}
    BY <1>14 DEF Files
  <2>2. log'[e].job = j /\ OnList(e)' /\ e \in Nat
    BY <1>5, <1>9, <2>1 DEF OnList
  <2>3. \A id \in 0 .. Len(log) : id \in Nat /\ id < e
    BY <1>9, <2>1, <2>2
  <2>4. \A id \in 0 .. Len(log) : e \in News(id)'
    BY <1>11, <2>1, <2>2, <2>3
  <2>5. e \in News(lastID)' /\ e \in News(cursor)'
    BY <1>9, <1>a, <2>4
  <2> QED BY <2>1, <2>2, <2>4, <2>5
<1>15. ASSUME Leaves PROVE \A id \in Nat : News(id)' = News(id)
  <2>1. \A i \in 1 .. Len(log) : OnList(i)' <=> OnList(i)
    BY <1>12, <1>15 DEF Leaves, OnList
  <2>2. \A i \in 1 .. Len(log') : i > Len(log) => ~OnList(i)'
    BY <1>15 DEF Leaves, OnList
  <2>3. \A i \in 1 .. Len(log') : i > Len(log) \/ i \in 1 .. Len(log)
    BY <1>9
  <2>4. \A id \in Nat : \A i : i \in News(id)' <=> i \in News(id)
    BY <1>11, <1>12, <2>1, <2>2, <2>3
  <2> QED BY <2>4
<1>16. \A i : (Unread(i) <=> i \in News(lastID) /\ \A m \in out : m.id < i)
              /\ (Unread(i)' <=> i \in News(lastID)' /\ \A m \in out : m.id < i)
  BY <1>1 DEF Unread
<1>17. ASSUME NEW e \in Nat, e > Len(log), e \in News(lastID)' PROVE Unread(e)' /\ Beyond(e)'
  <2>1. \A m \in out : m.id < e
    BY <1>9, <1>17
  <2>2. \A k \in queue' : k < e
    BY <1>1, <1>9, <1>17
  <2> QED BY <1>16, <1>17, <2>1, <2>2 DEF Beyond
<1>18. \A i \in News(lastID) : /\ log[i].job # j \/ Leaves => i \in News(lastID)'
                               /\ i \in 1 .. Len(log) /\ log'[i].job = log[i].job
  BY <1>4, <1>9, <1>a, <1>12, <1>13, <1>15
<1>19. ASSUME NEW k \in Jobs, NEW id \in 0 .. Len(log), Announced(k, id) \/ (k = j /\ Files) PROVE Announced(k, id)'
  <2>1. CASE k = j /\ Files
    BY <1>14, <2>1 DEF Announced
  <2>2. CASE ~(k = j /\ Files)
    <3>1. PICK i \in News(id) : log[i].job = k
      BY <1>19, <2>2 DEF Announced
    <3>2. i \in News(id)' /\ log'[i].job = k
      BY <1>4, <1>8, <1>9, <1>11, <1>12, <1>13, <1>15, <2>2, <3>1
    <3> QED BY <3>2 DEF Announced
  <2> QED BY <2>1, <2>2
<1>20. ASSUME NEW k \in Jobs, (\E i \in News(lastID) : Unread(i) /\ log[i].job = k) \/ (k = j /\ Files)
       PROVE \E i \in News(lastID)' : Unread(i)' /\ log'[i].job = k
  <2>1. CASE k = j /\ Files
    BY <1>14, <1>17, <2>1
  <2>2. CASE ~(k = j /\ Files)
    <3>1. PICK i \in News(lastID) : Unread(i) /\ log[i].job = k
      BY <1>20, <2>2
    <3> QED BY <1>8, <1>16, <1>18, <2>2, <3>1
  <2> QED BY <2>1, <2>2
<1>21. \A k \in Jobs : k # j => (Pending(k)' <=> Pending(k)) /\ \A v : Right(v, k)' <=> Right(v, k)
  <2>1. \A k \in Jobs : k # j => (Pending(k)' <=> Pending(k))
    BY <1>2 DEF Pending
  <2> QED BY <1>2, <1>10, <2>1 DEF Right, Is
<1>22. \A k \in Jobs : \A v : Right(v, k) /\ ~(k = j /\ Files) => Right(v, k)'
  BY <1>8, <1>21 DEF Leaves
<1>23. FeedTyped'
  <2>1. lastID \in 0 .. Len(log') /\ cursor \in 0 .. Len(log') /\ queue \subseteq 1 .. Len(log')
    <3>1. \A i \in 0 .. Len(log) : i \in 0 .. Len(log')
      BY <1>3, <1>9
    <3> QED BY <1>9, <1>12, <3>1
  <2> QED BY <1>1, <1>2, <1>9, <2>1 DEF FeedTyped
<1>24. Pipeline'
  <2>1. \A m \in out : m.id \in lastID .. Len(log')
    BY <1>3, <1>9
  <2> QED BY <1>1, <2>1 DEF FeedInv, Pipeline
<1>25. Deletes'
  <2>1. \A k : Told(k)' = Told(k)
    BY <1>1 DEF Told
  <2>2. \A k \in Jobs : k # j => /\ Gone(k)' <=> Gone(k)
                                 /\ \A l \in Lanes : Idle(k, l)' <=> Idle(k, l)
    <3>1. SUFFICES ASSUME NEW k \in Jobs, k # j PROVE Gone(k)' <=> Gone(k)
      BY <1>2 DEF Idle
    <3>2. ASSUME Gone(k)' PROVE Gone(k)
      <4>1. PICK i \in 1 .. Len(log') : log'[i].job = k /\ log'[i].type = "tombstone"
        BY <3>2 DEF Gone
      <4>2. i \in 1 .. Len(log)
        BY <1>5, <1>9, <3>1, <4>1
      <4> QED BY <1>4, <4>1, <4>2 DEF Gone
    <3>3. ASSUME Gone(k) PROVE Gone(k)'
      <4>1. PICK i \in 1 .. Len(log) : log[i].job = k /\ log[i].type = "tombstone"
        BY <3>3 DEF Gone
      <4> QED BY <1>4, <1>12, <3>1, <4>1 DEF Gone
    <3> QED BY <3>2, <3>3
  <2>3. (\A k \in Jobs : Gone(k) => rows[k] = None)'
    BY <1>2, <1>6, <2>2 DEF FeedInv, Deletes
  <2>4. \A i \in 1 .. Len(log) : rows[log[i].job] = None => Gone(log[i].job)
    BY DEF FeedInv, Deletes
  <2>5. ASSUME NEW i \in 1 .. Len(log'), NEW k, k = log'[i].job, rows'[k] = None PROVE Gone(k)'
    <3>1. CASE k = j
      <4>1. SUFFICES ASSUME rows[j] = None, ~Gone(j), Len(log') = Len(log) PROVE FALSE
        BY <1>7, <2>5, <3>1
      <4>2. log[i].job = j /\ i \in 1 .. Len(log)
        BY <1>4, <2>5, <3>1, <4>1
      <4> QED BY <2>4, <4>1, <4>2
    <3>2. CASE k # j
      <4>1. i \in 1 .. Len(log)
        BY <1>5, <1>9, <2>5, <3>2
      <4>2. k = log[i].job /\ log[i] \in Entries
        BY <1>4, <1>9, <2>5, <4>1 DEF FeedTyped
      <4>3. k \in Jobs
        BY <4>2 DEF Entries
      <4>4. rows[k] = None
        BY <1>2, <2>5, <3>2, <4>3
      <4>5. Gone(k)
        BY <2>4, <4>1, <4>2, <4>4
      <4> QED BY <2>2, <3>2, <4>3, <4>5
    <3> QED BY <3>1, <3>2
  <2>5a. (\A i \in 1 .. Len(log) : rows[log[i].job] = None => Gone(log[i].job))'
    <3>1. \A i \in 1 .. Len(log') : \A k : k = log'[i].job /\ rows'[k] = None
             => \E n \in 1 .. Len(log') : log'[n].job = k /\ log'[n].type = "tombstone"
      BY <2>5 DEF Gone
    <3> QED BY <3>1 DEF Gone
  <2>6. \A k \in Jobs : rows[k] = None /\ ~Gone(k) => view[k] = None /\ Told(k) = {} /\ \A l \in Lanes : Idle(k, l)
    BY DEF FeedInv, Deletes
  <2>7. (\A k \in Jobs : rows[k] = None /\ ~Gone(k) => view[k] = None /\ Told(k) = {} /\ \A l \in Lanes : Idle(k, l))'
    <3>1. SUFFICES ASSUME NEW k \in Jobs, rows'[k] = None, ~Gone(k)'
                   PROVE view[k] = None /\ Told(k) = {} /\ \A l \in Lanes : Idle(k, l)'
      BY <1>1, <2>1
    <3>2. CASE k = j
      BY <1>7, <2>6, <3>1, <3>2
    <3>3. CASE k # j
      BY <1>2, <2>2, <2>6, <3>1, <3>3
    <3> QED BY <3>2, <3>3
  <2>8. \A k \in Jobs : Gone(k) => Gone(k)'
    BY <1>6, <2>2
  <2>9. \A k \in Jobs : None \in Told(k) => Gone(k)
    BY DEF FeedInv, Deletes
  <2>10. \A k \in dropped : k \in Jobs /\ Gone(k) /\ view[k] = None /\ Told(k) \subseteq {None}
    BY <1>9 DEF FeedInv, Deletes, FeedTyped
  <2>11. \A w \in wire, m \in out : w.msg.job = m.job /\ w.msg.row = None => m.row = None
    BY DEF FeedInv, Deletes
  <2> QED BY <1>1, <2>1, <2>3, <2>5a, <2>7, <2>8, <2>9, <2>10, <2>11 DEF Deletes
<1>26. Queued'
  <2>1. ASSUME NEW i \in News(lastID)', Unread(i)', ~Beyond(i)'
        PROVE \E k \in queue : i <= k /\ log'[k].job = log'[i].job
    <3>1. i \in 1 .. Len(log') /\ i \in Nat /\ lastID < i /\ OnList(i)'
      BY <1>9, <1>a, <2>1
    <3>2. i \in 1 .. Len(log)
      <4>1. ~(i > Len(log))
        BY <1>17, <2>1, <3>1
      <4> QED BY <1>9, <3>1, <4>1
    <3>3. i \in News(lastID)
      BY <1>9, <1>a, <1>13, <3>1, <3>2
    <3>4. Unread(i) /\ ~Beyond(i)
      BY <1>1, <1>16, <2>1, <3>3 DEF Beyond
    <3>5. PICK k \in queue : i <= k /\ log[k].job = log[i].job
      BY <3>3, <3>4 DEF FeedInv, Queued
    <3> QED BY <1>4, <1>9, <3>2, <3>5
  <2>2. ASSUME NEW k \in queue PROVE \E i \in News(lastID)' : k <= i /\ log'[k].job = log'[i].job
    <3>1. PICK i \in News(lastID) : k <= i /\ log[k].job = log[i].job
      BY DEF FeedInv, Queued
    <3>2. k \in 1 .. Len(log) /\ log'[k].job = log[k].job
      BY <1>4, <1>9
    <3>3. CASE log[i].job = j /\ Files
      <4>1. PICK e \in 1 .. Len(log') : e \in Nat /\ e > Len(log) /\ log'[e].job = j /\ e \in News(lastID)'
        BY <1>14, <3>3
      <4>2. k <= e
        BY <1>9, <3>2, <4>1
      <4> QED BY <3>1, <3>2, <3>3, <4>1, <4>2
    <3>4. CASE ~(log[i].job = j /\ Files)
      BY <1>8, <1>18, <3>1, <3>2, <3>4
    <3> QED BY <3>3, <3>4
  <2> QED BY <1>1, <2>1, <2>2 DEF Queued
<1>27. ShownOrAnnounced'
  <2>1. \A k : WhenSent(k)' = WhenSent(k) /\ WhenBuilt(k)' = WhenBuilt(k)
    BY <1>1 DEF WhenSent, WhenBuilt
  <2>2. ASSUME NEW k \in Jobs, NEW v, NEW id \in 0 .. Len(log), Right(v, k) \/ Announced(k, id)
        PROVE Right(v, k)' \/ Announced(k, id)'
    BY <1>19, <1>22, <2>2
  <2>3. ASSUME NEW k \in Jobs, NEW v,
               Right(v, k) \/ \E i \in News(lastID) : Unread(i) /\ log[i].job = k
        PROVE Right(v, k)' \/ \E i \in News(lastID)' : Unread(i)' /\ log'[i].job = k
    BY <1>20, <1>22, <2>3
  <2>4. \A k : /\ Announced(k, cursor)' <=> \E i \in News(cursor)' : log'[i].job = k
               /\ Announced(k, lastID)' <=> \E i \in News(lastID)' : log'[i].job = k
    BY DEF Announced
  <2>5. cpc \in {"counts", "open", "live"} => \A k \in Jobs : Right(view[k], k)' \/ Announced(k, cursor)'
    <3>1. cpc \in {"counts", "open", "live"} => \A k \in Jobs : Right(view[k], k) \/ Announced(k, cursor)
      BY DEF FeedInv, ShownOrAnnounced
    <3>2. \A k \in Jobs : Announced(k, cursor) \/ (k = j /\ Files) => Announced(k, cursor)'
      <4>1. PICK id : id = cursor
        OBVIOUS
      <4>2. \A k \in Jobs : Announced(k, id) \/ (k = j /\ Files) => Announced(k, id)'
        BY <1>9, <1>19, <4>1
      <4>3. \A k : Announced(k, id)' <=> Announced(k, cursor)'
        BY <1>1, <4>1 DEF Announced, News
      <4>4. \A k : Announced(k, id) <=> Announced(k, cursor)
        BY <4>1
      <4> QED BY <4>2, <4>3, <4>4
    <3>3. \A k \in Jobs : Right(view[k], k) /\ ~(k = j /\ Files) => Right(view[k], k)'
      <4>1. SUFFICES ASSUME NEW k \in Jobs, Right(view[k], k), ~(k = j /\ Files) PROVE Right(view[k], k)'
        OBVIOUS
      <4>2. PICK v : v = view[k]
        OBVIOUS
      <4>3. Right(v, k)
        BY <4>1, <4>2
      <4>4. Right(v, k)'
        BY <1>22, <4>1, <4>3
      <4> QED BY <1>1, <4>2, <4>4 DEF Right
    <3> QED BY <3>1, <3>2, <3>3
  <2>6. hpc # "off" => \A k \in Jobs : \A v \in WhenSent(k) : Right(v, k)' \/ Announced(k, lastID)'
    <3>1. hpc # "off" => \A k \in Jobs : \A v \in WhenSent(k) : Right(v, k) \/ Announced(k, lastID)
      BY DEF FeedInv, ShownOrAnnounced
    <3>2. \A k \in Jobs : Announced(k, lastID) \/ (k = j /\ Files) => Announced(k, lastID)'
      <4>1. PICK id : id = lastID
        OBVIOUS
      <4>2. \A k \in Jobs : Announced(k, id) \/ (k = j /\ Files) => Announced(k, id)'
        BY <1>9, <1>19, <4>1
      <4>3. \A k : Announced(k, id)' <=> Announced(k, lastID)'
        BY <1>1, <4>1 DEF Announced, News
      <4>4. \A k : Announced(k, id) <=> Announced(k, lastID)
        BY <4>1
      <4> QED BY <4>2, <4>3, <4>4
    <3> QED BY <1>22, <3>1, <3>2
  <2>7. hpc # "off" => \A k \in Jobs : \A v \in WhenBuilt(k) :
           Right(v, k)' \/ \E i \in News(lastID)' : Unread(i)' /\ log'[i].job = k
    BY <2>3 DEF FeedInv, ShownOrAnnounced
  <2> QED BY <1>1, <2>1, <2>5, <2>6, <2>7 DEF ShownOrAnnounced
<1>28. CountsAnnounced'
  <2>1. CASE Files
    <3>1. News(cursor)' # {} /\ News(lastID)' # {} /\ \E i \in News(lastID)' : Beyond(i)'
      BY <1>14, <1>17, <2>1
    <3> QED BY <3>1 DEF CountsAnnounced
  <2>2. CASE Leaves
    <3>1. News(cursor)' = News(cursor) /\ News(lastID)' = News(lastID)
      BY <1>9, <1>a, <1>15, <2>2
    <3>2. \A i : Beyond(i)' <=> Beyond(i)
      BY <1>1, <1>16, <3>1 DEF Beyond
    <3>3. rows' = rows => CountsNow' = CountsNow
      BY DEF CountsNow
    <3>4. Faults = {} => (CountsNow' = CountsNow /\ (SomePending => SomePending')) \/ SomePending'
      BY <1>21, <2>2, <3>3 DEF Leaves, SomePending
    <3> QED BY <1>1, <1>10, <3>1, <3>2, <3>4 DEF FeedInv, CountsAnnounced
  <2> QED BY <1>8, <2>1, <2>2
<1>29. WillWake'
  <2>1. \A k \in Jobs : lookup'[k] # "over" => Idle(k, "artwork")'
    BY <1>2 DEF FeedInv, WillWake, Idle
  <2>2. Faults = {} /\ hpc = "wait" => ~full
    BY DEF FeedInv, WillWake
  <2>3. Faults = {} /\ hpc \notin {"off", "page"} /\ (\E i \in News(lastID)' : Beyond(i)') =>
          full \/ wakeup' \/ \E k \in Jobs, l \in Lanes : lanes'[k][l] = "publish"
    <3>1. CASE Files
      BY <3>1 DEF Files
    <3>2. CASE Leaves
      <4>1. News(lastID)' = News(lastID)
        BY <1>9, <1>a, <1>15, <3>2
      <4>2. \A i : Beyond(i)' <=> Beyond(i)
        BY <1>1, <1>16, <4>1 DEF Beyond
      <4>3. Faults = {} /\ hpc \notin {"off", "page"} /\ (\E i \in News(lastID) : Beyond(i)) =>
              full \/ wakeup \/ \E k \in Jobs, l \in Lanes : lanes[k][l] = "publish"
        BY DEF FeedInv, WillWake
      <4>4. \/ wakeup' \/ hpc = "off"
            \/ wakeup' = wakeup /\ \A l \in Lanes : lanes[j][l] = "publish" => lanes'[j][l] = "publish"
        BY <3>2 DEF Leaves
      <4>5. wakeup' = wakeup /\ (\A l \in Lanes : lanes[j][l] = "publish" => lanes'[j][l] = "publish")
              => ((\E k \in Jobs, l \in Lanes : lanes[k][l] = "publish")
                    => \E k \in Jobs, l \in Lanes : lanes'[k][l] = "publish")
        BY <1>2
      <4> QED BY <4>1, <4>2, <4>3, <4>4, <4>5
    <3> QED BY <1>8, <3>1, <3>2
  <2> QED BY <1>1, <1>10, <2>1, <2>2, <2>3 DEF WillWake
<1> QED BY <1>23, <1>24, <1>25, <1>26, <1>27, <1>28, <1>29 DEF FeedInv

LEMMA EntryTyped == ASSUME FeedTyped, NEW j \in Jobs, NEW t \in {"milestone", "detail", "tombstone", "purged"},
                           log' = Append(log, [job |-> j, type |-> t])
  PROVE /\ log' \in Seq(Entries) /\ Len(log) \in Nat /\ Len(log') = Len(log) + 1
        /\ \A i \in 1 .. Len(log) : log'[i] = log[i]
        /\ log'[Len(log) + 1] = [job |-> j, type |-> t]
<1>1. log \in Seq(Entries)
  BY DEF FeedTyped
<1>2. [job |-> j, type |-> t] \in Entries
  BY DEF Entries
<1> QED BY <1>1, <1>2

\* The row changes and the event that says so is still to be filed.
LEMMA ChangeWrites ==
  ASSUME FeedInv, NEW j \in Jobs, NEW row \in Shown, NEW lane \in Lanes,
         UNCHANGED <<setup, hpc, lastID, full, queue, out, tally, cpc, cursor, view, counts, dropped, wire, log, wakeup>>,
         rows' = [rows EXCEPT ![j] = row], lanes' = [lanes EXCEPT ![j][lane] = "event"], Idle(j, lane),
         lookup' \in [Jobs -> {"none", "running", "over"}], \A k \in Jobs : k # j => lookup'[k] = lookup[k],
         lookup'[j] # "over" => lookup[j] # "over" /\ lane # "artwork", ~Gone(j),
         row.status # "ended" \/ (rows[j].status = row.status /\ rows[j].items = row.items)
  PROVE Wrote(j)
<1>1. FeedTyped
  BY DEF FeedInv
<1>2. /\ rows' \in [Jobs -> Shown \cup {None}] /\ rows'[j] = row
      /\ \A k \in Jobs : k # j => rows'[k] = rows[k]
  BY <1>1 DEF FeedTyped
<1>3. /\ lanes' \in [Jobs -> [Lanes -> {"idle", "event", "publish"}]]
      /\ lanes'[j][lane] = "event" /\ \A l \in Lanes : l # lane => lanes'[j][l] = lanes[j][l]
      /\ \A k \in Jobs : k # j => lanes'[k] = lanes[k]
  BY <1>1 DEF FeedTyped
<1>4. row # None
  BY DEF Shown, Status, None
<1>5. Pending(j)'
  BY <1>3 DEF Pending
<1>6. \A v : Right(v, j) => Right(v, j)'
  BY <1>2, <1>4, <1>5 DEF Right, Is
<1>7. ~Gone(j)'
  BY DEF Gone
<1>8. lookup'[j] # "over" => Idle(j, "artwork")'
  <2>1. lookup[j] # "over" => Idle(j, "artwork")
    BY DEF FeedInv, WillWake
  <2> QED BY <1>3, <2>1 DEF Idle, Lanes
<1>9. \A l \in Lanes : lanes[j][l] = "publish" => lanes'[j][l] = "publish"
  BY <1>3 DEF Idle
<1>10. Len(log) \in Nat /\ log \in Seq(Entries) /\ wakeup \in BOOLEAN
  BY <1>1 DEF FeedTyped
<1> QED BY <1>2, <1>3, <1>4, <1>5, <1>6, <1>7, <1>8, <1>9, <1>10 DEF Wrote

\* A milestone is filed: of the change that was pending, or with the change.
LEMMA MilestoneWrites ==
  ASSUME FeedInv, NEW j \in Jobs, NEW row \in Shown \cup {None}, NEW lane \in Lanes,
         UNCHANGED <<setup, hpc, lastID, full, queue, out, tally, cpc, cursor, view, counts, dropped, wire, lookup, wakeup>>,
         rows' = [rows EXCEPT ![j] = row], lanes' = [lanes EXCEPT ![j][lane] = "publish"],
         log' = Append(log, [job |-> j, type |-> "milestone"]),
         lane = "artwork" => lookup[j] = "over",
         row = None => rows[j] = None /\ Gone(j), rows[j] = None => row = None
  PROVE Wrote(j)
<1>1. FeedTyped
  BY DEF FeedInv
<1>2. /\ rows' \in [Jobs -> Shown \cup {None}] /\ rows'[j] = row
      /\ \A k \in Jobs : k # j => rows'[k] = rows[k]
  BY <1>1 DEF FeedTyped
<1>3. /\ lanes' \in [Jobs -> [Lanes -> {"idle", "event", "publish"}]]
      /\ lanes'[j][lane] = "publish" /\ \A l \in Lanes : l # lane => lanes'[j][l] = lanes[j][l]
      /\ \A k \in Jobs : k # j => lanes'[k] = lanes[k]
  BY <1>1 DEF FeedTyped
<1>4. /\ log' \in Seq(Entries) /\ Len(log) \in Nat /\ Len(log') = Len(log) + 1
      /\ \A i \in 1 .. Len(log) : log'[i] = log[i]
      /\ log'[Len(log) + 1] = [job |-> j, type |-> "milestone"]
  BY <1>1, EntryTyped
<1>5. \A i \in 1 .. Len(log') : i \in 1 .. Len(log) \/ i = Len(log) + 1
  BY <1>4
<1>6. /\ Len(log) + 1 \in 1 .. Len(log') /\ Len(log) + 1 > Len(log)
      /\ \A i \in 1 .. Len(log) : ~(i > Len(log))
  BY <1>4
<1>7. Gone(j)' <=> Gone(j)
  <2>1. ASSUME Gone(j) PROVE Gone(j)'
    <3>1. \A i \in 1 .. Len(log) : i \in 1 .. Len(log')
      BY <1>4
    <3> QED BY <1>4, <2>1, <3>1 DEF Gone
  <2>2. ASSUME Gone(j)' PROVE Gone(j)
    <3>1. PICK i \in 1 .. Len(log') : log'[i].job = j /\ log'[i].type = "tombstone"
      BY <2>2 DEF Gone
    <3>2. i \in 1 .. Len(log)
      BY <1>4, <1>5, <3>1
    <3> QED BY <1>4, <3>1, <3>2 DEF Gone
  <2> QED BY <2>1, <2>2
<1>8. lookup'[j] # "over" => Idle(j, "artwork")'
  <2>1. lookup[j] # "over" => Idle(j, "artwork")
    BY DEF FeedInv, WillWake
  <2> QED BY <1>3, <2>1 DEF Idle, Lanes
<1>9. Gone(j) => row = None
  BY DEF FeedInv, Deletes
<1>10. wakeup \in BOOLEAN /\ lookup \in [Jobs -> {"none", "running", "over"}]
  BY <1>1 DEF FeedTyped
<1>11. \E i \in 1 .. Len(log') : i > Len(log) /\ log'[i].type \in {"milestone", "tombstone"}
  BY <1>4, <1>6
<1>12. \A i \in 1 .. Len(log') : i > Len(log) => log'[i].job = j
  BY <1>4, <1>5, <1>6
<1> QED BY <1>2, <1>3, <1>4, <1>7, <1>8, <1>9, <1>10, <1>11, <1>12 DEF Wrote

LEMMA ShownIs == ASSUME NEW r \in Shown
  PROVE /\ \A s \in Status : [r EXCEPT !.status = s] \in Shown /\ [r EXCEPT !.status = s].status = s
                             /\ [r EXCEPT !.status = s].items = r.items
        /\ \A n \in Nat : [r EXCEPT !.items = n] \in Shown /\ [r EXCEPT !.items = n].status = r.status
        /\ [r EXCEPT !.art = TRUE] \in Shown /\ [r EXCEPT !.art = TRUE].status = r.status
           /\ [r EXCEPT !.art = TRUE].items = r.items
        /\ r.items \in Nat /\ r.status \in Status /\ r # None
<1>1. \A s \in Status : [r EXCEPT !.status = s] \in Shown /\ [r EXCEPT !.status = s].status = s
                         /\ [r EXCEPT !.status = s].items = r.items
  BY DEF Shown
<1>2. \A n \in Nat : [r EXCEPT !.items = n] \in Shown /\ [r EXCEPT !.items = n].status = r.status
  BY DEF Shown
<1>3. [r EXCEPT !.art = TRUE] \in Shown /\ [r EXCEPT !.art = TRUE].status = r.status
      /\ [r EXCEPT !.art = TRUE].items = r.items
  BY DEF Shown
<1>4. r.items \in Nat /\ r.status \in Status /\ r # None
  BY DEF Shown, Status, None
<1> QED BY <1>1, <1>2, <1>3, <1>4

\* A job that has a row was not deleted.
LEMMA RowIs == ASSUME FeedInv, NEW j \in Jobs, rows[j] # None PROVE rows[j] \in Shown /\ ~Gone(j)
BY DEF FeedInv, FeedTyped, Deletes

LEMMA ChangesWrite ==
  ASSUME FeedInv, NEW j \in Jobs, Submit(j) \/ Claim(j) \/ ItemEnds(j) \/ Retry(j) \/ ArtworkFound(j)
  PROVE Wrote(j)
<1>1. /\ UNCHANGED <<setup, hpc, lastID, full, queue, out, tally, cpc, cursor, view, counts, dropped, wire, log, wakeup>>
  BY DEF Submit, Claim, ItemEnds, Retry, ArtworkFound, StoreStep, handler, client
<1>2. lookup \in [Jobs -> {"none", "running", "over"}] /\ FeedTyped
  BY DEF FeedInv, FeedTyped
<1>3. "admission" \in Lanes /\ "run" \in Lanes /\ "artwork" \in Lanes
  BY DEF Lanes
<1>4. CASE Submit(j)
  <2>1. PICK row : row = [status |-> "queued", items |-> 0, art |-> FALSE]
    OBVIOUS
  <2>2. row \in Shown /\ row.status = "queued"
    BY <2>1 DEF Shown, Status
  <2>3. /\ rows' = [rows EXCEPT ![j] = row] /\ lanes' = [lanes EXCEPT ![j]["admission"] = "event"] /\ lookup' = lookup
        /\ Idle(j, "admission")
    BY <1>3, <1>4, <2>1 DEF Submit, Change, Owes
  <2>4. ~Gone(j)
    <3>1. \A i \in DOMAIN log : log[i].job # j
      BY <1>4 DEF Submit
    <3>2. DOMAIN log = 1 .. Len(log)
      BY <1>2 DEF FeedTyped
    <3> QED BY <3>1, <3>2 DEF Gone
  <2> QED BY <1>1, <1>2, <1>3, <2>2, <2>3, <2>4, ChangeWrites
<1>5. CASE Claim(j)
  <2>1. PICK row : row = [rows[j] EXCEPT !.status = "running"]
    OBVIOUS
  <2>2. rows[j] # None
    BY <1>5 DEF Claim, Is, None
  <2>3. rows[j] \in Shown /\ ~Gone(j)
    BY <2>2, RowIs
  <2>4. row \in Shown /\ row.status = "running"
    BY <2>1, <2>3, ShownIs DEF Status
  <2>5. /\ rows' = [rows EXCEPT ![j] = row] /\ lanes' = [lanes EXCEPT ![j]["run"] = "event"]
        /\ lookup' = [lookup EXCEPT ![j] = IF @ = "none" /\ j \in Artwork THEN "running" ELSE @] /\ Idle(j, "run")
    BY <1>5, <2>1 DEF Claim, Change, Owes
  <2>6. /\ lookup' \in [Jobs -> {"none", "running", "over"}] /\ \A k \in Jobs : k # j => lookup'[k] = lookup[k]
        /\ lookup'[j] # "over" => lookup[j] # "over"
    BY <1>2, <2>5
  <2> QED BY <1>1, <1>3, <2>3, <2>4, <2>5, <2>6, ChangeWrites
<1>6. CASE ItemEnds(j)
  <2>1. PICK row : row = [rows[j] EXCEPT !.items = rows[j].items + 1]
    OBVIOUS
  <2>2. rows[j] # None /\ rows[j].status = "running"
    BY <1>6 DEF ItemEnds, Is, None
  <2>3. rows[j] \in Shown /\ ~Gone(j)
    BY <2>2, RowIs
  <2>4. row \in Shown /\ row.status = "running"
    <3>1. rows[j].items + 1 \in Nat
      BY <2>3 DEF Shown
    <3> QED BY <2>1, <2>2, <2>3, <3>1, ShownIs
  <2>5. /\ rows' = [rows EXCEPT ![j] = row] /\ lanes' = [lanes EXCEPT ![j]["run"] = "event"] /\ lookup' = lookup
        /\ Idle(j, "run")
    BY <1>6, <2>1 DEF ItemEnds, Change, Owes
  <2> QED BY <1>1, <1>2, <1>3, <2>3, <2>4, <2>5, ChangeWrites
<1>7. CASE Retry(j)
  <2>1. PICK row : row = [rows[j] EXCEPT !.status = "queued"]
    OBVIOUS
  <2>2. rows[j] # None
    BY <1>7 DEF Retry, Is, None
  <2>3. rows[j] \in Shown /\ ~Gone(j)
    BY <2>2, RowIs
  <2>4. row \in Shown /\ row.status = "queued"
    BY <2>1, <2>3, ShownIs DEF Status
  <2>5. /\ rows' = [rows EXCEPT ![j] = row] /\ lanes' = [lanes EXCEPT ![j]["admission"] = "event"] /\ lookup' = lookup
        /\ Idle(j, "admission")
    BY <1>7, <2>1 DEF Retry, Change, Owes
  <2> QED BY <1>1, <1>2, <1>3, <2>3, <2>4, <2>5, ChangeWrites
<1>8. CASE ArtworkFound(j)
  <2>1. PICK row : row = [rows[j] EXCEPT !.art = TRUE]
    OBVIOUS
  <2>2. rows[j] # None /\ lookup[j] = "running"
    BY <1>8 DEF ArtworkFound
  <2>3. rows[j] \in Shown /\ ~Gone(j)
    BY <2>2, RowIs
  <2>4. row \in Shown /\ row.status = rows[j].status /\ row.items = rows[j].items
    BY <2>1, <2>3, ShownIs
  <2>5. /\ rows' = [rows EXCEPT ![j] = row] /\ lanes' = [lanes EXCEPT ![j]["artwork"] = "event"]
        /\ lookup' = [lookup EXCEPT ![j] = "over"]
    BY <1>8, <2>1 DEF ArtworkFound, Change, Owes
  <2>6. /\ lookup' \in [Jobs -> {"none", "running", "over"}] /\ \A k \in Jobs : k # j => lookup'[k] = lookup[k]
        /\ lookup'[j] = "over"
    BY <1>2, <2>5
  <2>7. Idle(j, "artwork")
    BY <2>2 DEF FeedInv, WillWake
  <2> QED BY <1>1, <1>3, <2>3, <2>4, <2>5, <2>6, <2>7, ChangeWrites
<1> QED BY <1>4, <1>5, <1>6, <1>7, <1>8

LEMMA FilingWrites ==
  ASSUME FeedInv, NEW j \in Jobs, Finalize(j) \/ \E l \in Lanes : FileEvent(j, l)
  PROVE Wrote(j)
<1>1. /\ UNCHANGED <<setup, hpc, lastID, full, queue, out, tally, cpc, cursor, view, counts, dropped, wire, lookup, wakeup>>
      /\ log' = Append(log, [job |-> j, type |-> "milestone"])
  BY DEF Finalize, FileEvent, Append1, StoreStep, handler, client
<1>2. CASE Finalize(j)
  <2>1. PICK row : row = [rows[j] EXCEPT !.status = "ended"]
    OBVIOUS
  <2>2. rows[j] # None
    BY <1>2 DEF Finalize
  <2>3. row \in Shown /\ row # None
    BY <2>1, <2>2, RowIs, ShownIs DEF Status
  <2>4. rows' = [rows EXCEPT ![j] = row] /\ lanes' = [lanes EXCEPT ![j]["run"] = "publish"] /\ "run" \in Lanes
    BY <1>2, <2>1 DEF Finalize, Change, Owes, Lanes
  <2> QED BY <1>1, <2>2, <2>3, <2>4, MilestoneWrites
<1>3. ASSUME NEW l \in Lanes, FileEvent(j, l) PROVE Wrote(j)
  <2>1. rows' = rows /\ lanes' = [lanes EXCEPT ![j][l] = "publish"] /\ lanes[j][l] = "event"
    BY <1>3 DEF FileEvent, Owes
  <2>2. PICK row : row = rows[j]
    OBVIOUS
  <2>3. row \in Shown \cup {None} /\ rows' = [rows EXCEPT ![j] = row]
    BY <2>1, <2>2 DEF FeedInv, FeedTyped
  <2>4. row = None => Gone(j)
    BY <1>3, <2>1, <2>2 DEF FeedInv, Deletes, Idle
  <2>5. l = "artwork" => lookup[j] = "over"
    BY <2>1 DEF FeedInv, WillWake, Idle
  <2> QED BY <1>1, <2>1, <2>2, <2>3, <2>4, <2>5, MilestoneWrites
<1> QED BY <1>2, <1>3

LEMMA DeleteWrites == ASSUME FeedInv, NEW j \in Jobs, Delete(j) PROVE Wrote(j)
<1>1. /\ UNCHANGED <<setup, hpc, lastID, full, queue, out, tally, cpc, cursor, view, counts, dropped, wire, lookup, wakeup>>
      /\ rows' = [rows EXCEPT ![j] = None] /\ lanes' = [lanes EXCEPT ![j]["run"] = "publish"]
  BY DEF Delete, StoreStep, handler, client, Change, Owes
<1>2. PICK kept : /\ kept = [i \in DOMAIN log |-> IF log[i].job = j THEN [log[i] EXCEPT !.type = "purged"] ELSE log[i]]
                  /\ log' = Append(kept, [job |-> j, type |-> "tombstone"])
  BY DEF Delete
<1>3. FeedTyped /\ log \in Seq(Entries) /\ Len(log) \in Nat /\ DOMAIN log = 1 .. Len(log)
  BY DEF FeedInv, FeedTyped
<1>4. \A i \in 1 .. Len(log) : /\ kept[i] \in Entries /\ kept[i].job = log[i].job
                               /\ log[i].job # j => kept[i] = log[i]
                               /\ log[i].job = j => kept[i].type = "purged"
  <2>1. SUFFICES ASSUME NEW i \in 1 .. Len(log)
                 PROVE /\ kept[i] \in Entries /\ kept[i].job = log[i].job
                       /\ log[i].job # j => kept[i] = log[i]
                       /\ log[i].job = j => kept[i].type = "purged"
    OBVIOUS
  <2>2. log[i] \in Entries /\ kept[i] = IF log[i].job = j THEN [log[i] EXCEPT !.type = "purged"] ELSE log[i]
    BY <1>2, <1>3
  <2> QED BY <2>2 DEF Entries
<1>5. kept \in Seq(Entries) /\ Len(kept) = Len(log)
  <2>1. kept \in [1 .. Len(log) -> Entries]
    BY <1>2, <1>3, <1>4
  <2> QED BY <1>3, <2>1
<1>6. [job |-> j, type |-> "tombstone"] \in Entries
  BY DEF Entries
<1>7. /\ log' \in Seq(Entries) /\ Len(log') = Len(log) + 1
      /\ \A i \in 1 .. Len(log) : log'[i] = kept[i]
      /\ log'[Len(log) + 1] = [job |-> j, type |-> "tombstone"]
  BY <1>2, <1>3, <1>5, <1>6
<1>8. /\ rows' \in [Jobs -> Shown \cup {None}] /\ rows'[j] = None
      /\ \A k \in Jobs : k # j => rows'[k] = rows[k]
  BY <1>1, <1>3 DEF FeedTyped
<1>9. /\ lanes' \in [Jobs -> [Lanes -> {"idle", "event", "publish"}]]
      /\ lanes'[j]["run"] = "publish" /\ "run" \in Lanes
      /\ lanes'[j]["artwork"] = lanes[j]["artwork"]
      /\ \A k \in Jobs : k # j => lanes'[k] = lanes[k]
  BY <1>1, <1>3 DEF FeedTyped, Lanes
<1>10. lookup'[j] # "over" => Idle(j, "artwork")'
  BY <1>1, <1>9 DEF FeedInv, WillWake, Idle
<1>11. Len(log) + 1 \in 1 .. Len(log') /\ Len(log) + 1 > Len(log)
  BY <1>3, <1>7
<1>12. Gone(j)'
  BY <1>7, <1>11 DEF Gone
<1>13. \E i \in 1 .. Len(log') : i > Len(log) /\ log'[i].type \in {"milestone", "tombstone"}
  BY <1>7, <1>11
<1>14. \A i \in 1 .. Len(log') : i > Len(log) => log'[i].job = j
  <2>1. \A i \in 1 .. Len(log') : i > Len(log) => i = Len(log) + 1
    BY <1>3, <1>7
  <2> QED BY <1>7, <2>1
<1>15. wakeup \in BOOLEAN /\ lookup \in [Jobs -> {"none", "running", "over"}]
  BY <1>3 DEF FeedTyped
<1> QED BY <1>1, <1>4, <1>7, <1>8, <1>9, <1>10, <1>12, <1>13, <1>14, <1>15 DEF Wrote

LEMMA DetailWrites == ASSUME FeedInv, NEW j \in Jobs, Detail(j) PROVE Wrote(j)
<1>1. /\ UNCHANGED <<setup, hpc, lastID, full, queue, out, tally, cpc, cursor, view, counts, dropped, wire, lookup, wakeup,
                     rows, lanes>>
      /\ log' = Append(log, [job |-> j, type |-> "detail"]) /\ rows[j].status = "running"
  BY DEF Detail, StoreStep, handler, client, Append1, Is
<1>2. FeedTyped
  BY DEF FeedInv
<1>3. /\ log' \in Seq(Entries) /\ Len(log) \in Nat /\ Len(log') = Len(log) + 1
      /\ \A i \in 1 .. Len(log) : log'[i] = log[i]
      /\ log'[Len(log) + 1] = [job |-> j, type |-> "detail"]
  BY <1>1, <1>2, EntryTyped
<1>4. \A i \in 1 .. Len(log') : i > Len(log) => log'[i].job = j /\ log'[i].type = "detail"
  <2>1. \A i \in 1 .. Len(log') : i > Len(log) => i = Len(log) + 1
    BY <1>3
  <2> QED BY <1>3, <2>1
<1>5. rows[j] # None /\ ~Gone(j)
  <2>1. rows[j] # None
    BY <1>1 DEF None
  <2> QED BY <2>1, RowIs
<1>6. ~Gone(j)'
  <2>1. \A i \in 1 .. Len(log') : i > Len(log) \/ i \in 1 .. Len(log)
    BY <1>3
  <2> QED BY <1>3, <1>4, <1>5, <2>1 DEF Gone
<1>7. (Pending(j)' <=> Pending(j)) /\ \A v : Right(v, j) => Right(v, j)'
  BY <1>1 DEF Pending, Right, Is, Faults
<1>8. lookup'[j] # "over" => Idle(j, "artwork")'
  BY <1>1 DEF FeedInv, WillWake, Idle
<1>9. /\ rows \in [Jobs -> Shown \cup {None}] /\ lanes \in [Jobs -> [Lanes -> {"idle", "event", "publish"}]]
      /\ wakeup \in BOOLEAN /\ lookup \in [Jobs -> {"none", "running", "over"}]
  BY <1>2 DEF FeedTyped
<1> QED BY <1>1, <1>3, <1>4, <1>5, <1>6, <1>7, <1>8, <1>9 DEF Wrote

LEMMA LanesWrite ==
  ASSUME FeedInv, NEW j \in Jobs, ArtworkNone(j) \/ \E l \in Lanes : LoseEvent(j, l) \/ Publish(j, l)
  PROVE Wrote(j)
<1>1. /\ UNCHANGED <<setup, hpc, lastID, full, queue, out, tally, cpc, cursor, view, counts, dropped, wire, rows, log>>
  BY DEF ArtworkNone, LoseEvent, Publish, StoreStep, handler, client
<1>2. /\ rows \in [Jobs -> Shown \cup {None}] /\ lanes \in [Jobs -> [Lanes -> {"idle", "event", "publish"}]]
      /\ wakeup \in BOOLEAN /\ lookup \in [Jobs -> {"none", "running", "over"}]
      /\ log \in Seq(Entries) /\ Len(log) \in Nat
  BY DEF FeedInv, FeedTyped
<1>3. \A i \in 1 .. Len(log) : ~(i > Len(log))
  BY <1>2
<1>4. (Gone(j)' <=> Gone(j)) /\ (Gone(j) => rows[j] = None)
  BY <1>1 DEF Gone, FeedInv, Deletes
<1>5. rows[j] = None => Gone(j) \/ \A l \in Lanes : Idle(j, l)
  BY DEF FeedInv, Deletes
<1>6. lookup[j] # "over" => Idle(j, "artwork")
  BY DEF FeedInv, WillWake
<1>7. CASE ArtworkNone(j)
  <2>1. lanes' = lanes /\ wakeup' = wakeup /\ lookup' = [lookup EXCEPT ![j] = "over"]
    BY <1>7 DEF ArtworkNone, StoreStep
  <2>2. /\ lookup' \in [Jobs -> {"none", "running", "over"}] /\ lookup'[j] = "over"
        /\ \A k \in Jobs : k # j => lookup'[k] = lookup[k]
    BY <1>2, <2>1
  <2>3. (Pending(j)' <=> Pending(j)) /\ \A v : Right(v, j) => Right(v, j)'
    BY <1>1, <2>1 DEF Pending, Right, Is, Faults
  <2>4. \A l : Idle(j, l)' <=> Idle(j, l)
    BY <2>1 DEF Idle
  <2> QED BY <1>1, <1>2, <1>3, <1>4, <1>5, <2>1, <2>2, <2>3, <2>4 DEF Wrote
<1>8. ASSUME NEW l \in Lanes, LoseEvent(j, l) \/ Publish(j, l) PROVE Wrote(j)
  <2>1. /\ lookup' = lookup /\ lanes' = [lanes EXCEPT ![j][l] = "idle"]
        /\ \/ lanes[j][l] = "event" /\ wakeup' = wakeup /\ Faults # {}
           \/ lanes[j][l] = "publish" /\ wakeup' = (hpc # "off")
    BY <1>8 DEF LoseEvent, Publish, Owes, StoreStep
  <2>2. /\ lanes' \in [Jobs -> [Lanes -> {"idle", "event", "publish"}]]
        /\ lanes'[j][l] = "idle" /\ \A k \in Lanes : k # l => lanes'[j][k] = lanes[j][k]
        /\ \A k \in Jobs : k # j => lanes'[k] = lanes[k]
    BY <1>2, <2>1
  <2>3. ~Idle(j, l) /\ \A k \in Lanes : Idle(j, k) => Idle(j, k)'
    BY <2>1, <2>2 DEF Idle
  <2>4. lookup'[j] # "over" => Idle(j, "artwork")'
    BY <1>6, <2>1, <2>3 DEF Lanes
  <2>5. Faults = {} => (Pending(j) => Pending(j)')
    BY <2>1, <2>2 DEF Pending
  <2>6. \A v : Right(v, j) => Right(v, j)'
    BY <1>1, <2>5 DEF Right, Is, Faults
  <2>7. \/ wakeup' \/ hpc = "off"
        \/ wakeup' = wakeup /\ \A k \in Lanes : lanes[j][k] = "publish" => lanes'[j][k] = "publish"
    BY <2>1, <2>2
  <2>8. wakeup' \in BOOLEAN
    BY <1>2, <2>1
  <2> QED BY <1>1, <1>2, <1>3, <1>4, <1>5, <1>8, <2>1, <2>2, <2>3, <2>4, <2>5, <2>6, <2>7, <2>8 DEF Wrote
<1> QED BY <1>7, <1>8

LEMMA WriterKeeps == ASSUME FeedInv, NEW j \in Jobs, Writer(j) PROVE FeedInv'
<1>1. Wrote(j)
  BY ChangesWrite, FilingWrites, DeleteWrites, DetailWrites, LanesWrite DEF Writer
<1> QED BY <1>1, WroteKeeps

-----------------------------------------------------------------------------
(* The list of downloads stands *)

LEMMA FeedInvInit == Init => FeedInv
<1> SUFFICES ASSUME Init PROVE FeedInv
  OBVIOUS
<1>1. log = <<>> /\ Len(log) = 0
  BY DEF Init
<1>2. /\ setup \in Setups /\ rows = [j \in Jobs |-> None] /\ lanes = [j \in Jobs |-> [l \in Lanes |-> "idle"]]
      /\ lookup = [j \in Jobs |-> "none"] /\ hpc = "off" /\ wakeup = FALSE /\ lastID = 0 /\ full = FALSE
      /\ queue = {} /\ out = {} /\ cpc = "cursor" /\ cursor = 0 /\ view = [j \in Jobs |-> None]
      /\ dropped = {} /\ wire = {}
  BY DEF Init
<1>3. FeedTyped
  <2>1. log \in Seq(Entries) /\ 0 \in 0 .. Len(log) /\ {} \subseteq 1 .. Len(log)
    BY <1>1
  <2>2. rows \in [Jobs -> Shown \cup {None}] /\ view \in [Jobs -> Shown \cup {None}]
    BY <1>2
  <2>3. lanes \in [Jobs -> [Lanes -> {"idle", "event", "publish"}]] /\ lookup \in [Jobs -> {"none", "running", "over"}]
    BY <1>2
  <2> QED BY <1>2, <2>1, <2>2, <2>3 DEF FeedTyped
<1>4. Pipeline
  BY <1>2 DEF Pipeline
<1>5. Deletes
  <2>1. \A j : ~Gone(j)
    BY <1>1 DEF Gone
  <2>2. \A j : Told(j) = {}
    BY <1>2 DEF Told
  <2>3. \A i \in 1 .. Len(log) : FALSE
    BY <1>1
  <2> QED BY <1>2, <2>1, <2>2, <2>3 DEF Deletes, Idle
<1>6. \A i : ~(i \in News(lastID))
  BY <1>1, <1>2 DEF News
<1>7. Queued
  BY <1>2, <1>6 DEF Queued
<1>8. ShownOrAnnounced
  BY <1>2 DEF ShownOrAnnounced
<1>9. CountsAnnounced
  BY <1>2 DEF CountsAnnounced
<1>10. WillWake
  BY <1>2 DEF WillWake, Idle, Lanes
<1> QED BY <1>3, <1>4, <1>5, <1>7, <1>8, <1>9, <1>10 DEF FeedInv

LEMMA FeedInvStep == FeedSetupsAssumption /\ FeedInv /\ [Next]_vars => FeedInv'
<1> SUFFICES ASSUME FeedSetupsAssumption, FeedInv, [Next]_vars PROVE FeedInv'
  OBVIOUS
<1>1. CASE \E j \in Jobs : Writer(j)
  BY <1>1, WriterKeeps
<1>2. CASE Drains
  BY <1>2, ReadPageKeeps, GoesOnKeeps, ReadJobKeeps, SendKeeps DEF Drains
<1>3. CASE Redrain \/ PushRead \/ DrainFails \/ PushFails
  BY <1>3, GoesOnKeeps, PushReadKeeps, FailuresKeep
<1>4. CASE Follows \/ Cut
  BY <1>4, ListingKeeps, OpenKeeps, ReceiveKeeps, CutKeeps DEF Follows
<1>5. CASE UNCHANGED vars
  <2>1. /\ setup' = setup /\ rows' = rows /\ log' = log /\ lanes' = lanes /\ lookup' = lookup
        /\ out' = out /\ queue' = queue /\ lastID' = lastID /\ wire' = wire /\ view' = view /\ dropped' = dropped
        /\ hpc' = hpc /\ tally' = tally /\ full' = full /\ wakeup' = wakeup
        /\ cpc' = cpc /\ cursor' = cursor /\ counts' = counts
    BY <1>5 DEF vars, store, handler, client
  <2>2. FeedTyped' /\ Pipeline' /\ Deletes' /\ Queued'
    BY <2>1, HandStill DEF FeedInv, FeedTyped, Pipeline
  <2>3. ShownOrAnnounced'
    <3>1. /\ \A v, j : Right(v, j)' <=> Right(v, j)
          /\ \A j, id : Announced(j, id)' <=> Announced(j, id)
          /\ \A id : News(id)' = News(id)
      BY <2>1, StoreStill
    <3>2. /\ \A i : Unread(i)' <=> Unread(i)
          /\ \A j : WhenSent(j)' = WhenSent(j) /\ WhenBuilt(j)' = WhenBuilt(j)
      BY <2>1, HandStill
    <3> QED BY <2>1, <3>1, <3>2 DEF FeedInv, ShownOrAnnounced
  <2>4. CountsAnnounced' /\ WillWake'
    <3>1. /\ CountsNow' = CountsNow /\ Faults' = Faults /\ (SomePending' <=> SomePending)
          /\ \A id : News(id)' = News(id)
          /\ \A j, l : Idle(j, l)' <=> Idle(j, l)
      BY <2>1, StoreStill
    <3>2. \A i : Beyond(i)' <=> Beyond(i)
      BY <2>1, HandStill
    <3> QED BY <2>1, <3>1, <3>2 DEF FeedInv, CountsAnnounced, WillWake
  <2> QED BY <2>2, <2>3, <2>4 DEF FeedInv
<1> QED BY <1>1, <1>2, <1>3, <1>4, <1>5 DEF Next

LEMMA FeedInvHolds == FeedSetupsAssumption /\ FeedInv => FeedHolds
<1> SUFFICES ASSUME FeedSetupsAssumption, FeedInv PROVE FeedHolds
  OBVIOUS
<1>1. FeedTyped /\ lastID \in Nat /\ view \in [Jobs -> Shown \cup {None}] /\ rows \in [Jobs -> Shown \cup {None}]
  BY DEF FeedInv, FeedTyped
<1>2. NoResurrection
  BY DEF FeedInv, Deletes, NoResurrection
<1>3. ASSUME Quiet PROVE cpc = "live" /\ cursor = lastID /\ wire = {} /\ out = {} /\ queue = {} /\ hpc = "wait"
  BY <1>3 DEF Quiet, FeedInv, Pipeline
<1>4. ASSUME Quiet, PageAfter(lastID) = {}, NEW j \in Jobs PROVE Right(view[j], j)
  <2>1. News(lastID) = {}
    BY <1>1, <1>4, PageIs
  <2>2. Right(view[j], j) \/ Announced(j, lastID)
    BY <1>3, <1>4 DEF FeedInv, ShownOrAnnounced
  <2> QED BY <2>1, <2>2 DEF Announced
<1>5. EndsAreSeen
  BY <1>4 DEF EndsAreSeen, Right
<1>6. ASSUME Faults = {}, Quiet PROVE view = rows /\ counts = CountsNow
  <2>1. ~SomePending /\ \A j \in Jobs : ~Pending(j)
    BY <1>6 DEF Quiet, Idle, SomePending, Pending
  <2>2. News(lastID) = {}
    <3>1. SUFFICES ASSUME NEW i \in News(lastID) PROVE FALSE
      OBVIOUS
    <3>2. Beyond(i)
      BY <1>3, <1>6 DEF Beyond, Unread
    <3>3. ~full /\ ~wakeup /\ \A j \in Jobs, l \in Lanes : lanes[j][l] # "publish"
      BY <1>3, <1>6 DEF FeedInv, WillWake, Quiet, Idle
    <3> QED BY <1>3, <1>6, <3>2, <3>3 DEF FeedInv, WillWake
  <2>3. \A j \in Jobs : view[j] = rows[j]
    <3>1. \A j \in Jobs : Right(view[j], j) \/ Announced(j, lastID)
      BY <1>3, <1>6 DEF FeedInv, ShownOrAnnounced
    <3> QED BY <1>6, <2>1, <2>2, <3>1 DEF Right, Announced
  <2>4. counts = CountsNow
    BY <1>3, <1>6, <2>1, <2>2 DEF FeedInv, CountsAnnounced
  <2> QED BY <1>1, <2>3, <2>4
<1>7. FeedSettles
  BY <1>6 DEF FeedSettles
<1> QED BY <1>2, <1>5, <1>7 DEF FeedHolds

\* The list of downloads is what the feed makes of the store (downloads_feed.go,
\* follow.go): once nothing is under way it shows the rows and counts of the
\* store, through deletions, pages and broken connections, an end or a deletion
\* is seen even if events were lost, and a job that was dropped stays away.
THEOREM FeedStands == Spec => []FeedHolds
<1>1. Init => FeedInv
  BY FeedInvInit
<1>2. FeedInv /\ [Next]_vars => FeedInv'
  BY FeedInvStep, FeedSetupsAssumption
<1>3. FeedInv => FeedHolds
  BY FeedInvHolds, FeedSetupsAssumption
<1> QED BY <1>1, <1>2, <1>3, PTL DEF Spec

=============================================================================

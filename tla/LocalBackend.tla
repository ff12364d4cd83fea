----------------------------- MODULE LocalBackend -----------------------------
(* The backends of one computer: one data directory, its lock and its runtime  *)
(* file (internal/local), shared by the service (amdl serve --local), commands *)
(* with an embedded backend (apps/amdl/internal/cli), and the desktop app in   *)
(* standalone mode, which attaches to the one that runs or runs its own        *)
(* (apps/desktop/internal/app). Clocks are left out: a delay ends at any time. *)
EXTENDS Naturals, FiniteSets

CONSTANTS
    MaxBackends,    \* bound: backends something still refers to
    MaxGen,         \* bound: connections of the app
    Scripts         \* bounds: what users do, and how often something goes wrong

ASSUME LocalAssumption ==
    /\ MaxBackends \in Nat \ {0}
    /\ Scripts \subseteq [connects : Nat, commands : Nat, services : Nat, faults : Nat]

VARIABLES
    script,     \* the member of Scripts this behaviour follows: what is left of it
    backends,   \* every backend so far: who runs it, Running, and its server.Run
    lock,       \* the backend whose process has backend.lock
    runtime,    \* the backend runtime.json names
    service,    \* the service manager's view, and the backend Serve launched
    app,        \* the desktop app: settings, gen, backend, shared, what it follows
    tasks       \* goroutines of the app, and commands, that look for a backend

localVars == <<script, backends, lock, runtime, service, app, tasks>>

Nobody == 0
Ids == 1..MaxBackends
NotUsed == [owner |-> "none", phase |-> "none", server |-> "done"]

LocalInit ==
    /\ script \in Scripts
    /\ backends = [i \in Ids |-> NotUsed]
    /\ lock = Nobody /\ runtime = Nobody
    /\ service = [wanted |-> FALSE, state |-> "off", own |-> Nobody]
    /\ app = [state |-> "open", mode |-> "remote", gen |-> 0, backend |-> Nobody,
              shared |-> Nobody, follows |-> Nobody, failed |-> FALSE]
    /\ tasks = {}

LocalTypeOK ==
    /\ backends \in [Ids -> [owner : {"none", "app", "service", "command"},
                             phase : {"none", "launch", "named", "stopping", "over"},
                             server : {"starting", "answering", "ending", "done"}]]
    /\ {lock, runtime, service.own, app.backend, app.shared, app.follows} \subseteq {Nobody} \union Ids
    /\ service.state \in {"off", "waiting", "serving", "delay"}

\* Its health check answers.
Answering(i) == i # Nobody /\ backends[i].server = "answering"
\* server.Run has not returned: the database may be open.
HasDatabase(i) == backends[i].server # "done"
\* An id nothing refers to any more may be used again.
Referred == {lock, runtime, service.own, app.backend, app.shared, app.follows} \union
            UNION {{t.url, t.old, t.own, t.found} : t \in tasks}
FreeIds == {i \in Ids \ Referred : backends[i].phase \in {"none", "over"} /\ ~HasDatabase(i)}
NewId == CHOOSE i \in FreeIds : \A k \in FreeIds : i <= k

Uses(what) == script[what] > 0 /\ script' = [script EXCEPT ![what] = @ - 1]
Fault == Uses("faults")

-----------------------------------------------------------------------------
(* A backend: Start, launch, Stop *)

\* Mutant: the data directory is not locked.
MayLockAlways == FreeIds # {}
\* lock: of backend.lock, which does not wait.
MayLock == lock = Nobody /\ FreeIds # {}
Launched(owner) ==
    /\ lock' = NewId
    /\ backends' = [backends EXCEPT ![NewId] = [owner |-> owner, phase |-> "launch",
                                                server |-> "starting"]]

\* Stop, of those in S: the runtime file goes first if it names one of them.
Stops(S) ==
    /\ runtime' = IF runtime \in S THEN Nobody ELSE runtime
    /\ backends' = [i \in Ids |->
         IF i \in S /\ backends[i].phase \in {"launch", "named"}
         THEN [backends[i] EXCEPT !.phase = "stopping", !.server = IF @ = "done" THEN @ ELSE "ending"]
         ELSE backends[i]]

\* A process ends: so do its backends, and the lock is free.
Ended(owner) ==
    /\ backends' = [i \in Ids |-> IF backends[i].owner = owner
                                  THEN [backends[i] EXCEPT !.phase = "over", !.server = "done"]
                                  ELSE backends[i]]
    /\ lock' = IF lock # Nobody /\ backends[lock].owner = owner THEN Nobody ELSE lock

Others == UNCHANGED <<service, app, tasks>>

BackendAnswers(i) ==
    /\ backends[i].server = "starting"
    /\ backends' = [backends EXCEPT ![i].server = "answering"]
    /\ UNCHANGED <<script, lock, runtime>> /\ Others

\* waitHealthy, then the runtime file names the backend.
Named(i) ==
    /\ backends[i].phase = "launch" /\ Answering(i)
    /\ backends' = [backends EXCEPT ![i].phase = "named"] /\ runtime' = i
    /\ UNCHANGED <<script, lock>> /\ Others

\* server.Run fails, while it starts or later.
ServerFails(i) ==
    /\ backends[i].server \in {"starting", "answering"} /\ Fault
    /\ backends' = [backends EXCEPT ![i].server = "done"]
    /\ UNCHANGED <<lock, runtime>> /\ Others

\* The startup failed, or did not answer within healthDeadline.
LaunchFails(i) ==
    /\ backends[i].phase = "launch" /\ ~HasDatabase(i) /\ Stops({i})
    /\ UNCHANGED <<script, lock>> /\ Others
LaunchTimesOut(i) ==
    /\ backends[i].phase = "launch" /\ backends[i].server = "starting" /\ Fault
    /\ Stops({i}) /\ UNCHANGED lock /\ Others

ServerEnds(i) ==
    /\ backends[i].server = "ending"
    /\ backends' = [backends EXCEPT ![i].server = "done"]
    /\ UNCHANGED <<script, lock, runtime>> /\ Others

\* Stop returns and closes the lock: server.Run returned, or stopDeadline passed.
StopOver(i) ==
    /\ backends' = [backends EXCEPT ![i].phase = "over"]
    /\ lock' = IF lock = i THEN Nobody ELSE lock
    /\ UNCHANGED runtime /\ Others
StopReturns(i) ==
    backends[i].phase = "stopping" /\ ~HasDatabase(i) /\ StopOver(i) /\ UNCHANGED script
StopGivesUp(i) ==
    backends[i].phase = "stopping" /\ HasDatabase(i) /\ Fault /\ StopOver(i)

-----------------------------------------------------------------------------
(* The service: Serve under a service manager that restarts it on failure *)

ServiceWanted ==
    /\ Uses("services")
    /\ service' = IF service.wanted THEN [service EXCEPT !.wanted = FALSE]
                  ELSE [service EXCEPT !.wanted = TRUE,
                                       !.state = IF @ = "off" THEN "waiting" ELSE @]
    /\ UNCHANGED <<backends, lock, runtime, app, tasks>>

\* Serve waits for the lock until it is told to stop.
ServeLocks ==
    /\ service.state = "waiting" /\ service.wanted /\ MayLock
    /\ Launched("service") /\ service' = [service EXCEPT !.state = "serving", !.own = lock']
    /\ UNCHANGED <<script, runtime, app, tasks>>
\* The config cannot be written, or the address is taken.
ServeFails ==
    /\ service.state = "waiting" /\ service.wanted /\ MayLock /\ Fault
    /\ service' = [service EXCEPT !.state = "delay"]
    /\ UNCHANGED <<backends, lock, runtime, app, tasks>>
ServeLeaves ==
    /\ service.state \in {"waiting", "delay"} /\ ~service.wanted
    /\ service' = [service EXCEPT !.state = "off"]
    /\ UNCHANGED <<script, backends, lock, runtime, app, tasks>>

\* Told to stop, or the backend stopped on its own.
ServeEnds ==
    /\ service.state = "serving" /\ backends[service.own].phase = "named"
    /\ ~service.wanted \/ ~HasDatabase(service.own)
    /\ Stops({service.own})
    /\ UNCHANGED <<script, lock, service, app, tasks>>
\* The process exits when Serve has returned, or is killed.
ServiceOver ==
    /\ Ended("service")
    /\ service' = [service EXCEPT !.state = IF service.wanted THEN "delay" ELSE "off",
                                  !.own = Nobody]
    /\ UNCHANGED <<runtime, app, tasks>>
ServiceExits ==
    /\ service.state = "serving" /\ backends[service.own].phase = "over"
    /\ ServiceOver /\ UNCHANGED script
ServiceKilled == service.state = "serving" /\ Fault /\ ServiceOver
ServiceRestarts ==
    /\ service.state = "delay" /\ service.wanted
    /\ service' = [service EXCEPT !.state = "waiting"]
    /\ UNCHANGED <<script, backends, lock, runtime, app, tasks>>

-----------------------------------------------------------------------------
(* startOrAttach, and embed, which does the same for one command *)

Task(kind, gen, phase) ==
    [kind |-> kind, gen |-> gen, phase |-> phase, url |-> Nobody, gone |-> FALSE,
     old |-> Nobody, own |-> Nobody, found |-> Nobody]
Goes(t, new) == tasks' = (tasks \ {t}) \union {new}
OwnerOf(t) == IF t.kind = "command" THEN "command" ELSE "app"

\* The runtime file names a backend that answers, or one is started here.
Looks(t) ==
    /\ t.phase = "look"
    /\ Goes(t, IF Answering(runtime) THEN [t EXCEPT !.phase = "post", !.found = runtime]
               ELSE [t EXCEPT !.phase = "start"])
    /\ UNCHANGED <<script, backends, lock, runtime, service, app>>
StartsOwn(t) ==
    /\ t.phase = "start" /\ MayLock
    /\ Launched(OwnerOf(t)) /\ Goes(t, [t EXCEPT !.phase = "launched", !.own = lock'])
    /\ UNCHANGED <<script, runtime, service, app>>
StartFails(t) ==
    /\ t.phase = "start" /\ Fault /\ Goes(t, [t EXCEPT !.phase = "post"])
    /\ UNCHANGED <<backends, lock, runtime, service, app>>
\* ErrBusy: the app looks and tries again; a command only waits, up to busyWait.
FindsBusy(t) ==
    /\ t.phase = "start" /\ lock # Nobody
    /\ Goes(t, [t EXCEPT !.phase = IF t.kind = "command" THEN "waits" ELSE "look"])
    /\ UNCHANGED <<script, backends, lock, runtime, service, app>>
WaitOver(t) ==
    /\ t.phase = "waits"
    /\ Goes(t, [t EXCEPT !.phase = "post", !.found = IF Answering(runtime) THEN runtime ELSE Nobody])
    /\ UNCHANGED <<script, backends, lock, runtime, service, app>>
Started(t) ==
    /\ t.phase = "launched"
    /\ \/ /\ backends[t.own].phase = "named" /\ Goes(t, [t EXCEPT !.phase = "post"])
       \/ /\ backends[t.own].phase = "over"
          /\ Goes(t, [t EXCEPT !.phase = "post", !.own = Nobody])
    /\ UNCHANGED <<script, backends, lock, runtime, service, app>>
-----------------------------------------------------------------------------
(* A command: it embeds a backend when none answers, and stops it at its end *)

CommandRuns ==
    /\ Uses("commands") /\ tasks' = tasks \union {Task("command", 0, "look")}
    /\ \A t \in tasks : t.kind # "command"
    /\ UNCHANGED <<backends, lock, runtime, service, app>>
CommandEnds(t) ==
    /\ t.kind = "command" /\ t.phase = "post"
    /\ IF t.own # Nobody THEN Stops({t.own}) ELSE UNCHANGED <<backends, runtime>>
    /\ Goes(t, [t EXCEPT !.phase = "exit"])
    /\ UNCHANGED <<script, lock, service, app>>
CommandExits(t) ==
    /\ t.kind = "command" /\ t.phase = "exit"
    /\ t.own # Nobody => backends[t.own].phase = "over"
    /\ tasks' = tasks \ {t} /\ Ended("command")
    /\ UNCHANGED <<script, runtime, service, app>>

-----------------------------------------------------------------------------
(* The desktop app *)

\* connect, with the settings as they are now.
Reconnect(mode) ==
    /\ app.state = "open" /\ app.gen < MaxGen /\ Uses("connects")
    /\ app' = [app EXCEPT !.mode = mode, !.gen = @ + 1, !.backend = Nobody, !.shared = Nobody,
                          !.follows = Nobody, !.failed = FALSE]
    /\ IF mode = "standalone"
       THEN /\ tasks' = tasks \union {[Task("starter", app'.gen, "stop") EXCEPT !.old = app.backend]}
            /\ UNCHANGED <<backends, runtime>>
       ELSE Stops({app.backend} \ {Nobody}) /\ UNCHANGED tasks
    /\ UNCHANGED <<lock, service>>

\* startLocal: the old backend stops before another is looked for.
StopsOld(t) ==
    /\ t.phase = "stop" /\ t.old # Nobody /\ backends[t.old].phase = "named"
    /\ Stops({t.old})
    /\ UNCHANGED <<script, lock, service, app, tasks>>
OldStopped(t) ==
    /\ t.phase = "stop"
    /\ t.old # Nobody => backends[t.old].phase = "over"
    /\ Goes(t, [t EXCEPT !.phase = "look", !.old = Nobody])
    /\ UNCHANGED <<script, backends, lock, runtime, service, app>>

\* The app still waits for what t found.
IsCurrent(t) == t.gen = app.gen /\ app.state = "open"

\* useLocal, and who watches the backend another process runs.
Used(t) ==
    /\ app' = [app EXCEPT !.backend = t.own, !.shared = t.found, !.failed = FALSE,
                          !.follows = IF t.own # Nobody THEN t.own ELSE t.found]
    /\ tasks' = (tasks \ {t}) \union
                (IF t.own # Nobody THEN {}
                 ELSE {[Task("watcher", t.gen, "sleep") EXCEPT !.url = t.found]})
    /\ UNCHANGED <<backends, runtime>>

\* What startLocal and watchShared post.
Arrives(t) ==
    /\ t.kind \in {"starter", "watcher"} /\ t.phase = "post"
    /\ \/ /\ ~IsCurrent(t)
          /\ tasks' = tasks \ {t} /\ Stops({t.own} \ {Nobody}) /\ UNCHANGED app
       \/ /\ IsCurrent(t) /\ t.own = Nobody /\ t.found = Nobody
          /\ app' = [app EXCEPT !.failed = TRUE] /\ UNCHANGED <<backends, runtime>>
          /\ IF t.kind = "starter" THEN tasks' = tasks \ {t}
             ELSE Goes(t, [t EXCEPT !.phase = "sleep"])
       \/ /\ IsCurrent(t) /\ {t.own, t.found} # {Nobody}
          /\ Used(t)
    /\ UNCHANGED <<script, lock, service>>

\* Mutant: watchShared waits for the backend it used to come back.
ReplacedOther(t) == Answering(runtime) /\ runtime # t.url
\* replaceShared: at once when another backend answers, after takeoverGrace when none does.
Replaced(t) == IF Answering(runtime) THEN runtime # t.url ELSE t.gone

\* watchShared, every sharedPoll.
Watches(t) ==
    /\ t.kind = "watcher" /\ t.phase = "sleep"
    /\ IF ~IsCurrent(t) THEN tasks' = tasks \ {t}
       ELSE IF Replaced(t) THEN Goes(t, [t EXCEPT !.phase = "look"])
       ELSE /\ t.gone = Answering(runtime)
            /\ Goes(t, [t EXCEPT !.gone = ~Answering(runtime)])
    /\ UNCHANGED <<script, backends, lock, runtime, service, app>>

Quit ==
    /\ app.state = "open" /\ Uses("connects")
    /\ app' = [app EXCEPT !.state = "quitting"] /\ Stops({app.backend} \ {Nobody})
    /\ UNCHANGED <<lock, service, tasks>>
AppExits ==
    /\ app.state = "quitting" /\ app' = [app EXCEPT !.state = "exited"]
    /\ app.backend # Nobody => backends[app.backend].phase = "over"
    /\ Ended("app") /\ tasks' = {t \in tasks : t.kind = "command"}
    /\ UNCHANGED <<script, runtime, service>>

BackendStep(i) == BackendAnswers(i) \/ Named(i) \/ LaunchFails(i) \/ ServerEnds(i) \/ StopReturns(i)
BackendFault(i) == ServerFails(i) \/ LaunchTimesOut(i) \/ StopGivesUp(i)
ServiceStep == ServeLocks \/ ServeLeaves \/ ServeEnds \/ ServiceExits \/ ServiceRestarts
TaskStep(t) ==
    Looks(t) \/ StartsOwn(t) \/ FindsBusy(t) \/ WaitOver(t) \/ Started(t) \/ CommandEnds(t) \/ CommandExits(t)
    \/ StopsOld(t) \/ OldStopped(t) \/ Arrives(t) \/ Watches(t)
LocalNext ==
    \/ \E i \in Ids : BackendStep(i) \/ BackendFault(i)
    \/ ServiceStep \/ ServiceWanted \/ ServeFails \/ ServiceKilled
    \/ \E t \in tasks : TaskStep(t) \/ StartFails(t)
    \/ CommandRuns \/ Reconnect("standalone") \/ Reconnect("remote") \/ Quit \/ AppExits

\* Goroutines and processes go on; nothing makes a user act or a step fail.
BackendProgress == \E i \in Ids : BackendStep(i)
StepOf(kind, gen) == \E t \in tasks : t.kind = kind /\ t.gen = gen /\ TaskStep(t)
LocalFairness ==
    /\ WF_localVars(BackendProgress) /\ WF_localVars(ServiceStep \/ AppExits)
    /\ WF_localVars(StepOf("command", 0))
    /\ \A gen \in 1..MaxGen : WF_localVars(StepOf("starter", gen) \/ StepOf("watcher", gen))
LocalSpec == LocalInit /\ [][LocalNext]_localVars /\ LocalFairness

-----------------------------------------------------------------------------
\* A Stop returned before its server had.
Abandoned(i) == backends[i].phase = "over" /\ HasDatabase(i)

\* One backend per data directory (lock, Start, Serve, startOrAttach): whoever
\* starts, stops, fails or is killed, no two backends have the database at
\* once, unless a Stop gave up on its server; and the app leaves none running
\* that it does not use, however often it reconnects or quits while one starts.
OneBackend ==
    /\ (\E i \in Ids : Abandoned(i)) \/ Cardinality({i \in Ids : HasDatabase(i)}) <= 1
    /\ (\E t \in tasks : t.kind # "command") \/
       \A i \in Ids : backends[i].owner = "app" /\ backends[i].phase = "named"
                         => i = app.backend

\* A backend that failed by itself is not noticed by the app that runs it.
OwnFailed == app.backend # Nobody /\ ~HasDatabase(app.backend)

\* Both who want a backend end up with one (watchShared, Serve): the app in
\* standalone mode follows one that answers, its own or another's, or says why
\* none started; and the service's wish is met by its own or by one it waits for.
AllServed ==
    <>[](/\ app.state = "open" /\ app.mode = "standalone"
              => Answering(app.follows) \/ app.failed \/ OwnFailed
         /\ service.wanted => Answering(runtime) \/ OwnFailed)
=============================================================================

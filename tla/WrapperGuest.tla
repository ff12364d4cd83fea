---------------------------- MODULE WrapperGuest ----------------------------
(***************************************************************************)
(* wrapperhost.Supervisor (src/internal/wrapperhost/supervisor.go): the    *)
(* backend keeps one QEMU guest serving, stops it to boot another one for  *)
(* a login, boots to serve again once that guest has powered off, and      *)
(* zeroes the login's arguments on the disk before it does. The two guests *)
(* share one disk image, which nothing but this code keeps them from       *)
(* mounting at the same time.                                              *)
(*                                                                         *)
(* An action is one critical section of s.mu, one step of a goroutine      *)
(* outside it, of a guest, or of the amdl process. Guests are slots, taken *)
(* again once nothing refers to them. Timers may fire at any time.         *)
(***************************************************************************)
EXTENDS Integers, FiniteSets

CONSTANTS
    Boots,    \* bound: slots for guests, numbered from 1
    Logins,   \* bound: slots for logins, numbered from 1
    MaxStops, \* bound: ends of the amdl process
    MaxTurns  \* bound: times amdl wrapper stop or start is called

\* 0 stands for nil.
ASSUME GuestAssumption == Boots \subseteq Nat \ {0} /\ Logins \subseteq Nat \ {0}

VARIABLES
    proc,       \* "up", "ending" once Run's context ended, "stopped", "down"
    stops,      \* ends of the process so far
    turns,      \* changes of enabled so far
    enabled,    \* control.json
    saved,      \* what the next process reads in state.json: a login's residue
    argsFile,   \* login-args, the 0600 file that holds the credentials
    disk,       \* whether the image may hold a login's arguments
    vm,         \* each guest's QEMU: "off", "booting" or, of a serving one, "answers"
    watch,      \* the goroutine that waits for each serving guest
    g,          \* s.g, 0 for nil
    sess,       \* s.sess, 0 for nil
    login,      \* each login: where its callers are, its guest, what that printed
    mode,       \* s.st.Mode
    residue,    \* s.st.LoginResidue
    unscrubbed, \* s.unscrubbed
    backoff     \* s.fails, s.failedAt: whether the last serving boot failed just now

vars == <<proc, stops, turns, enabled, saved, argsFile, disk, vm, watch, g, sess,
          login, mode, residue, unscrubbed, backoff>>
files == <<enabled, saved, argsFile, disk>>
state == <<mode, residue, saved>>

NoLogin == [step |-> "none", vm |-> 0, banner |-> "none", asked |-> FALSE]

TypeOK ==
    /\ proc \in {"up", "ending", "stopped", "down"} /\ stops \in 0 .. MaxStops
    /\ turns \in 0 .. MaxTurns
    /\ {enabled, saved, argsFile, disk, residue, unscrubbed, backoff} \subseteq BOOLEAN
    /\ vm \in [Boots -> {"off", "booting", "answers"}]
    /\ watch \in [Boots -> {"none", "waiting", "ready", "failed"}]
    /\ g \in Boots \cup {0} /\ sess \in Logins \cup {0}
    /\ login \in [Logins -> [step : {"none", "banner", "prompt", "code", "coded", "finish"},
                             vm : Boots \cup {0}, banner : {"none", "args", "plain"}, asked : BOOLEAN]]
    /\ mode \in {"starting", "serving", "login", "stopped", "failed"}

Init ==
    /\ proc = "up" /\ stops = 0 /\ turns = 0 /\ enabled = TRUE
    /\ saved = FALSE /\ argsFile = FALSE /\ disk = FALSE
    /\ vm = [b \in Boots |-> "off"] /\ watch = [b \in Boots |-> "none"]
    /\ g = 0 /\ sess = 0 /\ login = [l \in Logins |-> NoLogin]
    /\ mode = "stopped" /\ residue = FALSE /\ unscrubbed = TRUE /\ backoff = FALSE

Live == {b \in Boots : vm[b] # "off"}
Exited(b) == b # 0 /\ vm[b] = "off"
\* A slot nothing refers to.
Free == {b \in Boots : vm[b] = "off" /\ b # g /\ watch[b] = "none" /\ \A l \in Logins : login[l].vm # b}
NextBoot == CHOOSE b \in Free : \A a \in Free : b <= a

\* setState: the new state, written to state.json unless the write fails.
SetState(m, r) ==
    /\ mode' = m /\ residue' = r
    /\ saved' \in {saved, r \/ m = "login"}

\* guest.stop: kills QEMU and waits for its exit.
Stopped(v, b) == IF b = 0 THEN v ELSE [v EXCEPT ![b] = "off"]

-----------------------------------------------------------------------------
(* The serving guest *)

\* Mutant: a restarted process trusts the residue its predecessor wrote down.
ScrubIfRecorded ==
    \/ ~residue /\ UNCHANGED <<disk, unscrubbed, residue>>
    \/ residue /\ disk' = FALSE /\ unscrubbed' = FALSE /\ residue' = FALSE
    \/ residue /\ residue' = TRUE /\ UNCHANGED <<disk, unscrubbed>>
\* What a login boot left is zeroed; a failure is recorded and the boot goes on.
Scrub ==
    \/ ~unscrubbed /\ ~residue /\ UNCHANGED <<disk, unscrubbed, residue>>
    \/ (unscrubbed \/ residue) /\ disk' = FALSE /\ unscrubbed' = FALSE /\ residue' = FALSE
    \/ (unscrubbed \/ residue) /\ residue' = TRUE /\ UNCHANGED <<disk, unscrubbed>>

\* startServingLocked, with f whether it has to wait for the backoff.
StartServing(f) ==
    \/ /\ proc # "up" \/ f
       /\ g' = g /\ backoff' = f /\ UNCHANGED <<disk, vm, watch, unscrubbed, state>>
    \/ /\ proc = "up" /\ ~f /\ Scrub
       /\ g' = 0 /\ backoff' = TRUE /\ UNCHANGED <<vm, watch>>
       /\ mode' = "failed" /\ saved' \in {saved, residue'}
    \/ /\ proc = "up" /\ ~f /\ Free # {} /\ Scrub
       /\ vm' = [vm EXCEPT ![NextBoot] = "booting"] /\ watch' = [watch EXCEPT ![NextBoot] = "waiting"]
       /\ g' = NextBoot /\ backoff' = f
       /\ mode' = "starting" /\ saved' \in {saved, residue'}

\* Run's turns, on a wake or every two seconds.
RunStart ==
    /\ proc = "up" /\ sess = 0 /\ enabled /\ (g = 0 \/ Exited(g))
    /\ StartServing(backoff) /\ UNCHANGED <<proc, stops, turns, enabled, argsFile, sess, login>>
RunStop ==
    /\ proc = "up" /\ sess = 0 /\ ~enabled
    /\ vm' = Stopped(vm, g) /\ g' = 0 /\ SetState("stopped", residue)
    /\ UNCHANGED <<proc, stops, turns, enabled, argsFile, disk, watch, sess, login, unscrubbed, backoff>>
RunEnd ==
    /\ proc = "ending" /\ proc' = "stopped"
    /\ vm' = IF sess = 0 THEN Stopped(vm, g) ELSE Stopped(Stopped(vm, g), login[sess].vm)
    /\ argsFile' = IF sess = 0 THEN argsFile ELSE FALSE
    /\ g' = 0 /\ sess' = 0 /\ SetState("stopped", residue)
    /\ UNCHANGED <<stops, turns, enabled, disk, watch, login, unscrubbed, backoff>>
BackoffOver ==
    /\ backoff /\ backoff' = FALSE
    /\ UNCHANGED <<proc, stops, turns, files, vm, watch, g, sess, login, mode, residue, unscrubbed>>

\* waitReady returns: the guest answered, or it exited or took too long.
WaitEnds(b) ==
    /\ watch[b] = "waiting"
    /\ \/ vm[b] = "answers" /\ watch' = [watch EXCEPT ![b] = "ready"]
       \/ watch' = [watch EXCEPT ![b] = "failed"]
    /\ UNCHANGED <<proc, stops, turns, files, vm, g, sess, login, mode, residue, unscrubbed, backoff>>
\* Mutant: the outcome is applied whichever guest is the current one by now.
WatchApplies(b) ==
    /\ watch[b] \in {"ready", "failed"} /\ watch' = [watch EXCEPT ![b] = "none"]
    /\ \/ watch[b] = "ready" /\ backoff' = FALSE /\ SetState("serving", residue) /\ UNCHANGED vm
       \/ /\ watch[b] # "ready" /\ backoff' = TRUE /\ SetState("failed", residue)
          /\ vm' = IF proc = "up" THEN Stopped(vm, b) ELSE vm
    /\ UNCHANGED <<proc, stops, turns, enabled, argsFile, disk, g, sess, login, unscrubbed>>
\* The goroutine takes s.mu: its guest may have been replaced meanwhile.
Watched(b) ==
    /\ watch[b] \in {"ready", "failed"} /\ watch' = [watch EXCEPT ![b] = "none"]
    /\ \/ g # b /\ UNCHANGED <<vm, state, backoff>>
       \/ g = b /\ watch[b] = "ready" /\ backoff' = FALSE /\ SetState("serving", residue) /\ UNCHANGED vm
       \/ /\ g = b /\ watch[b] # "ready" /\ backoff' = TRUE /\ SetState("failed", residue)
          /\ vm' = IF proc = "up" THEN Stopped(vm, b) ELSE vm
    /\ UNCHANGED <<proc, stops, turns, enabled, argsFile, disk, g, sess, login, unscrubbed>>

-----------------------------------------------------------------------------
(* A login *)

At(l, from) == login[l].step = from
End(l) == login' = [login EXCEPT ![l] = NoLogin]
Goto(l, to) == login' = [login EXCEPT ![l].step = to]

\* StartLogin's checks under s.mu. Whether the wrapper is enabled is read before
\* it, and may have changed by now.
LoginAllowed == proc = "up" /\ sess = 0

\* endLoginLocked: the guest is stopped and Run boots to serve again.
EndLogin(l) ==
    IF sess = l
    THEN /\ vm' = Stopped(vm, login[l].vm) /\ argsFile' = FALSE /\ sess' = 0
         /\ SetState("stopped", residue)
    ELSE UNCHANGED <<vm, argsFile, sess, state>>

\* Mutant: the serving guest is left to the login's boot.
StartLoginBeside(l) ==
    /\ At(l, "none") /\ LoginAllowed /\ Free # {}
    /\ g' = 0 /\ sess' = l /\ SetState("login", TRUE)
    /\ vm' = [vm EXCEPT ![NextBoot] = "booting"] /\ argsFile' = TRUE
    /\ login' = [login EXCEPT ![l] = [@ EXCEPT !.step = "banner", !.vm = NextBoot]]
    /\ disk' = TRUE /\ UNCHANGED <<proc, stops, turns, enabled, watch, unscrubbed, backoff>>
\* StartLogin: the serving guest is stopped, the residue recorded, and the
\* login's guest booted with the arguments file.
StartLogin(l) ==
    /\ At(l, "none") /\ LoginAllowed /\ Free # {}
    /\ g' = 0 /\ sess' = l /\ SetState("login", TRUE)
    /\ vm' = [Stopped(vm, g) EXCEPT ![NextBoot] = "booting"] /\ argsFile' = TRUE
    /\ login' = [login EXCEPT ![l] = [@ EXCEPT !.step = "banner", !.vm = NextBoot]]
    /\ disk' = TRUE /\ UNCHANGED <<proc, stops, turns, enabled, watch, unscrubbed, backoff>>
\* bootLoginLocked fails: no guest, no file, the login ends.
StartLoginFails(l) ==
    /\ At(l, "none") /\ LoginAllowed
    /\ g' = 0 /\ vm' = Stopped(vm, g) /\ argsFile' = FALSE
    /\ SetState("stopped", TRUE)
    /\ UNCHANGED <<proc, stops, turns, enabled, disk, watch, sess, login, unscrubbed, backoff>>

\* awaitBanner and the wait for the prompt: the guest's console, its exit, the
\* step's limit or the caller's end, whichever the select takes.
SeeBanner(l) ==
    /\ At(l, "banner") /\ login[l].banner = "args" /\ Goto(l, "prompt")
    /\ UNCHANGED <<proc, stops, turns, files, vm, watch, g, sess, mode, residue, unscrubbed, backoff>>
SeePrompt(l) ==
    /\ At(l, "prompt") /\ login[l].asked /\ Goto(l, "code")
    /\ UNCHANGED <<proc, stops, turns, files, vm, watch, g, sess, mode, residue, unscrubbed, backoff>>
\* A limit, a caller that gives up, a guest that exits too early or did not
\* get the arguments; awaitCode's own timer and exit at "code".
GiveUp(l) ==
    /\ login[l].step \in {"banner", "prompt", "code", "coded"}
    /\ EndLogin(l) /\ End(l)
    /\ UNCHANGED <<proc, stops, turns, enabled, disk, watch, g, unscrubbed, backoff>>
\* SubmitTwoStepCode: the first code of this login goes to the console.
SubmitCode(l) ==
    /\ proc # "down" /\ At(l, "code") /\ sess = l /\ Goto(l, "coded")
    /\ UNCHANGED <<proc, stops, turns, files, vm, watch, g, sess, mode, residue, unscrubbed, backoff>>
\* finishLogin: the login's guest has powered off, the serving one boots.
FinishLogin(l) ==
    /\ login[l].step \in {"prompt", "coded"} /\ Exited(login[l].vm)
    /\ \/ sess # l /\ End(l) /\ UNCHANGED <<argsFile, disk, vm, watch, g, unscrubbed, backoff, state>>
       \/ sess = l /\ argsFile' = FALSE /\ StartServing(FALSE) /\ Goto(l, "finish")
    /\ UNCHANGED <<proc, stops, turns, enabled, sess>>
\* Mutant: the session is dropped when a storefront is served, and only then.
HandBackServing(l) ==
    /\ At(l, "finish") /\ g # 0 /\ vm[g] = "answers" /\ End(l)
    /\ sess' = IF sess = l THEN 0 ELSE sess
    /\ UNCHANGED <<proc, stops, turns, files, vm, watch, g, mode, residue, unscrubbed, backoff>>
\* Its defer: refused, served, timed out or abandoned, the wrapper is Run's again.
HandBack(l) ==
    /\ At(l, "finish") /\ End(l)
    /\ sess' = IF sess = l THEN 0 ELSE sess
    /\ UNCHANGED <<proc, stops, turns, files, vm, watch, g, mode, residue, unscrubbed, backoff>>

\* Logout: a fresh disk, or a copy that failed part way.
Logout ==
    /\ proc \in {"up", "ending", "stopped"} /\ sess = 0 /\ g' = 0 /\ vm' = Stopped(vm, g)
    /\ \/ disk' = FALSE /\ SetState("stopped", FALSE)
       \/ UNCHANGED disk /\ SetState("failed", residue)
    /\ UNCHANGED <<proc, stops, turns, enabled, argsFile, watch, sess, login, unscrubbed, backoff>>

-----------------------------------------------------------------------------
(* The guests, the process and the other amdl commands *)

Owner(b) == {l \in Logins : login[l].vm = b}
\* A serving guest answers /status.
Answers(b) ==
    /\ vm[b] = "booting" /\ Owner(b) = {} /\ vm' = [vm EXCEPT ![b] = "answers"]
    /\ UNCHANGED <<proc, stops, turns, files, watch, g, sess, login, mode, residue, unscrubbed, backoff>>
Exits(b) ==
    /\ b \in Live /\ vm' = Stopped(vm, b)
    /\ UNCHANGED <<proc, stops, turns, files, watch, g, sess, login, mode, residue, unscrubbed, backoff>>
\* The login boot's first line: its init took the arguments, or never saw them.
\* session.onLine removes the file.
PrintsBanner(l) ==
    /\ login[l].vm \in Live /\ login[l].banner = "none" /\ argsFile' = FALSE
    /\ \E line \in {"args", "plain"} : login' = [login EXCEPT ![l].banner = line]
    /\ UNCHANGED <<proc, stops, turns, enabled, saved, disk, vm, watch, g, sess, mode, residue, unscrubbed, backoff>>
Asks(l) ==
    /\ login[l].vm \in Live /\ login[l].banner = "args" /\ login' = [login EXCEPT ![l].asked = TRUE]
    /\ UNCHANGED <<proc, stops, turns, files, vm, watch, g, sess, mode, residue, unscrubbed, backoff>>

\* amdl wrapper stop and start.
Toggle ==
    /\ turns < MaxTurns /\ turns' = turns + 1 /\ enabled' = ~enabled
    /\ UNCHANGED <<proc, stops, saved, argsFile, disk, vm, watch, g, sess, login, mode, residue, unscrubbed, backoff>>
ContextEnds ==
    /\ proc = "up" /\ proc' = "ending"
    /\ UNCHANGED <<stops, turns, files, vm, watch, g, sess, login, mode, residue, unscrubbed, backoff>>
\* The process exits or dies, and QEMU with it, as Linux and Windows see to: what
\* it kept in memory is gone.
Dies ==
    /\ proc # "down" /\ stops < MaxStops /\ stops' = stops + 1 /\ proc' = "down"
    /\ vm' = [b \in Boots |-> "off"] /\ watch' = [b \in Boots |-> "none"]
    /\ login' = [l \in Logins |-> NoLogin]
    /\ g' = 0 /\ sess' = 0 /\ mode' = "stopped" /\ residue' = FALSE /\ unscrubbed' = TRUE /\ backoff' = FALSE
    /\ UNCHANGED <<turns, files>>
\* Mutant: a file left by a login that died stays.
NewSupervisorKeeps ==
    /\ proc = "down" /\ proc' = "up" /\ residue' = saved
    /\ UNCHANGED <<stops, turns, files, vm, watch, g, sess, login, mode, unscrubbed, backoff>>
NewSupervisor ==
    /\ proc = "down" /\ proc' = "up" /\ argsFile' = FALSE
    /\ residue' = saved
    /\ UNCHANGED <<stops, turns, enabled, saved, disk, vm, watch, g, sess, login, mode, unscrubbed, backoff>>

RunTurn == RunStart \/ RunStop \/ RunEnd
Calls(l) == SeeBanner(l) \/ SeePrompt(l) \/ GiveUp(l) \/ FinishLogin(l) \/ HandBack(l)
Next ==
    \/ RunTurn \/ BackoffOver \/ Logout \/ Toggle \/ ContextEnds \/ Dies \/ NewSupervisor
    \/ \E b \in Boots : WaitEnds(b) \/ Watched(b) \/ Answers(b) \/ Exits(b)
    \/ \E l \in Logins : \/ StartLogin(l) \/ StartLoginFails(l) \/ Calls(l) \/ SubmitCode(l)
                         \/ PrintsBanner(l) \/ Asks(l)

\* Run polls, timers fire, goroutines and requests run.
Fairness ==
    /\ WF_vars(RunTurn) /\ WF_vars(BackoffOver)
    /\ \A l \in Logins : WF_vars(Calls(l))
Spec == Init /\ [][Next]_vars /\ Fairness

-----------------------------------------------------------------------------
(* Properties *)

\* No two guests ever have the disk open, through logins, logouts, restarts and
\* guests that exit on their own; none is left when Run has returned.
OneGuest == Cardinality(Live) <= (IF proc \in {"stopped", "down"} THEN 0 ELSE 1)

\* The file with the credentials is there only while its login boots, or after
\* the process died before it could remove it.
CredentialsFileGoes ==
    argsFile => proc = "down" \/ (sess # 0 /\ login[sess].banner = "none" /\ mode = "login")

\* A serving boot finds a disk without a login's arguments, or says that it may
\* hold them: after a login, after a process that died in one, and when
\* state.json could not be written. The disk is rewritten with no guest on it.
ServesScrubbed ==
    [][/\ \A b \in Boots : watch[b] = "none" /\ watch'[b] = "waiting" => ~disk' \/ residue'
       /\ disk /\ ~disk' => \A b \in Boots : b \in Live => vm'[b] = "off"]_vars

\* "serving" is said of a guest that answered, never of one that took its place.
ServingAnswered == mode = "serving" => g # 0 /\ vm[g] # "booting"

\* The disk, the credentials and the mode that is shown, at every moment.
GuestHolds == OneGuest /\ CredentialsFileGoes /\ ServingAnswered

\* A login never keeps the wrapper: whatever its guest, its code or its caller
\* do, Run has the wrapper back in the end.
LoginEnds == sess # 0 ~> sess = 0
=============================================================================

--------------------------- MODULE WrapperProofs ----------------------------
(***************************************************************************)
(* What holds, for every value of the constants, of what this computer     *)
(* runs for the backend: the guest this process boots (WrapperGuest), the  *)
(* templates callers share (KeyTemplates), the logins through an external  *)
(* wrapper (LoginBook), the backends of one data directory (LocalBackend), *)
(* and the download of the guest (GuestInstall). Each part has an          *)
(* inductive invariant of its own; they share no state.                    *)
(***************************************************************************)
EXTENDS WrapperGuest, KeyTemplates, LoginBook, LocalBackend, GuestInstall, FiniteSetTheorems, WellFoundedInduction, TLAPS

-----------------------------------------------------------------------------
(* The guest that serves and the guest that logs in *)

\* The order of the naturals, as a relation.
LEMMA NatOrder == \E less : IsWellFoundedOn(less, Nat) /\ \A n, m \in Nat : <<n, m>> \in less <=> n < m
<1> WITNESS OpToRel(<, Nat)
<1>1. \A n, m \in Nat : <<n, m>> \in OpToRel(<, Nat) <=> n < m
  BY DEF OpToRel
<1> QED BY <1>1, NatLessThanWellFounded

LEMMA LeastNatural == ASSUME NEW S \in SUBSET Nat, S # {} PROVE \E m \in S : \A n \in S : m <= n
<1>1. PICK less : IsWellFoundedOn(less, Nat) /\ \A n, m \in Nat : <<n, m>> \in less <=> n < m
  BY NatOrder
<1>2. IsWellFoundedOn(less, Nat)
  BY <1>1
<1>3. \E m \in S : \A n \in S : ~(<<n, m>> \in less)
  BY <1>2, WFMin, Zenon
<1>4. PICK m \in S : \A n \in S : ~(<<n, m>> \in less)
  BY <1>3
<1>5. m \in Nat /\ \A n \in S : n \in Nat /\ ~(<<n, m>> \in less)
  BY <1>4
<1>6. ASSUME NEW n \in S PROVE m <= n
  <2>1. n \in Nat /\ m \in Nat /\ ~(n < m)
    BY <1>1, <1>5
  <2> QED BY <2>1
<1> QED BY <1>6

\* The slot a boot takes.
LEMMA BootTakesFree == Free # {} => NextBoot \in Free
  BY GuestAssumption, LeastNatural DEF Free, NextBoot

BootSteps == {"banner", "prompt", "code", "coded"}
Records == [step : {"none", "finish"} \cup BootSteps, vm : Boots \cup {0},
            banner : {"none", "args", "plain"}, asked : BOOLEAN]
GuestTyped ==
    /\ vm \in [Boots -> {"off", "booting", "answers"}]
    /\ watch \in [Boots -> {"none", "waiting", "ready", "failed"}]
    /\ g \in Boots \cup {0} /\ sess \in Logins \cup {0}
    /\ login \in [Logins -> Records]
    /\ \A l \in Logins : login[l].step = "none" => login[l] = NoLogin

\* One guest at most has the disk: the login's until it has powered off, else s.g.
OneOwner ==
    /\ sess = 0 \/ login[sess].step = "finish" => \A b \in Live : b = g
    /\ sess # 0 => login[sess].step # "none"
    /\ sess # 0 /\ login[sess].step # "finish" => g = 0 /\ \A b \in Live : b = login[sess].vm
    /\ proc \in {"stopped", "down"} => Live = {} /\ g = 0 /\ sess = 0

\* A wait that ended well was for a guest that answered.
SeenAnswering == ServingAnswered /\ \A b \in Boots : watch[b] = "ready" => vm[b] # "booting"

\* The file is that of a login whose guest has not taken it yet.
Credentials ==
    argsFile /\ proc # "down" =>
        sess # 0 /\ login[sess].step \in BootSteps /\ login[sess].banner = "none" /\ mode = "login"

\* What a login may have left on the disk is known.
Marked == (disk => residue \/ unscrubbed) /\ (proc = "down" => unscrubbed)

GuestInv == GuestTyped /\ OneOwner /\ SeenAnswering /\ Credentials /\ Marked

LEMMA EndedRecord == NoLogin \in Records /\ NoLogin.banner = "none" /\ NoLogin.vm = 0
  BY DEF NoLogin, Records

LEMMA GuestInvInit == Init => GuestInv
  BY GuestAssumption, EndedRecord
  DEF Init, GuestInv, GuestTyped, OneOwner, SeenAnswering, ServingAnswered, Credentials, Marked, Live

\* A serving boot where no guest is left: the disk is clean or said not to be.
LEMMA BootServes ==
    ASSUME GuestTyped, SeenAnswering, Marked, Live = {}, NEW f, StartServing(f)
    PROVE  /\ vm' \in [Boots -> {"off", "booting", "answers"}]
           /\ watch' \in [Boots -> {"none", "waiting", "ready", "failed"}]
           /\ g' \in Boots \cup {0} /\ \A b \in Boots : vm'[b] # "off" => b = g'
           /\ proc # "up" => g' = g
           /\ SeenAnswering'
           /\ disk' => residue' \/ unscrubbed'
           /\ \A b \in Boots : watch[b] = "none" /\ watch'[b] = "waiting" => ~disk' \/ residue'
<1> USE GuestAssumption
<1>1. \A b \in Boots : vm[b] = "off"
  BY DEF Live
<1>2. CASE g' = g /\ UNCHANGED <<disk, vm, watch, unscrubbed, mode, residue>>
  BY <1>1, <1>2 DEF GuestTyped, SeenAnswering, ServingAnswered, Marked
<1>3. ASSUME Scrub PROVE disk' => residue'
  BY <1>3 DEF Scrub, Marked
<1>4. CASE Scrub /\ g' = 0 /\ mode' = "failed" /\ UNCHANGED <<vm, watch>> /\ proc = "up"
  BY <1>1, <1>3, <1>4 DEF GuestTyped, SeenAnswering, ServingAnswered
<1>5. CASE /\ Scrub /\ Free # {} /\ g' = NextBoot /\ mode' = "starting" /\ proc = "up"
           /\ vm' = [vm EXCEPT ![NextBoot] = "booting"] /\ watch' = [watch EXCEPT ![NextBoot] = "waiting"]
  <2>1. PICK n \in Boots : n = NextBoot /\ watch[n] = "none"
    BY <1>5, BootTakesFree DEF Free
  <2>2. /\ g' = n /\ vm' = [vm EXCEPT ![n] = "booting"] /\ watch' = [watch EXCEPT ![n] = "waiting"]
    BY <1>5, <2>1
  <2>3. /\ \A b \in Boots : vm'[b] = IF b = n THEN "booting" ELSE "off"
        /\ \A b \in Boots : watch'[b] = IF b = n THEN "waiting" ELSE watch[b]
    BY <2>2, <1>1 DEF GuestTyped
  <2>4. SeenAnswering'
    BY <1>5, <2>3 DEF SeenAnswering, ServingAnswered
  <2> QED BY <1>3, <1>5, <2>2, <2>3, <2>4 DEF GuestTyped
<1> QED BY <1>2, <1>4, <1>5 DEF StartServing, state

\* Run's turns.
LEMMA RunKeepsGuestInv == ASSUME GuestInv, RunTurn \/ BackoffOver PROVE GuestInv'
<1> USE GuestAssumption
<1>ty. GuestTyped /\ OneOwner /\ SeenAnswering /\ Credentials /\ Marked
  BY DEF GuestInv
<1>1. CASE RunStart
  <2>1. /\ proc = "up" /\ sess = 0 /\ (g = 0 \/ Exited(g)) /\ StartServing(backoff)
        /\ UNCHANGED <<proc, argsFile, sess, login>>
    BY <1>1 DEF RunStart
  <2>2. Live = {}
    BY <2>1, <1>ty DEF OneOwner, Exited, Live
  <2>3. GuestTyped'
    BY <2>1, <2>2, <1>ty, BootServes DEF GuestTyped
  <2>4. OneOwner'
    BY <2>1, <2>2, <1>ty, BootServes DEF OneOwner, Live
  <2>5. Credentials'
    BY <2>1, <1>ty DEF Credentials
  <2>6. SeenAnswering' /\ Marked'
    BY <2>1, <2>2, <1>ty, BootServes DEF Marked
  <2> QED BY <2>3, <2>4, <2>5, <2>6 DEF GuestInv
<1>2. CASE RunStop
  <2>1. /\ proc = "up" /\ sess = 0 /\ vm' = Stopped(vm, g) /\ g' = 0 /\ mode' = "stopped"
        /\ UNCHANGED <<proc, argsFile, disk, watch, sess, login, unscrubbed, residue>>
    BY <1>2 DEF RunStop, SetState
  <2>2. /\ vm' \in [Boots -> {"off", "booting", "answers"}]
        /\ \A b \in Boots : vm'[b] = "off"
    BY <2>1, <1>ty DEF Stopped, GuestTyped, OneOwner, Live
  <2>3. GuestTyped' /\ OneOwner' /\ SeenAnswering'
    BY <2>1, <2>2, <1>ty DEF GuestTyped, OneOwner, SeenAnswering, ServingAnswered, Live
  <2>4. Credentials' /\ Marked'
    BY <2>1, <1>ty DEF Credentials, Marked
  <2> QED BY <2>3, <2>4 DEF GuestInv
<1>3. CASE RunEnd
  <2>1. /\ proc = "ending" /\ proc' = "stopped" /\ g' = 0 /\ sess' = 0 /\ mode' = "stopped"
        /\ vm' = IF sess = 0 THEN Stopped(vm, g) ELSE Stopped(Stopped(vm, g), login[sess].vm)
        /\ argsFile' = IF sess = 0 THEN argsFile ELSE FALSE
        /\ UNCHANGED <<disk, watch, login, unscrubbed, residue>>
    BY <1>3 DEF RunEnd, SetState
  <2>2. /\ vm' \in [Boots -> {"off", "booting", "answers"}]
        /\ \A b \in Boots : vm'[b] = "off"
    BY <2>1, <1>ty DEF Stopped, GuestTyped, OneOwner, Live
  <2>3. GuestTyped' /\ OneOwner' /\ SeenAnswering'
    BY <2>1, <2>2, <1>ty DEF GuestTyped, OneOwner, SeenAnswering, ServingAnswered, Live
  <2>4. Credentials' /\ Marked'
    BY <2>1, <1>ty DEF Credentials, Marked
  <2> QED BY <2>3, <2>4 DEF GuestInv
<1>4. CASE BackoffOver
  BY <1>4, <1>ty DEF BackoffOver, files, GuestInv, GuestTyped, OneOwner, SeenAnswering, ServingAnswered,
     Credentials, Marked, Live
<1> QED BY <1>1, <1>2, <1>3, <1>4 DEF RunTurn

\* The guests and those who wait for them.
LEMMA BootsKeepGuestInv ==
    ASSUME GuestInv, NEW b \in Boots, WaitEnds(b) \/ Watched(b) \/ Answers(b) \/ Exits(b)
    PROVE  GuestInv'
<1> USE GuestAssumption
<1>ty. GuestTyped /\ OneOwner /\ SeenAnswering /\ Credentials /\ Marked
  BY DEF GuestInv
<1>1. CASE WaitEnds(b)
  <2>1. /\ watch[b] = "waiting"
        /\ \/ vm[b] = "answers" /\ watch' = [watch EXCEPT ![b] = "ready"]
           \/ watch' = [watch EXCEPT ![b] = "failed"]
        /\ UNCHANGED <<proc, argsFile, disk, vm, g, sess, login, mode, residue, unscrubbed>>
    BY <1>1 DEF WaitEnds, files
  <2>2. GuestTyped' /\ SeenAnswering'
    BY <2>1, <1>ty DEF GuestTyped, SeenAnswering, ServingAnswered
  <2>3. OneOwner' /\ Credentials' /\ Marked'
    BY <2>1, <1>ty DEF OneOwner, Live, Credentials, Marked
  <2> QED BY <2>2, <2>3 DEF GuestInv
<1>2. CASE Watched(b)
  <2>1. /\ watch' = [watch EXCEPT ![b] = "none"]
        /\ \/ UNCHANGED <<vm, mode, residue>>
           \/ g = b /\ watch[b] = "ready" /\ mode' = "serving" /\ UNCHANGED <<vm, residue>>
           \/ g = b /\ mode' = "failed" /\ vm' \in {vm, Stopped(vm, b)} /\ UNCHANGED residue
        /\ UNCHANGED <<proc, argsFile, disk, g, sess, login, unscrubbed>>
    BY <1>2 DEF Watched, SetState, state
  <2>2. GuestTyped'
    BY <2>1, <1>ty DEF GuestTyped, Stopped
  <2>3. SeenAnswering'
    BY <2>1, <1>ty DEF GuestTyped, SeenAnswering, ServingAnswered, Stopped
  <2>4. OneOwner'
    BY <2>1, <1>ty DEF GuestTyped, OneOwner, Live, Stopped
  <2>5. Credentials' /\ Marked'
    BY <2>1, <1>ty DEF OneOwner, Credentials, Marked, BootSteps
  <2> QED BY <2>2, <2>3, <2>4, <2>5 DEF GuestInv
<1>3. CASE Answers(b) \/ Exits(b)
  <2>1. /\ vm[b] # "off"
        /\ vm' = [vm EXCEPT ![b] = "answers"] \/ vm' = [vm EXCEPT ![b] = "off"]
        /\ UNCHANGED <<proc, argsFile, disk, watch, g, sess, login, mode, residue, unscrubbed>>
    BY <1>3 DEF Answers, Exits, Stopped, Live, files
  <2>2. GuestTyped' /\ SeenAnswering'
    BY <2>1, <1>ty DEF GuestTyped, SeenAnswering, ServingAnswered
  <2>3. OneOwner'
    BY <2>1, <1>ty DEF GuestTyped, OneOwner, Live
  <2>4. Credentials' /\ Marked'
    BY <2>1, <1>ty DEF Credentials, Marked
  <2> QED BY <2>2, <2>3, <2>4 DEF GuestInv
<1> QED BY <1>1, <1>2, <1>3

\* A step of a login: where it goes, with its guest and the session as they were.
LEMMA LoginMoves ==
    ASSUME GuestInv, NEW l \in Logins, NEW to \in Records,
           login' = [login EXCEPT ![l] = to],
           UNCHANGED <<proc, disk, vm, watch, g, sess, mode, residue, unscrubbed>>,
           to.step \in BootSteps, login[l].step \in BootSteps, to.vm = login[l].vm,
           argsFile' = FALSE \/ (argsFile' = argsFile /\ to.banner = login[l].banner)
    PROVE  GuestInv'
<1> USE GuestAssumption
<1>ty. GuestTyped /\ OneOwner /\ SeenAnswering /\ Credentials /\ Marked
  BY DEF GuestInv
<1>1. \A k \in Logins : login'[k] = IF k = l THEN to ELSE login[k]
  BY <1>ty DEF GuestTyped
<1>2. GuestTyped'
  BY <1>1, <1>ty DEF GuestTyped, BootSteps
<1>3. OneOwner'
  BY <1>1, <1>ty DEF OneOwner, Live, BootSteps, GuestTyped
<1>4. Credentials'
  BY <1>1, <1>ty DEF Credentials, GuestTyped
<1>5. SeenAnswering' /\ Marked'
  BY <1>ty DEF SeenAnswering, ServingAnswered, Marked
<1> QED BY <1>2, <1>3, <1>4, <1>5 DEF GuestInv

LEMMA LoginsKeepGuestInv ==
    ASSUME GuestInv, NEW l \in Logins,
           \/ StartLogin(l) \/ StartLoginFails(l) \/ Calls(l) \/ SubmitCode(l) \/ PrintsBanner(l) \/ Asks(l)
    PROVE  GuestInv'
<1> USE GuestAssumption
<1>ty. GuestTyped /\ OneOwner /\ SeenAnswering /\ Credentials /\ Marked
  BY DEF GuestInv
<1>1. CASE StartLogin(l)
  <2>1. /\ login[l].step = "none" /\ proc = "up" /\ sess = 0 /\ Free # {}
        /\ g' = 0 /\ sess' = l /\ mode' = "login" /\ residue' = TRUE
        /\ vm' = [Stopped(vm, g) EXCEPT ![NextBoot] = "booting"]
        /\ login' = [login EXCEPT ![l] = [login[l] EXCEPT !.step = "banner", !.vm = NextBoot]]
        /\ UNCHANGED <<proc, watch, unscrubbed>>
    BY <1>1 DEF StartLogin, At, LoginAllowed, SetState
  <2>2. PICK n \in Boots : n = NextBoot /\ watch[n] = "none"
    BY <2>1, BootTakesFree DEF Free
  <2>3. \A b \in Boots : vm'[b] = IF b = n THEN "booting" ELSE "off"
    BY <2>1, <2>2, <1>ty DEF Stopped, GuestTyped, OneOwner, Live
  <2>4. vm' \in [Boots -> {"off", "booting", "answers"}]
    BY <2>1, <2>2, <1>ty DEF Stopped, GuestTyped
  <2>5. login[l] = NoLogin
    BY <2>1, <1>ty DEF GuestTyped
  <2>6. PICK to \in Records : /\ login' = [login EXCEPT ![l] = to]
                             /\ to.step = "banner" /\ to.vm = n /\ to.banner = "none"
    <3>1. login[l] \in Records /\ login[l].banner = "none"
      BY <2>5, <1>ty, EndedRecord DEF GuestTyped
    <3> DEFINE new == [login[l] EXCEPT !.step = "banner", !.vm = n]
    <3>2. new \in Records /\ new.step = "banner" /\ new.vm = n /\ new.banner = "none"
      BY <3>1 DEF Records, BootSteps
    <3> QED BY <2>1, <2>2, <3>2
  <2>7. GuestTyped'
    BY <2>1, <2>4, <2>6, <1>ty DEF GuestTyped
  <2>8. login'[l].step = "banner" /\ login'[l].vm = n /\ login'[l].banner = "none"
    BY <2>6, <1>ty DEF GuestTyped
  <2>9. OneOwner'
    BY <2>1, <2>3, <2>8 DEF OneOwner, Live
  <2>10. SeenAnswering'
    BY <2>1, <2>2, <2>3, <1>ty DEF SeenAnswering, ServingAnswered
  <2>11. Credentials' /\ Marked'
    BY <2>1, <2>8 DEF Credentials, Marked, BootSteps
  <2> QED BY <2>7, <2>9, <2>10, <2>11 DEF GuestInv
<1>2. CASE StartLoginFails(l)
  <2>1. /\ proc = "up" /\ sess = 0 /\ g' = 0 /\ vm' = Stopped(vm, g) /\ argsFile' = FALSE
        /\ mode' = "stopped" /\ residue' = TRUE
        /\ UNCHANGED <<proc, disk, watch, sess, login, unscrubbed>>
    BY <1>2 DEF StartLoginFails, LoginAllowed, SetState
  <2>2. /\ vm' \in [Boots -> {"off", "booting", "answers"}]
        /\ \A b \in Boots : vm'[b] = "off"
    BY <2>1, <1>ty DEF Stopped, GuestTyped, OneOwner, Live
  <2>3. GuestTyped' /\ OneOwner' /\ SeenAnswering'
    BY <2>1, <2>2, <1>ty DEF GuestTyped, OneOwner, SeenAnswering, ServingAnswered, Live
  <2>4. Credentials' /\ Marked'
    BY <2>1, <1>ty DEF Credentials, Marked
  <2> QED BY <2>3, <2>4 DEF GuestInv
<1>3. CASE SeeBanner(l)
  <2> DEFINE new == [login[l] EXCEPT !.step = "prompt"]
  <2>1. /\ login[l].step = "banner" /\ login' = [login EXCEPT ![l] = new]
        /\ UNCHANGED <<proc, argsFile, disk, vm, watch, g, sess, mode, residue, unscrubbed>>
    BY <1>3 DEF SeeBanner, At, Goto, files
  <2>2. new \in Records /\ new.step = "prompt" /\ new.vm = login[l].vm /\ new.banner = login[l].banner
    BY <1>ty DEF GuestTyped, Records, BootSteps
  <2> QED BY <2>1, <2>2, LoginMoves DEF BootSteps
<1>4. CASE SeePrompt(l)
  <2> DEFINE new == [login[l] EXCEPT !.step = "code"]
  <2>1. /\ login[l].step = "prompt" /\ login' = [login EXCEPT ![l] = new]
        /\ UNCHANGED <<proc, argsFile, disk, vm, watch, g, sess, mode, residue, unscrubbed>>
    BY <1>4 DEF SeePrompt, At, Goto, files
  <2>2. new \in Records /\ new.step = "code" /\ new.vm = login[l].vm /\ new.banner = login[l].banner
    BY <1>ty DEF GuestTyped, Records, BootSteps
  <2> QED BY <2>1, <2>2, LoginMoves DEF BootSteps
<1>5. CASE SubmitCode(l)
  <2> DEFINE new == [login[l] EXCEPT !.step = "coded"]
  <2>1. /\ login[l].step = "code" /\ login' = [login EXCEPT ![l] = new]
        /\ UNCHANGED <<proc, argsFile, disk, vm, watch, g, sess, mode, residue, unscrubbed>>
    BY <1>5 DEF SubmitCode, At, Goto, files
  <2>2. new \in Records /\ new.step = "coded" /\ new.vm = login[l].vm /\ new.banner = login[l].banner
    BY <1>ty DEF GuestTyped, Records, BootSteps
  <2> QED BY <2>1, <2>2, LoginMoves DEF BootSteps
<1>off. login[l].vm \in Live => login[l].step # "none"
  BY <1>ty DEF GuestTyped, NoLogin, Live
<1>6. CASE PrintsBanner(l)
  <2>1. PICK line \in {"args", "plain"} :
           /\ login' = [login EXCEPT ![l].banner = line] /\ argsFile' = FALSE /\ login[l].vm \in Live
           /\ UNCHANGED <<proc, disk, vm, watch, g, sess, mode, residue, unscrubbed>>
    BY <1>6 DEF PrintsBanner
  <2> DEFINE new == [login[l] EXCEPT !.banner = line]
  <2>2. new \in Records /\ new.step = login[l].step /\ new.vm = login[l].vm
    BY <1>ty DEF GuestTyped, Records
  <2>3. \A k \in Logins : login'[k] = IF k = l THEN new ELSE login[k]
    BY <2>1, <1>ty DEF GuestTyped
  <2> HIDE DEF new
  <2>4. GuestTyped'
    BY <2>1, <2>2, <2>3, <1>off, <1>ty DEF GuestTyped
  <2>5. OneOwner'
    BY <2>1, <2>2, <2>3, <1>ty DEF OneOwner, Live, GuestTyped
  <2>6. SeenAnswering' /\ Credentials' /\ Marked'
    BY <2>1, <1>ty DEF SeenAnswering, ServingAnswered, Credentials, Marked
  <2> QED BY <2>4, <2>5, <2>6 DEF GuestInv
<1>7. CASE Asks(l)
  <2>1. /\ login' = [login EXCEPT ![l].asked = TRUE] /\ login[l].vm \in Live
        /\ UNCHANGED <<proc, argsFile, disk, vm, watch, g, sess, mode, residue, unscrubbed>>
    BY <1>7 DEF Asks, files
  <2> DEFINE new == [login[l] EXCEPT !.asked = TRUE]
  <2>2. /\ new \in Records /\ new.step = login[l].step /\ new.vm = login[l].vm
        /\ new.banner = login[l].banner
    BY <1>ty DEF GuestTyped, Records
  <2>3. \A k \in Logins : login'[k] = IF k = l THEN new ELSE login[k]
    BY <2>1, <1>ty DEF GuestTyped
  <2> HIDE DEF new
  <2>4. GuestTyped'
    BY <2>1, <2>2, <2>3, <1>off, <1>ty DEF GuestTyped
  <2>5. OneOwner'
    BY <2>1, <2>2, <2>3, <1>ty DEF OneOwner, Live, GuestTyped
  <2>6. SeenAnswering' /\ Credentials' /\ Marked'
    BY <2>1, <2>2, <2>3, <1>ty DEF SeenAnswering, ServingAnswered, Credentials, Marked, GuestTyped
  <2> QED BY <2>4, <2>5, <2>6 DEF GuestInv
<1>8. CASE GiveUp(l)
  <2>1. /\ login[l].step \in BootSteps /\ login' = [login EXCEPT ![l] = NoLogin]
        /\ UNCHANGED <<proc, disk, watch, g, unscrubbed>>
        /\ \/ /\ sess = l /\ vm' = Stopped(vm, login[l].vm) /\ argsFile' = FALSE /\ sess' = 0
              /\ mode' = "stopped" /\ UNCHANGED residue
           \/ sess # l /\ UNCHANGED <<vm, argsFile, sess, mode, residue>>
    BY <1>8 DEF GiveUp, EndLogin, End, SetState, state, BootSteps
  <2>2. \A k \in Logins : login'[k] = IF k = l THEN NoLogin ELSE login[k]
    BY <2>1, <1>ty DEF GuestTyped
  <2>3. GuestTyped'
    BY <2>1, <2>2, <1>ty, EndedRecord DEF GuestTyped, Stopped
  <2>4. CASE sess = l
    <3>1. \A b \in Boots : vm'[b] = "off"
      BY <2>1, <2>4, <1>ty DEF Stopped, GuestTyped, OneOwner, Live, BootSteps
    <3>2. OneOwner' /\ SeenAnswering'
      BY <2>1, <2>4, <3>1, <1>ty DEF OneOwner, SeenAnswering, ServingAnswered, Live
    <3>3. Credentials' /\ Marked'
      BY <2>1, <2>4, <1>ty DEF Credentials, Marked
    <3> QED BY <2>3, <3>2, <3>3 DEF GuestInv
  <2>5. CASE sess # l
    <3>1. OneOwner' /\ SeenAnswering'
      BY <2>1, <2>2, <2>5, <1>ty DEF OneOwner, SeenAnswering, ServingAnswered, Live, GuestTyped
    <3>2. Credentials' /\ Marked'
      BY <2>1, <2>2, <2>5, <1>ty DEF Credentials, Marked, GuestTyped
    <3> QED BY <2>3, <3>1, <3>2 DEF GuestInv
  <2> QED BY <2>4, <2>5
<1>9. CASE FinishLogin(l)
  <2>1. CASE sess = l
    <3>1. /\ login[l].step \in {"prompt", "coded"} /\ Exited(login[l].vm) /\ argsFile' = FALSE
          /\ StartServing(FALSE) /\ login' = [login EXCEPT ![l].step = "finish"]
          /\ UNCHANGED <<proc, sess>>
      BY <1>9, <2>1 DEF FinishLogin, Goto
    <3>2. Live = {}
      BY <2>1, <3>1, <1>ty DEF OneOwner, Exited, Live
    <3> DEFINE new == [login[l] EXCEPT !.step = "finish"]
    <3>3. new \in Records /\ new.step = "finish" /\ \A k \in Logins : login'[k] = IF k = l THEN new ELSE login[k]
      BY <3>1, <1>ty DEF GuestTyped, Records
    <3> HIDE DEF new
    <3>4. GuestTyped'
      <4>1. login' \in [Logins -> Records] /\ \A k \in Logins : login'[k].step = "none" => login'[k] = NoLogin
        BY <3>1, <3>3, <1>ty DEF GuestTyped
      <4> QED BY <4>1, <3>1, <3>2, <1>ty, BootServes DEF GuestTyped
    <3>5. sess' # 0 /\ login'[sess'].step = "finish" /\ proc' \notin {"stopped", "down"}
      BY <2>1, <3>1, <3>3, <1>ty DEF GuestTyped, OneOwner
    <3>6. OneOwner'
      BY <3>2, <3>1, <3>5, <1>ty, BootServes DEF OneOwner, Live
    <3>7. SeenAnswering' /\ Marked'
      BY <3>1, <3>2, <3>5, <1>ty, BootServes DEF Marked
    <3>8. Credentials'
      BY <3>1 DEF Credentials
    <3> QED BY <3>4, <3>6, <3>7, <3>8 DEF GuestInv
  <2>2. CASE sess # l
    <3>1. /\ login' = [login EXCEPT ![l] = NoLogin]
          /\ UNCHANGED <<proc, argsFile, disk, vm, watch, g, sess, mode, residue, unscrubbed>>
      BY <1>9, <2>2 DEF FinishLogin, End, state
    <3>2. \A k \in Logins : login'[k] = IF k = l THEN NoLogin ELSE login[k]
      BY <3>1, <1>ty DEF GuestTyped
    <3>3. GuestTyped'
      BY <3>1, <3>2, <1>ty, EndedRecord DEF GuestTyped
    <3>4. OneOwner' /\ SeenAnswering' /\ Credentials' /\ Marked'
      BY <2>2, <3>1, <3>2, <1>ty DEF OneOwner, SeenAnswering, ServingAnswered, Live, GuestTyped, Credentials, Marked
    <3> QED BY <3>3, <3>4 DEF GuestInv
  <2> QED BY <2>1, <2>2
<1>10. CASE HandBack(l)
  <2>1. /\ login[l].step = "finish" /\ login' = [login EXCEPT ![l] = NoLogin]
        /\ sess' = IF sess = l THEN 0 ELSE sess
        /\ UNCHANGED <<proc, argsFile, disk, vm, watch, g, mode, residue, unscrubbed>>
    BY <1>10 DEF HandBack, At, End, files
  <2>2. \A k \in Logins : login'[k] = IF k = l THEN NoLogin ELSE login[k]
    BY <2>1, <1>ty DEF GuestTyped
  <2>3. GuestTyped'
    BY <2>1, <2>2, <1>ty, EndedRecord DEF GuestTyped
  <2>4. OneOwner' /\ SeenAnswering' /\ Marked'
    BY <2>1, <2>2, <1>ty DEF OneOwner, SeenAnswering, ServingAnswered, Live, GuestTyped, Marked
  <2>5. Credentials'
    BY <2>1, <2>2, <1>ty DEF Credentials, GuestTyped, BootSteps
  <2> QED BY <2>3, <2>4, <2>5 DEF GuestInv
<1> QED
  BY <1>1, <1>2, <1>3, <1>4, <1>5, <1>6, <1>7, <1>8, <1>9, <1>10 DEF Calls

\* Every step of the supervisor, its goroutines, its guests and its process.
LEMMA GuestInvStep == GuestInv /\ [Next]_vars => GuestInv'
<1> SUFFICES ASSUME GuestInv, [Next]_vars PROVE GuestInv'
  OBVIOUS
<1> USE GuestAssumption
<1>ty. GuestTyped /\ OneOwner /\ SeenAnswering /\ Credentials /\ Marked
  BY DEF GuestInv
<1>1. CASE Logout
  <2>1. /\ proc \in {"up", "ending", "stopped"} /\ sess = 0 /\ g' = 0 /\ vm' = Stopped(vm, g)
        /\ \/ disk' = FALSE /\ mode' = "stopped" /\ residue' = FALSE
           \/ UNCHANGED disk /\ mode' = "failed" /\ UNCHANGED residue
        /\ UNCHANGED <<proc, argsFile, watch, sess, login, unscrubbed>>
    BY <1>1 DEF Logout, SetState
  <2>2. /\ vm' \in [Boots -> {"off", "booting", "answers"}]
        /\ \A b \in Boots : vm'[b] = "off"
    BY <2>1, <1>ty DEF Stopped, GuestTyped, OneOwner, Live
  <2>3. GuestTyped' /\ OneOwner' /\ SeenAnswering'
    BY <2>1, <2>2, <1>ty DEF GuestTyped, OneOwner, SeenAnswering, ServingAnswered, Live
  <2>4. Credentials' /\ Marked'
    BY <2>1, <1>ty DEF Credentials, Marked
  <2> QED BY <2>3, <2>4 DEF GuestInv
<1>2. CASE Toggle \/ ContextEnds \/ UNCHANGED vars
  <2>1. /\ UNCHANGED <<argsFile, disk, vm, watch, g, sess, login, mode, residue, unscrubbed>>
        /\ proc' = proc \/ (proc = "up" /\ proc' = "ending")
    BY <1>2 DEF Toggle, ContextEnds, files, vars
  <2> QED BY <2>1, <1>ty DEF GuestInv, GuestTyped, OneOwner, SeenAnswering, ServingAnswered, Credentials, Marked, Live
<1>3. CASE Dies
  <2>1. /\ proc' = "down" /\ vm' = [b \in Boots |-> "off"] /\ watch' = [b \in Boots |-> "none"]
        /\ login' = [l \in Logins |-> NoLogin] /\ g' = 0 /\ sess' = 0 /\ mode' = "stopped"
        /\ unscrubbed' = TRUE
    BY <1>3 DEF Dies
  <2>2. GuestTyped'
    BY <2>1, EndedRecord DEF GuestTyped
  <2> QED BY <2>1, <2>2 DEF GuestInv, OneOwner, SeenAnswering, ServingAnswered, Credentials, Marked, Live
<1>4. CASE NewSupervisor
  <2>1. /\ proc = "down" /\ proc' = "up" /\ argsFile' = FALSE
        /\ UNCHANGED <<disk, vm, watch, g, sess, login, mode, unscrubbed>>
    BY <1>4 DEF NewSupervisor
  <2>2. GuestTyped' /\ OneOwner' /\ SeenAnswering'
    BY <2>1, <1>ty DEF GuestTyped, OneOwner, SeenAnswering, ServingAnswered, Live
  <2>3. Credentials' /\ Marked'
    BY <2>1, <1>ty DEF Credentials, Marked
  <2> QED BY <2>2, <2>3 DEF GuestInv
<1> QED
  BY <1>1, <1>2, <1>3, <1>4, RunKeepsGuestInv, BootsKeepGuestInv, LoginsKeepGuestInv DEF Next

\* One guest at most has the disk, the credentials' file goes with its login, and
\* "serving" is said of a guest that answered, whatever logs in, exits or restarts.
THEOREM GuestsHold == Spec => []GuestHolds
<1>1. GuestInv => GuestHolds
  <2> SUFFICES ASSUME GuestInv PROVE GuestHolds
    OBVIOUS
  <2>1. CredentialsFileGoes /\ ServingAnswered
    BY DEF GuestInv, Credentials, SeenAnswering, CredentialsFileGoes
  <2>2. PICK x : \A b \in Live : b = x
    <3>1. CASE sess = 0 \/ login[sess].step = "finish"
      BY <3>1 DEF GuestInv, OneOwner
    <3>2. CASE ~(sess = 0 \/ login[sess].step = "finish")
      BY <3>2 DEF GuestInv, OneOwner
    <3> QED BY <3>1, <3>2
  <2>3. Live = {} \/ Live = {x}
    BY <2>2
  <2>4. Cardinality(Live) \in {0, 1} /\ (Live = {} => Cardinality(Live) = 0)
    <3>1. Live = {} => Cardinality(Live) = 0
      BY FS_EmptySet
    <3>2. Live = {x} => Cardinality(Live) = 1
      BY FS_Singleton
    <3> QED BY <2>3, <3>1, <3>2
  <2>5. OneGuest
    BY <2>4 DEF GuestInv, OneOwner, OneGuest
  <2> QED BY <2>1, <2>5 DEF GuestHolds
<1> QED BY <1>1, GuestInvInit, GuestInvStep, PTL DEF Spec

\* No serving guest boots over a login's arguments without that being recorded,
\* and the disk is rewritten with no guest on it.
THEOREM BootsAreScrubbed == Spec => ServesScrubbed
<1>1. ASSUME GuestInv, [Next]_vars
      PROVE  [/\ \A b \in Boots : watch[b] = "none" /\ watch'[b] = "waiting" => ~disk' \/ residue'
              /\ disk /\ ~disk' => \A b \in Boots : b \in Live => vm'[b] = "off"]_vars
  <2> USE <1>1, GuestAssumption
  <2>ty. GuestTyped /\ OneOwner /\ SeenAnswering /\ Credentials /\ Marked
    BY DEF GuestInv
  <2>1. CASE UNCHANGED <<disk, watch>>
    BY <2>1
  <2>2. ASSUME NEW f, StartServing(f), Live = {}
        PROVE  /\ \A b \in Boots : watch[b] = "none" /\ watch'[b] = "waiting" => ~disk' \/ residue'
               /\ \A b \in Boots : b \in Live => vm'[b] = "off"
    BY <2>2, <2>ty, BootServes
  <2>3. CASE RunStart
    <3>1. Live = {}
      BY <2>3, <2>ty DEF RunStart, OneOwner, Exited, Live
    <3> QED BY <2>2, <2>3, <3>1 DEF RunStart
  <2>4. ASSUME NEW l \in Logins, FinishLogin(l), sess = l PROVE StartServing(FALSE) /\ Live = {}
    BY <2>4, <2>ty DEF FinishLogin, OneOwner, Exited, Live
  <2>5. CASE Logout
    BY <2>5, <2>ty DEF Logout, Stopped, OneOwner, GuestTyped, Live
  <2>6. CASE Dies
    BY <2>6 DEF Dies, files
  <2>7. ASSUME NEW b \in Boots, WaitEnds(b) \/ Watched(b)
        PROVE  UNCHANGED disk /\ \A a \in Boots : watch[a] = "none" => watch'[a] # "waiting"
    BY <2>7, <2>ty DEF WaitEnds, Watched, GuestTyped, files
  <2>8. ASSUME NEW l \in Logins, StartLogin(l) PROVE disk' = TRUE /\ UNCHANGED watch
    BY <2>8 DEF StartLogin
  <2>9. ASSUME NEW l \in Logins, FinishLogin(l), sess # l PROVE UNCHANGED <<disk, watch>>
    BY <2>9 DEF FinishLogin
  <2>10. CASE RunStop \/ RunEnd \/ BackoffOver \/ Toggle \/ ContextEnds \/ NewSupervisor \/ UNCHANGED vars
    BY <2>10 DEF RunStop, RunEnd, BackoffOver, Toggle, ContextEnds, NewSupervisor, vars, files
  <2>11. ASSUME NEW b \in Boots, Answers(b) \/ Exits(b) PROVE UNCHANGED <<disk, watch>>
    BY <2>11 DEF Answers, Exits, files
  <2>12. ASSUME NEW l \in Logins,
                \/ StartLoginFails(l) \/ SeeBanner(l) \/ SeePrompt(l) \/ GiveUp(l) \/ HandBack(l)
                \/ SubmitCode(l) \/ PrintsBanner(l) \/ Asks(l)
         PROVE  UNCHANGED <<disk, watch>>
    BY <2>12 DEF StartLoginFails, SeeBanner, SeePrompt, GiveUp, HandBack, SubmitCode, PrintsBanner, Asks, files
  <2> QED
    BY <2>1, <2>2, <2>3, <2>4, <2>5, <2>6, <2>7, <2>8, <2>9, <2>10, <2>11, <2>12 DEF Next, RunTurn, Calls
<1> QED BY <1>1, GuestInvInit, GuestInvStep, PTL DEF Spec, ServesScrubbed

-----------------------------------------------------------------------------
(* The templates callers share *)

Steps == {"free", "start", "lane", "queue", "ask", "fill"}
Results == {"none", "template", "error", "cancelled"}
Entries == [key : Keys \cup {"none"}, step : Steps, lane : BOOLEAN, attempt : Nat, waiters : Int,
            needed : BOOLEAN, cancelled : BOOLEAN, result : Results]

KeyTyped ==
    /\ waits \in [Callers -> Fetches \cup {"none"}]
    /\ fetch \in [Fetches -> Entries]
    /\ listed \in [Keys -> Fetches \cup {"none"}]
    /\ life \in BOOLEAN

\* Nobody waits for an entry any more, and nobody will find it.
Forgotten(f) == Waiting(f) = {} /\ \A k \in Keys : listed[k] # f

\* The waiters an entry counts are the callers that wait for it.
Counted == \A f \in Fetches : fetch[f].step # "free" => fetch[f].waiters = Cardinality(Waiting(f))
\* Only an entry everybody left is cancelled, or, the client being open, ends so.
LeftAlone ==
    \A f \in Fetches : \/ fetch[f].step # "free" /\ fetch[f].cancelled
                       \/ life /\ fetch[f].result = "cancelled"
                       => Forgotten(f)
Listing == \A k \in Keys : listed[k] # "none" => fetch[listed[k]].key = k

KeyInv == KeyTyped /\ Counted /\ LeftAlone /\ Listing

LEMMA KeyInvInit == KeyInit => KeyInv
  BY KeyAssumption
  DEF KeyInit, KeyInv, KeyTyped, Counted, LeftAlone, Listing, Forgotten, Waiting, NoFetch, Entries,
      Steps, Results

LEMMA EmptyEntry ==
    /\ NoFetch \in Entries /\ NoFetch.step = "free" /\ ~NoFetch.cancelled /\ NoFetch.result = "none"
  BY DEF NoFetch, Entries, Steps, Results

\* Callers come and go in finite numbers.
LEMMA WaitingCounts ==
    ASSUME NEW f PROVE IsFiniteSet(Waiting(f)) /\ Cardinality(Waiting(f)) \in Nat
  BY KeyAssumption, FS_Subset, FS_CardinalityType DEF Waiting

\* A step of a fetch that keeps its key, its waiters and its cancellation.
LEMMA FetchMoves ==
    ASSUME KeyInv, NEW f \in Fetches, NEW new \in Entries, FetchGoes(f, new), fetch[f].step # "free",
           new.key = fetch[f].key, new.waiters = fetch[f].waiters, new.cancelled = fetch[f].cancelled,
           new.result = "cancelled" => fetch[f].result = "cancelled" \/ Cancelled(f)
    PROVE  KeyInv'
<1>1. /\ fetch' = [fetch EXCEPT ![f] = new] /\ waits' = waits /\ listed' = listed /\ life' = life
      /\ KeyTyped /\ Counted /\ LeftAlone /\ Listing
  BY DEF FetchGoes, KeyInv
<1>2. \A e \in Fetches : /\ fetch'[e] = IF e = f THEN new ELSE fetch[e]
                         /\ Waiting(e)' = Waiting(e) /\ Forgotten(e)' = Forgotten(e)
  BY <1>1 DEF KeyTyped, Waiting, Forgotten
<1>3. KeyTyped'
  BY <1>1, <1>2 DEF KeyTyped
<1>4. Counted'
  BY <1>1, <1>2 DEF Counted
<1>5. LeftAlone'
  <2>1. SUFFICES ASSUME NEW e \in Fetches,
                        \/ fetch'[e].step # "free" /\ fetch'[e].cancelled
                        \/ life' /\ fetch'[e].result = "cancelled"
                 PROVE  Forgotten(e)
    BY <1>2 DEF LeftAlone
  <2>2. CASE e = f
    BY <2>1, <2>2, <1>1, <1>2 DEF LeftAlone, Cancelled
  <2>3. CASE e # f
    BY <2>1, <2>3, <1>1, <1>2 DEF LeftAlone
  <2> QED BY <2>2, <2>3
<1>6. Listing'
  BY <1>1, <1>2 DEF Listing, KeyTyped
<1> QED BY <1>3, <1>4, <1>5, <1>6 DEF KeyInv

LEMMA CallersKeepKeyInv ==
    ASSUME KeyInv, NEW c \in Callers,
           \/ \E k \in Keys, needs \in BOOLEAN : Get(c, k, needs)
           \/ Answered(c) \/ Leave(c)
    PROVE  KeyInv'
<1> USE KeyAssumption
<1>ty. KeyTyped /\ Counted /\ LeftAlone /\ Listing
  BY DEF KeyInv
<1>1. ASSUME NEW k \in Keys, NEW needs \in BOOLEAN, Get(c, k, needs) PROVE KeyInv'
  <2>0. waits[c] = "none" /\ life' = life
    BY <1>1 DEF Get
  <2>1. CASE UNCHANGED <<waits, fetch, listed>>
    BY <2>0, <2>1, <1>ty DEF KeyInv, KeyTyped, Counted, LeftAlone, Listing, Forgotten, Waiting
  <2>2. ASSUME NEW f \in Fetches, listed[k] = f, ~Loaded(f), listed' = listed,
               fetch' = [fetch EXCEPT ![f].waiters = fetch[f].waiters + 1,
                                      ![f].needed = fetch[f].needed \/ needs],
               waits' = [waits EXCEPT ![c] = f]
        PROVE  KeyInv'
    <3>0. PICK n \in BOOLEAN, m \in Int : n = (fetch[f].needed \/ needs) /\ m = fetch[f].waiters + 1
      BY <1>ty DEF KeyTyped, Entries
    <3> DEFINE new == [fetch[f] EXCEPT !.waiters = m, !.needed = n]
    <3>1. /\ new \in Entries /\ new.key = fetch[f].key /\ new.waiters = fetch[f].waiters + 1
          /\ new.cancelled = fetch[f].cancelled /\ new.result = fetch[f].result /\ new.step = fetch[f].step
      <4>1. fetch[f] \in Entries /\ m = fetch[f].waiters + 1
        BY <3>0, <1>ty DEF KeyTyped
      <4> QED BY <4>1 DEF Entries
    <3>2. \A e \in Fetches : fetch'[e] = IF e = f THEN new ELSE fetch[e]
      BY <2>2, <3>0, <1>ty DEF KeyTyped
    <3> HIDE DEF new
    <3>3. /\ Waiting(f)' = Waiting(f) \cup {c} /\ c \notin Waiting(f)
          /\ \A e \in Fetches \ {f} : Waiting(e)' = Waiting(e)
      BY <2>0, <2>2, <1>ty DEF KeyTyped, Waiting
    <3>4. KeyTyped'
      <4>1. fetch' \in [Fetches -> Entries]
        BY <3>1, <3>2, <2>2, <1>ty DEF KeyTyped
      <4> QED BY <4>1, <2>0, <2>2, <1>ty DEF KeyTyped
    <3>5. Counted'
      <4>1. Cardinality(Waiting(f)') = Cardinality(Waiting(f)) + 1
        BY <3>3, WaitingCounts, FS_AddElement
      <4> QED BY <4>1, <3>1, <3>2, <3>3, <1>ty DEF Counted
    <3>6. LeftAlone'
      <4>1. ~Forgotten(f)
        BY <2>2 DEF Forgotten
      <4>2. \A e \in Fetches \ {f} : Forgotten(e)' = Forgotten(e)
        BY <2>2, <3>3 DEF Forgotten
      <4> QED BY <4>1, <4>2, <3>1, <3>2, <2>0, <1>ty DEF LeftAlone
    <3>7. Listing'
      BY <2>2, <3>1, <3>2, <1>ty DEF Listing, KeyTyped
    <3> QED BY <3>4, <3>5, <3>6, <3>7 DEF KeyInv
  <2>3. ASSUME NEW f \in Fetches, listed[k] = "none", Unused(f), listed' = [listed EXCEPT ![k] = f],
               fetch' = [fetch EXCEPT ![f] = [NoFetch EXCEPT !.key = k, !.step = "start",
                                                             !.waiters = 1, !.needed = needs]],
               waits' = [waits EXCEPT ![c] = f]
        PROVE  KeyInv'
    <3> DEFINE new == [NoFetch EXCEPT !.key = k, !.step = "start", !.waiters = 1, !.needed = needs]
    <3>1. /\ new \in Entries /\ new.key = k /\ new.waiters = 1 /\ ~new.cancelled
          /\ new.result = "none" /\ new.step = "start"
      <4>1. new \in Entries
        <5>1. NoFetch \in Entries /\ k \in Keys \cup {"none"} /\ "start" \in Steps /\ 1 \in Int
          BY EmptyEntry DEF Steps
        <5>2. [NoFetch EXCEPT !.key = k] \in Entries
          BY <5>1 DEF Entries
        <5>3. [[NoFetch EXCEPT !.key = k] EXCEPT !.step = "start"] \in Entries
          BY <5>1, <5>2 DEF Entries
        <5>4. [[[NoFetch EXCEPT !.key = k] EXCEPT !.step = "start"] EXCEPT !.waiters = 1] \in Entries
          BY <5>1, <5>3 DEF Entries
        <5>5. [[[[NoFetch EXCEPT !.key = k] EXCEPT !.step = "start"] EXCEPT !.waiters = 1] EXCEPT !.needed = needs] \in Entries
          BY <5>1, <5>4 DEF Entries
        <5> QED BY <5>5
      <4>2. new.key = k /\ new.waiters = 1 /\ new.step = "start"
        BY EmptyEntry DEF Entries
      <4>3. new.cancelled = NoFetch.cancelled /\ new.result = NoFetch.result
        BY EmptyEntry DEF Entries
      <4> HIDE DEF new
      <4> QED BY <4>1, <4>2, <4>3, EmptyEntry
    <3>2. \A e \in Fetches : fetch'[e] = IF e = f THEN new ELSE fetch[e]
      BY <2>3, <1>ty DEF KeyTyped
    <3> HIDE DEF new
    <3>3. Waiting(f)' = {c} /\ \A e \in Fetches \ {f} : Waiting(e)' = Waiting(e)
      BY <2>0, <2>3, <1>ty DEF KeyTyped, Waiting, Unused
    <3>4. KeyTyped'
      <4>1. fetch' \in [Fetches -> Entries]
        BY <3>1, <3>2, <2>3, <1>ty DEF KeyTyped
      <4> QED BY <4>1, <2>0, <2>3, <1>ty DEF KeyTyped
    <3>5. Counted'
      <4>1. Cardinality(Waiting(f)') = 1
        BY <3>3, FS_Singleton
      <4> QED BY <4>1, <3>1, <3>2, <3>3, <1>ty DEF Counted
    <3>6. LeftAlone'
      <4>1. \A e \in Fetches \ {f} : Forgotten(e) => Forgotten(e)'
        BY <2>3, <3>3, <1>ty DEF Forgotten, KeyTyped
      <4> QED BY <4>1, <3>1, <3>2, <2>0, <1>ty DEF LeftAlone
    <3>7. Listing'
      BY <2>3, <3>1, <3>2, <1>ty DEF Listing, KeyTyped, Unused
    <3> QED BY <3>4, <3>5, <3>6, <3>7 DEF KeyInv
  <2> QED BY <1>1, <2>1, <2>2, <2>3 DEF Get
<1>2. CASE Answered(c)
  <2>1. /\ waits[c] # "none" /\ fetch[waits[c]].step = "free" /\ waits' = [waits EXCEPT ![c] = "none"]
        /\ fetch' = fetch /\ listed' = listed /\ life' = life
    BY <1>2 DEF Answered, Loaded
  <2>2. \A e \in Fetches : Waiting(e)' = Waiting(e) \ {c} /\ (e # waits[c] => c \notin Waiting(e))
    BY <2>1, <1>ty DEF KeyTyped, Waiting
  <2>3. KeyTyped'
    BY <2>1, <1>ty DEF KeyTyped
  <2>4. Counted'
    <3>1. ASSUME NEW e \in Fetches, fetch[e].step # "free" PROVE Waiting(e)' = Waiting(e)
      BY <2>1, <2>2, <3>1
    <3> QED BY <3>1, <2>1, <1>ty DEF Counted
  <2>5. LeftAlone'
    BY <2>1, <2>2, <1>ty DEF LeftAlone, Forgotten
  <2>6. Listing'
    BY <2>1, <1>ty DEF Listing
  <2> QED BY <2>3, <2>4, <2>5, <2>6 DEF KeyInv
<1>3. CASE Leave(c)
  <2>0. PICK f \in Fetches, last \in BOOLEAN : f = waits[c] /\ last = (fetch[f].waiters = 1 /\ ~Loaded(f))
    BY <1>3, <1>ty DEF Leave, KeyTyped
  <2>1. /\ waits[c] = f /\ waits' = [waits EXCEPT ![c] = "none"] /\ life' = life
        /\ fetch' = IF Loaded(f) THEN fetch
                    ELSE [fetch EXCEPT ![f].waiters = fetch[f].waiters - 1, ![f].cancelled = last]
        /\ listed' = Unlisted({k \in {fetch[f].key} : last /\ listed[k] = f})
    BY <1>3, <2>0 DEF Leave
  <2>2. /\ Waiting(f)' = Waiting(f) \ {c} /\ c \in Waiting(f)
        /\ \A e \in Fetches \ {f} : Waiting(e)' = Waiting(e)
    BY <2>1, <1>ty DEF KeyTyped, Waiting
  <2>3. \A k \in Keys : listed'[k] = IF last /\ listed[k] = f THEN "none" ELSE listed[k]
    BY <2>1, <1>ty DEF Unlisted, Listing, KeyTyped
  <2>4. listed' \in [Keys -> Fetches \cup {"none"}]
    BY <2>1, <1>ty DEF Unlisted, KeyTyped
  <2>5. CASE Loaded(f)
    <3>1. fetch' = fetch /\ \A k \in Keys : listed'[k] = listed[k]
      BY <2>0, <2>1, <2>3, <2>5
    <3>2. KeyTyped'
      BY <2>1, <2>4, <3>1, <1>ty DEF KeyTyped
    <3>3. Counted'
      BY <2>2, <2>5, <3>1, <1>ty DEF Counted, Loaded
    <3>4. LeftAlone'
      <4>1. \A e \in Fetches : Forgotten(e) => Forgotten(e)'
        BY <2>2, <3>1 DEF Forgotten
      <4> QED BY <2>1, <3>1, <4>1, <1>ty DEF LeftAlone
    <3>5. Listing'
      BY <3>1, <1>ty DEF Listing
    <3> QED BY <3>2, <3>3, <3>4, <3>5 DEF KeyInv
  <2>6. CASE ~Loaded(f)
    <3>0. PICK m \in Int : m = fetch[f].waiters - 1
      BY <1>ty DEF KeyTyped, Entries
    <3> DEFINE new == [fetch[f] EXCEPT !.waiters = m, !.cancelled = last]
    <3>1. /\ new \in Entries /\ new.key = fetch[f].key /\ new.waiters = fetch[f].waiters - 1
          /\ new.cancelled = last /\ new.result = fetch[f].result /\ new.step = fetch[f].step
      BY <3>0, <1>ty DEF KeyTyped, Entries
    <3>2. \A e \in Fetches : fetch'[e] = IF e = f THEN new ELSE fetch[e]
      BY <2>1, <2>6, <3>0, <1>ty DEF KeyTyped
    <3>3. last => Waiting(f) = {c}
      <4>1. last => Cardinality(Waiting(f)) = 1
        BY <2>0, <1>ty DEF Counted, Loaded
      <4> QED BY <4>1, <2>2, WaitingCounts, FS_Singleton
    <3>4. last <=> fetch[f].waiters = 1
      BY <2>0, <2>6
    <3> HIDE DEF new
    <3>5. KeyTyped'
      <4>1. fetch' \in [Fetches -> Entries]
        BY <3>1, <3>2, <2>1, <2>6, <1>ty DEF KeyTyped
      <4> QED BY <4>1, <2>1, <2>4, <1>ty DEF KeyTyped
    <3>6. Counted'
      <4>1. Cardinality(Waiting(f)') = Cardinality(Waiting(f)) - 1
        BY <2>2, WaitingCounts, FS_RemoveElement
      <4>2. ASSUME NEW e \in Fetches, fetch'[e].step # "free"
            PROVE  fetch'[e].waiters = Cardinality(Waiting(e)')
        <5>1. CASE e = f
          <6>1. fetch'[f].waiters = fetch[f].waiters - 1 /\ fetch[f].step # "free"
            BY <4>2, <5>1, <3>1, <3>2
          <6> QED BY <6>1, <5>1, <4>1, <1>ty DEF Counted
        <5>2. CASE e # f
          BY <4>2, <5>2, <3>2, <2>2, <1>ty DEF Counted
        <5> QED BY <5>1, <5>2
      <4> QED BY <4>2 DEF Counted
    <3>7. LeftAlone'
      <4>1. last => Forgotten(f)'
        BY <2>2, <2>3, <3>3, <2>1, KeyAssumption DEF Forgotten
      <4>2. \A e \in Fetches : Forgotten(e) => Forgotten(e)'
        BY <2>2, <2>3, KeyAssumption DEF Forgotten
      <4> QED BY <4>1, <4>2, <2>1, <3>1, <3>2, <1>ty DEF LeftAlone
    <3>8. Listing'
      BY <2>1, <2>3, <3>1, <3>2, <1>ty DEF Listing, KeyTyped
    <3> QED BY <3>5, <3>6, <3>7, <3>8 DEF KeyInv
  <2> QED BY <2>5, <2>6
<1> QED BY <1>1, <1>2, <1>3

LEMMA FetchesKeepKeyInv ==
    ASSUME KeyInv, NEW f \in Fetches, FetchSteps(f) \/ Fails(f) PROVE KeyInv'
<1> USE KeyAssumption
<1>ty. KeyTyped /\ Counted /\ LeftAlone /\ Listing
  BY DEF KeyInv
<1>en. fetch[f] \in Entries
  BY <1>ty DEF KeyTyped
<1>1. CASE ChooseLane(f)
  <2>1. PICK s \in Steps : FetchGoes(f, [fetch[f] EXCEPT !.step = s])
    BY <1>1 DEF ChooseLane, Steps
  <2> QED BY <1>1, <2>1, <1>en, FetchMoves DEF ChooseLane, FetchAt, Entries
<1>2. CASE TakeLane(f)
  BY <1>2, <1>en, FetchMoves DEF TakeLane, FetchAt, Entries, Steps
<1>3. CASE LeaveLane(f)
  BY <1>3, <1>en, FetchMoves DEF LeaveLane, FetchAt, Entries, Steps
<1>4. CASE TakePlayback(f)
  BY <1>4, <1>en, FetchMoves DEF TakePlayback, FetchAt, Entries, Steps
<1>5. CASE Asked(f)
  <2>1. ASSUME NEW r \in {"template", "error"},
               FetchGoes(f, [fetch[f] EXCEPT !.step = "fill", !.lane = FALSE, !.result = r])
        PROVE  KeyInv'
    BY <1>5, <2>1, <1>en, FetchMoves DEF Asked, FetchAt, Entries, Steps, Results
  <2>2. CASE FetchGoes(f, [fetch[f] EXCEPT !.step = "start", !.lane = FALSE, !.attempt = fetch[f].attempt + 1])
    <3>1. PICK n \in Nat : n = fetch[f].attempt + 1
      BY <1>en DEF Entries
    <3>2. FetchGoes(f, [fetch[f] EXCEPT !.step = "start", !.lane = FALSE, !.attempt = n])
      BY <2>2, <3>1
    <3> QED BY <1>5, <3>2, <1>en, FetchMoves DEF Asked, FetchAt, Entries, Steps
  <2> QED BY <1>5, <2>1, <2>2 DEF Asked
<1>6. CASE Fails(f)
  <2>1. CASE /\ Cancelled(f) /\ fetch[f].step # "free"
             /\ FetchGoes(f, [fetch[f] EXCEPT !.step = "fill", !.lane = FALSE, !.result = "cancelled"])
    BY <2>1, <1>en, FetchMoves DEF Entries, Steps, Results
  <2>2. CASE /\ fetch[f].step # "free"
             /\ FetchGoes(f, [fetch[f] EXCEPT !.step = "fill", !.lane = FALSE, !.result = "error"])
    BY <2>2, <1>en, FetchMoves DEF Entries, Steps, Results
  <2> QED BY <1>6, <2>1, <2>2 DEF Fails
<1>7. CASE Fill(f)
  <2> DEFINE new == [NoFetch EXCEPT !.key = fetch[f].key, !.result = fetch[f].result]
  <2>1. /\ fetch[f].step = "fill" /\ fetch' = [fetch EXCEPT ![f] = new]
        /\ waits' = waits /\ life' = life
    BY <1>7 DEF Fill, FetchAt, Closed
  <2>2. PICK gone \in SUBSET Keys : listed' = Unlisted(gone)
    <3>1. listed = Unlisted({})
      BY <1>ty DEF KeyTyped, Unlisted
    <3>2. listed[fetch[f].key] = f /\ listed' = Unlisted({fetch[f].key}) => Unlisted({fetch[f].key}) = Unlisted({fetch[f].key} \cap Keys)
      BY DEF Unlisted
    <3> QED BY <1>7, <3>1, <3>2 DEF Fill
  <2>3. listed' \in [Keys -> Fetches \cup {"none"}] /\ \A k \in Keys : listed'[k] \in {listed[k], "none"}
    BY <2>2, <1>ty DEF Unlisted, KeyTyped
  <2>4. /\ new \in Entries /\ new.key = fetch[f].key /\ new.result = fetch[f].result /\ new.step = "free"
    BY <1>en, EmptyEntry DEF Entries
  <2>5. \A e \in Fetches : fetch'[e] = IF e = f THEN new ELSE fetch[e]
    BY <2>1, <1>ty DEF KeyTyped
  <2> HIDE DEF new
  <2>6. \A e \in Fetches : Waiting(e)' = Waiting(e) /\ (Forgotten(e) => Forgotten(e)')
    BY <2>1, <2>3 DEF Waiting, Forgotten
  <2>7. KeyTyped'
    BY <2>1, <2>3, <2>4, <2>5, <1>ty DEF KeyTyped
  <2>8. Counted'
    BY <2>4, <2>5, <2>6, <1>ty DEF Counted
  <2>9. LeftAlone'
    BY <2>1, <2>4, <2>5, <2>6, <1>ty DEF LeftAlone
  <2>10. Listing'
    BY <2>3, <2>4, <2>5, <1>ty DEF Listing, KeyTyped
  <2> QED BY <2>7, <2>8, <2>9, <2>10 DEF KeyInv
<1> QED
  BY <1>1, <1>2, <1>3, <1>4, <1>5, <1>6, <1>7 DEF FetchSteps

\* Every step keeps the callers, the entries and the list in line.
LEMMA KeyInvStep == KeyInv /\ [KeyNext]_keyVars => KeyInv'
<1> SUFFICES ASSUME KeyInv, [KeyNext]_keyVars PROVE KeyInv'
  OBVIOUS
<1>1. CASE UNCHANGED <<waits, fetch, listed>> /\ life' \in {life, FALSE}
  <2>1. KeyTyped' /\ Listing'
    BY <1>1 DEF KeyInv, KeyTyped, Listing
  <2>2. \A f \in Fetches : Waiting(f)' = Waiting(f) /\ Forgotten(f)' = Forgotten(f)
    BY <1>1 DEF Waiting, Forgotten
  <2>3. Counted' /\ LeftAlone'
    <3>1. life' => life
      BY <1>1
    <3> QED BY <1>1, <2>2, <3>1 DEF KeyInv, Counted, LeftAlone
  <2> QED BY <2>1, <2>3 DEF KeyInv
<1>2. CASE \E m \in Streams : StreamSteps(m) \/ StreamGivesUp(m)
  BY <1>1, <1>2 DEF StreamSteps, StreamTakesLane, StreamTakesPlayback, StreamAnswered, StreamGivesUp, StreamGoes
<1>3. CASE CloseClient \/ UNCHANGED keyVars
  BY <1>1, <1>3 DEF CloseClient, keyVars
<1> QED
  BY <1>2, <1>3, CallersKeepKeyInv, FetchesKeepKeyInv DEF KeyNext

\* A caller that still wants its key never gets the cancellation others caused:
\* whoever is cancelled by its last caller is one nobody waits for or can find.
THEOREM NoCancelIsBorrowed == KeySpec => []NoBorrowedCancel
<1>1. KeyInv => NoBorrowedCancel
  BY KeyAssumption DEF KeyInv, KeyTyped, LeftAlone, Forgotten, Waiting, NoBorrowedCancel
<1> QED BY <1>1, KeyInvInit, KeyInvStep, PTL DEF KeySpec

-----------------------------------------------------------------------------
(* The permits keys and streams share *)

\* What a step may do to those who hold a permit: nothing, or one takes one that
\* is free or gives its own back.
UsesPool(s) ==
    \/ HoldersOf(s)' = HoldersOf(s)
    \/ \E u \in Fetches \cup Streams :
         \/ /\ u \notin HoldersOf(s) /\ HoldersOf(s)' = HoldersOf(s) \cup {u}
            /\ Cardinality(HoldersOf(s)) < IF s = "playbackLimit" THEN Playback ELSE 1
         \/ u \in HoldersOf(s) /\ HoldersOf(s)' = HoldersOf(s) \ {u}

LEMMA UsesIsAPool ==
    ASSUME NEW s \in Semaphores, UsesPool(s) PROVE [KeyPool(s)!Next]_(HoldersOf(s))
<1>1. CASE HoldersOf(s)' = HoldersOf(s)
  BY <1>1
<1>2. ASSUME NEW u \in Fetches \cup Streams, u \notin HoldersOf(s), HoldersOf(s)' = HoldersOf(s) \cup {u},
             Cardinality(HoldersOf(s)) < IF s = "playbackLimit" THEN Playback ELSE 1
      PROVE  KeyPool(s)!Next
  <2>1. KeyPool(s)!Cardinality(HoldersOf(s)) < IF s = "playbackLimit" THEN Playback ELSE 1
    BY <1>2 DEF Cardinality, KeyPool!Cardinality
  <2>2. KeyPool(s)!Take(u)
    BY <1>2, <2>1 DEF KeyPool!Take
  <2> QED BY <2>2 DEF KeyPool!Next
<1>3. ASSUME NEW u \in Fetches \cup Streams, u \in HoldersOf(s), HoldersOf(s)' = HoldersOf(s) \ {u}
      PROVE  KeyPool(s)!Next
  <2>1. KeyPool(s)!GiveBack(u)
    BY <1>3 DEF KeyPool!GiveBack
  <2> QED BY <2>1 DEF KeyPool!Next
<1> QED BY <1>1, <1>2, <1>3 DEF UsesPool

\* A permit a fetch or a stream does not have yet is free when it comes.
LEMMA FreePermits ==
    ASSUME NEW s \in Semaphores, IF s = "playbackLimit" THEN PlaybackFree ELSE LaneFree
    PROVE  Cardinality(HoldersOf(s)) < IF s = "playbackLimit" THEN Playback ELSE 1
<1>1. CASE s = "playbackLimit"
  BY <1>1 DEF HoldersOf, PlaybackFree
<1>2. CASE s = "manifestLimit"
  BY <1>2, FS_EmptySet DEF HoldersOf, LaneFree
<1> QED BY <1>1, <1>2 DEF Semaphores

LEMMA Takes ==
    ASSUME NEW s \in Semaphores, NEW u \in Fetches \cup Streams,
           HoldersOf(s)' = HoldersOf(s) \cup {u},
           u \in HoldersOf(s) \/ IF s = "playbackLimit" THEN PlaybackFree ELSE LaneFree
    PROVE  UsesPool(s)
<1>1. CASE u \in HoldersOf(s)
  <2>1. HoldersOf(s)' = HoldersOf(s)
    BY <1>1
  <2> QED BY <2>1 DEF UsesPool
<1>2. CASE u \notin HoldersOf(s)
  <2>1. Cardinality(HoldersOf(s)) < IF s = "playbackLimit" THEN Playback ELSE 1
    BY <1>2, FreePermits
  <2> QED BY <1>2, <2>1 DEF UsesPool
<1> QED BY <1>1, <1>2

LEMMA Gives ==
    ASSUME NEW s \in Semaphores, NEW u \in Fetches \cup Streams, HoldersOf(s)' = HoldersOf(s) \ {u}
    PROVE  UsesPool(s)
<1>1. CASE u \in HoldersOf(s)
  BY <1>1 DEF UsesPool
<1>2. CASE u \notin HoldersOf(s)
  <2>1. HoldersOf(s)' = HoldersOf(s)
    BY <1>2
  <2> QED BY <2>1 DEF UsesPool
<1> QED BY <1>1, <1>2

LEMMA FetchUses ==
    ASSUME NEW f \in Fetches, NEW s \in Semaphores,
           stream' = stream, \A e \in Fetches \ {f} : fetch'[e] = fetch[e],
           fetch'[f].step = "ask" => fetch[f].step = "ask" \/ PlaybackFree,
           fetch'[f].lane => fetch[f].lane \/ LaneFree
    PROVE  UsesPool(s)
<1>1. PICK asks \in BOOLEAN, lane \in BOOLEAN : asks = (fetch'[f].step = "ask") /\ (lane <=> fetch'[f].lane)
  OBVIOUS
<1>2. f \notin Streams /\ f \in Fetches \cup Streams
  BY KeyAssumption
<1>3. CASE s = "playbackLimit"
  <2>1. Asking' = IF asks THEN Asking \cup {f} ELSE Asking \ {f}
    BY <1>1, <1>2 DEF Asking
  <2>2. f \in Asking <=> fetch[f].step = "ask"
    BY <1>2 DEF Asking
  <2>3. CASE asks
    BY <1>1, <1>2, <1>3, <2>1, <2>2, <2>3, Takes DEF HoldersOf
  <2>4. CASE ~asks
    BY <1>2, <1>3, <2>1, <2>4, Gives DEF HoldersOf
  <2> QED BY <2>3, <2>4
<1>4. CASE s = "manifestLimit"
  <2>1. InLane' = IF lane THEN InLane \cup {f} ELSE InLane \ {f}
    BY <1>1, <1>2 DEF InLane
  <2>2. f \in InLane <=> fetch[f].lane
    BY <1>2 DEF InLane
  <2>3. CASE lane
    BY <1>1, <1>2, <1>4, <2>1, <2>2, <2>3, Takes DEF HoldersOf
  <2>4. CASE ~lane
    BY <1>2, <1>4, <2>1, <2>4, Gives DEF HoldersOf
  <2> QED BY <2>3, <2>4
<1> QED BY <1>3, <1>4 DEF Semaphores

LEMMA StreamUses ==
    ASSUME stream \in [Streams -> {"lane", "queue", "ask", "done"}],
           NEW m \in Streams, NEW s \in Semaphores, StreamSteps(m) \/ StreamGivesUp(m)
    PROVE  UsesPool(s) /\ stream' \in [Streams -> {"lane", "queue", "ask", "done"}]
<1>1. PICK from \in {"lane", "queue", "ask"}, to \in {"queue", "ask", "done"} :
        /\ stream[m] = from /\ stream' = [stream EXCEPT ![m] = to] /\ fetch' = fetch
        /\ to = "queue" => from = "lane" /\ LaneFree
        /\ to = "ask" => from = "queue" /\ PlaybackFree
  BY DEF StreamSteps, StreamTakesLane, StreamTakesPlayback, StreamAnswered, StreamGivesUp, StreamGoes
<1>2. stream' \in [Streams -> {"lane", "queue", "ask", "done"}]
      /\ \A n \in Streams : stream'[n] = IF n = m THEN to ELSE stream[n]
  BY <1>1
<1>3. m \notin Fetches /\ m \in Fetches \cup Streams
  BY KeyAssumption
<1>4. CASE s = "playbackLimit"
  <2>1. Asking' = IF to = "ask" THEN Asking \cup {m} ELSE Asking \ {m}
    BY <1>1, <1>2, <1>3 DEF Asking
  <2>2. CASE to = "ask"
    BY <1>1, <1>2, <1>3, <1>4, <2>1, <2>2, Takes DEF HoldersOf
  <2>3. CASE to # "ask"
    <3>1. HoldersOf(s)' = HoldersOf(s) \ {m}
      BY <1>4, <2>1, <2>3 DEF HoldersOf
    <3> QED BY <1>2, <1>3, <1>4, <3>1, Gives DEF HoldersOf
  <2> QED BY <2>2, <2>3
<1>5. CASE s = "manifestLimit"
  <2>1. InLane' = IF to \in {"queue", "ask"} THEN InLane \cup {m} ELSE InLane \ {m}
    BY <1>1, <1>2, <1>3 DEF InLane
  <2>2. from = "queue" => m \in InLane
    BY <1>1, <1>3 DEF InLane
  <2>3. CASE to \in {"queue", "ask"}
    BY <1>1, <1>2, <1>3, <1>5, <2>1, <2>2, <2>3, Takes DEF HoldersOf
  <2>4. CASE to \notin {"queue", "ask"}
    <3>1. HoldersOf(s)' = HoldersOf(s) \ {m}
      BY <1>5, <2>1, <2>4 DEF HoldersOf
    <3> QED BY <1>2, <1>3, <1>5, <3>1, Gives DEF HoldersOf
  <2> QED BY <2>3, <2>4
<1> QED BY <1>2, <1>4, <1>5 DEF Semaphores

LEMMA SamePermits ==
    ASSUME KeyTyped, NEW s \in Semaphores, stream' = stream,
           \A f \in Fetches : fetch'[f].step = fetch[f].step /\ fetch'[f].lane = fetch[f].lane
    PROVE  UsesPool(s)
  BY DEF UsesPool, HoldersOf, Asking, InLane

LEMMA FetchStepsUse ==
    ASSUME KeyTyped, NEW f \in Fetches, NEW s \in Semaphores, FetchSteps(f) \/ Fails(f)
    PROVE  UsesPool(s) /\ stream' = stream
<1>en. fetch[f] \in Entries
  BY DEF KeyTyped
<1>1. ASSUME NEW new \in Entries, FetchGoes(f, new),
             new.step = "ask" => fetch[f].step = "ask" \/ PlaybackFree,
             new.lane => fetch[f].lane \/ LaneFree
      PROVE  UsesPool(s) /\ stream' = stream
  <2>1. /\ fetch'[f] = new /\ \A e \in Fetches \ {f} : fetch'[e] = fetch[e]
        /\ stream' = stream
    BY <1>1 DEF FetchGoes, KeyTyped
  <2> QED BY <1>1, <2>1, FetchUses
<1>2. CASE ChooseLane(f)
  <2>1. PICK to \in {"queue", "lane"} : FetchGoes(f, [fetch[f] EXCEPT !.step = to])
    BY <1>2 DEF ChooseLane
  <2> QED BY <2>1, <1>en, <1>1 DEF Entries, Steps
<1>3. CASE TakeLane(f)
  BY <1>3, <1>en, <1>1 DEF TakeLane, Entries, Steps
<1>4. CASE LeaveLane(f)
  BY <1>4, <1>en, <1>1 DEF LeaveLane, Entries, Steps
<1>5. CASE TakePlayback(f)
  BY <1>5, <1>en, <1>1 DEF TakePlayback, Entries, Steps
<1>6. ASSUME NEW r \in Results,
             FetchGoes(f, [fetch[f] EXCEPT !.step = "fill", !.lane = FALSE, !.result = r])
      PROVE  UsesPool(s) /\ stream' = stream
  BY <1>6, <1>en, <1>1 DEF Entries, Steps
<1>7. CASE Asked(f)
  <2>1. CASE FetchGoes(f, [fetch[f] EXCEPT !.step = "start", !.lane = FALSE, !.attempt = fetch[f].attempt + 1])
    <3>1. PICK n \in Nat : n = fetch[f].attempt + 1
      BY <1>en DEF Entries
    <3>2. FetchGoes(f, [fetch[f] EXCEPT !.step = "start", !.lane = FALSE, !.attempt = n])
      BY <2>1, <3>1
    <3> QED BY <3>2, <1>en, <1>1 DEF Entries, Steps
  <2> QED BY <1>6, <1>7, <2>1 DEF Asked, Results
<1>8. CASE Fails(f)
  BY <1>6, <1>8 DEF Fails, Results
<1>9. CASE Fill(f)
  <2>1. /\ fetch' = [fetch EXCEPT ![f] = [NoFetch EXCEPT !.key = fetch[f].key, !.result = fetch[f].result]]
        /\ stream' = stream
    BY <1>9 DEF Fill, Closed
  <2>2. fetch'[f].step = "free" /\ ~fetch'[f].lane /\ \A e \in Fetches \ {f} : fetch'[e] = fetch[e]
    BY <2>1 DEF KeyTyped, NoFetch
  <2> QED BY <2>1, <2>2, FetchUses
<1> QED BY <1>2, <1>3, <1>4, <1>5, <1>7, <1>8, <1>9 DEF FetchSteps

LEMMA CallersUse ==
    ASSUME KeyTyped, NEW c \in Callers, NEW s \in Semaphores,
           (\E k \in Keys, needs \in BOOLEAN : Get(c, k, needs)) \/ Answered(c) \/ Leave(c)
    PROVE  UsesPool(s) /\ stream' = stream
<1>1. CASE stream' = stream /\ \A f \in Fetches : fetch'[f].step = fetch[f].step /\ fetch'[f].lane = fetch[f].lane
  BY <1>1, SamePermits
<1>2. ASSUME NEW k \in Keys, NEW needs \in BOOLEAN, Get(c, k, needs)
      PROVE  UsesPool(s) /\ stream' = stream
  <2>0. /\ stream' = stream
        /\ \/ fetch' = fetch
           \/ \E f \in Fetches :
                \/ fetch' = [fetch EXCEPT ![f].waiters = fetch[f].waiters + 1,
                                          ![f].needed = fetch[f].needed \/ needs]
                \/ fetch' = [fetch EXCEPT ![f] = [NoFetch EXCEPT !.key = k, !.step = "start",
                                                                !.waiters = 1, !.needed = needs]]
    BY <1>2, Zenon DEF Get
  <2>1. CASE fetch' = fetch
    BY <1>1, <2>0, <2>1
  <2>2. ASSUME NEW f \in Fetches,
               fetch' = [fetch EXCEPT ![f].waiters = fetch[f].waiters + 1,
                                      ![f].needed = fetch[f].needed \/ needs]
        PROVE  UsesPool(s) /\ stream' = stream
    <3>1. PICK n, m : n = (fetch[f].needed \/ needs) /\ m = fetch[f].waiters + 1
      OBVIOUS
    <3>2. fetch' = [fetch EXCEPT ![f] = [fetch[f] EXCEPT !.waiters = m, !.needed = n]]
      BY <2>2, <3>1 DEF KeyTyped
    <3>3. \A e \in Fetches : fetch'[e].step = fetch[e].step /\ fetch'[e].lane = fetch[e].lane
      BY <3>2 DEF KeyTyped, Entries
    <3> QED BY <1>1, <2>0, <3>3
  <2>3. ASSUME NEW f \in Fetches,
               fetch' = [fetch EXCEPT ![f] = [NoFetch EXCEPT !.key = k, !.step = "start",
                                                             !.waiters = 1, !.needed = needs]]
        PROVE  UsesPool(s) /\ stream' = stream
    <3>1. fetch'[f].step = "start" /\ ~fetch'[f].lane /\ \A e \in Fetches \ {f} : fetch'[e] = fetch[e]
      BY <2>3 DEF KeyTyped, NoFetch
    <3>2. UsesPool(s)
      BY <2>0, <3>1, FetchUses
    <3> QED BY <2>0, <3>2
  <2> QED BY <2>0, <2>1, <2>2, <2>3, Zenon
<1>3. CASE Answered(c)
  BY <1>1, <1>3 DEF Answered
<1>4. CASE Leave(c)
  <2>1. CASE fetch' = fetch
    BY <1>1, <1>4, <2>1 DEF Leave
  <2>2. ASSUME NEW f, NEW last, fetch' = [fetch EXCEPT ![f].waiters = @ - 1, ![f].cancelled = last]
        PROVE  UsesPool(s) /\ stream' = stream
    <3>1. \A e \in Fetches : fetch'[e].step = fetch[e].step /\ fetch'[e].lane = fetch[e].lane
      BY <2>2 DEF KeyTyped, Entries
    <3> QED BY <1>1, <1>4, <3>1 DEF Leave
  <2> QED BY <1>4, <2>1, <2>2 DEF Leave
<1> QED BY <1>2, <1>3, <1>4

\* Fetches and M3U8 calls take and give back the permits of the manifest lane and
\* of the playback requests as the semaphore allows (ImplementsPool of
\* PrioritySemaphore): no retry, failure or client's end keeps or makes one up.
THEOREM KeysUsePools == ASSUME NEW s \in Semaphores PROVE KeySpec => KeyPool(s)!Spec
<1> DEFINE Inv == KeyInv /\ stream \in [Streams -> {"lane", "queue", "ask", "done"}]
<1>1. KeyInit => Inv /\ KeyPool(s)!Init
  <2>1. KeyInit => HoldersOf(s) = {} /\ stream \in [Streams -> {"lane", "queue", "ask", "done"}]
    BY DEF KeyInit, HoldersOf, Asking, InLane, NoFetch
  <2> QED BY <2>1, KeyInvInit DEF KeyPool!Init
<1>2. Inv /\ [KeyNext]_keyVars => Inv' /\ [KeyPool(s)!Next]_(HoldersOf(s))
  <2> SUFFICES ASSUME Inv, [KeyNext]_keyVars
               PROVE  Inv' /\ UsesPool(s)
    BY UsesIsAPool
  <2>1. KeyTyped /\ KeyInv'
    BY KeyInvStep DEF KeyInv
  <2>2. ASSUME NEW m \in Streams, StreamSteps(m) \/ StreamGivesUp(m) PROVE Inv' /\ UsesPool(s)
    BY <2>1, <2>2, StreamUses
  <2>3. ASSUME UsesPool(s), stream' = stream PROVE Inv' /\ UsesPool(s)
    BY <2>1, <2>3
  <2>4. CASE CloseClient \/ UNCHANGED keyVars
    <3>1. fetch' = fetch /\ stream' = stream
      BY <2>4 DEF CloseClient, keyVars
    <3> QED BY <2>1, <2>3, <3>1, SamePermits
  <2>5. ASSUME NEW c \in Callers,
               (\E k \in Keys, needs \in BOOLEAN : Get(c, k, needs)) \/ Answered(c) \/ Leave(c)
        PROVE  Inv' /\ UsesPool(s)
    BY <2>1, <2>3, <2>5, CallersUse
  <2>6. ASSUME NEW f \in Fetches, FetchSteps(f) \/ Fails(f) PROVE Inv' /\ UsesPool(s)
    BY <2>1, <2>3, <2>6, FetchStepsUse
  <2> QED BY <2>2, <2>4, <2>5, <2>6 DEF KeyNext
<1> QED BY <1>1, <1>2, PTL DEF KeySpec, KeyPool!Spec

-----------------------------------------------------------------------------
(* Logins through an external wrapper-manager *)

LoginCalls == [kind : {"none", "start", "verify"}, account : Accounts \union {"none"},
          id : LoginIds \union {"none"}]
Sessions == [account : Accounts \union {"none"}, verifying : BOOLEAN,
             timer : {"armed", "fired", "stopped"}]

LoginTyped ==
    /\ active \subseteq Accounts
    /\ sessions \in [LoginIds -> Sessions]
    /\ call \in [LoginClients -> LoginCalls]
    /\ \A id \in LoginIds : sessions[id].account = "none" => sessions[id] = NoSession
    /\ \A c \in LoginClients :
        /\ call[c].kind # "verify" => call[c].id = "none"
        /\ call[c].kind # "none" => call[c].account \in Accounts

Starting(c, a) == call[c].kind = "start" /\ call[c].account = a
Verifying(c, id) == call[c].kind = "verify" /\ call[c].id = id
Keeps(id, a) == sessions[id].account = a
Kept(id) == sessions[id].account # "none"

\* A claim is of one call or of one session, and of no more.
Claims ==
    /\ \A a \in active : (\E c \in LoginClients : Starting(c, a)) \/ (\E id \in LoginIds : Keeps(id, a))
    /\ \A a \in Accounts : \A c, d \in LoginClients : Starting(c, a) /\ Starting(d, a) => c = d /\ a \in active
    /\ \A a \in Accounts : \A id, jd \in LoginIds : Keeps(id, a) /\ Keeps(jd, a) => id = jd /\ a \in active
    /\ \A a \in Accounts : \A c \in LoginClients, id \in LoginIds : ~(Starting(c, a) /\ Keeps(id, a))

\* A session is verified by one call, which keeps it, or its timer runs.
Verifications ==
    /\ \A c \in LoginClients : call[c].kind = "verify" =>
        call[c].id \in LoginIds /\ Kept(call[c].id) /\ sessions[call[c].id].verifying
    /\ \A id \in LoginIds : \A c, d \in LoginClients : Verifying(c, id) /\ Verifying(d, id) => c = d
    /\ \A id \in LoginIds : Kept(id) =>
        IF sessions[id].verifying THEN \E c \in LoginClients : Verifying(c, id)
        ELSE sessions[id].timer = "armed"

LoginInv == LoginTyped /\ Claims /\ Verifications

LEMMA ParkedIsKept == ASSUME LoginTyped, NEW id \in LoginIds PROVE Parked(id) <=> Kept(id)
  BY DEF LoginTyped, Parked, Kept, NoSession

LEMMA LoginInvInit == LoginInit => LoginInv
  BY LoginAssumption
  DEF LoginInit, LoginInv, LoginTyped, Claims, Verifications, Starting, Verifying, Keeps, Kept,
      NoSession, NoCall, LoginCalls, Sessions

\* Every step of the book keeps claims, sessions and calls in line.
LEMMA LoginInvStep == LoginInv /\ [LoginNext]_loginVars => LoginInv'
<1> SUFFICES ASSUME LoginInv, [LoginNext]_loginVars PROVE LoginInv'
  OBVIOUS
<1> USE LoginAssumption
<1>ty. LoginTyped /\ Claims /\ Verifications
  BY DEF LoginInv
<1>1. ASSUME NEW c \in LoginClients, BeginLogin(c) PROVE LoginInv'
  <2>1. PICK a \in Accounts \ active :
           /\ active' = active \union {a} /\ sessions' = sessions /\ call[c] = NoCall
           /\ call' = [call EXCEPT ![c] = [kind |-> "start", account |-> a, id |-> "none"]]
    BY <1>1 DEF BeginLogin
  <2>2. \A d \in LoginClients : call'[d] = IF d = c THEN [kind |-> "start", account |-> a, id |-> "none"] ELSE call[d]
    BY <2>1, <1>ty DEF LoginTyped
  <2>3. /\ call[c].kind = "none"
        /\ call'[c].kind = "start" /\ call'[c].account = a /\ call'[c].id = "none"
        /\ \A d \in LoginClients \ {c} : call'[d] = call[d]
    BY <2>1, <2>2 DEF NoCall
  <2>4. LoginTyped'
    BY <2>1, <2>2, <1>ty DEF LoginTyped, LoginCalls, NoSession
  <2>5. Claims'
    BY <2>1, <2>3, <1>ty DEF Claims, Starting, Keeps
  <2>6. Verifications'
    BY <2>1, <2>3, <1>ty DEF Verifications, Verifying, Kept
  <2> QED BY <2>4, <2>5, <2>6 DEF LoginInv
<1>2. ASSUME NEW c \in LoginClients, StartEnds(c) PROVE LoginInv'
  <2>1. /\ call[c].kind = "start" /\ sessions' = sessions
        /\ active' = active \ {call[c].account} /\ call' = [call EXCEPT ![c] = NoCall]
    BY <1>2 DEF StartEnds
  <2>2. \A d \in LoginClients : call'[d] = IF d = c THEN NoCall ELSE call[d]
    BY <2>1, <1>ty DEF LoginTyped
  <2>3. /\ call'[c].kind = "none" /\ call'[c].account = "none" /\ call'[c].id = "none"
        /\ \A d \in LoginClients \ {c} : call'[d] = call[d]
        /\ call[c].account \in Accounts
    BY <2>1, <2>2, <1>ty DEF NoCall, LoginTyped
  <2>4. LoginTyped'
    BY <2>1, <2>2, <1>ty DEF LoginTyped, LoginCalls, NoSession, NoCall
  <2>5. Claims'
    BY <2>1, <2>3, <1>ty DEF Claims, Starting, Keeps
  <2>6. Verifications'
    BY <2>1, <2>3, <1>ty DEF Verifications, Verifying, Kept
  <2> QED BY <2>4, <2>5, <2>6 DEF LoginInv
<1>3. ASSUME NEW c \in LoginClients, StartParks(c) PROVE LoginInv'
  <2> DEFINE new == [account |-> call[c].account, verifying |-> FALSE, timer |-> "armed"]
  <2>1. PICK id \in LoginIds :
           /\ ~Parked(id) /\ sessions' = [sessions EXCEPT ![id] = new]
           /\ call[c].kind = "start" /\ call' = [call EXCEPT ![c] = NoCall] /\ active' = active
    BY <1>3 DEF StartParks
  <2>2. /\ \A d \in LoginClients : call'[d] = IF d = c THEN NoCall ELSE call[d]
        /\ \A k \in LoginIds : sessions'[k] = IF k = id THEN new ELSE sessions[k]
        /\ new \in Sessions /\ call[c].account \in Accounts
    BY <2>1, <1>ty DEF LoginTyped, Sessions, LoginCalls
  <2>3. /\ call'[c].kind = "none" /\ call'[c].account = "none" /\ call'[c].id = "none"
        /\ \A d \in LoginClients \ {c} : call'[d] = call[d]
        /\ sessions'[id].account = call[c].account /\ ~sessions'[id].verifying
        /\ sessions'[id].timer = "armed"
        /\ \A k \in LoginIds \ {id} : sessions'[k] = sessions[k]
        /\ sessions[id].account = "none"
    BY <2>1, <2>2, <1>ty, ParkedIsKept DEF NoCall, Kept
  <2>4. LoginTyped'
    BY <2>1, <2>2, <2>3, <1>ty DEF LoginTyped, LoginCalls, NoSession, NoCall
  <2>5. Claims'
    <3>0. call[c].kind = "start" /\ active' = active /\ call[c].account \in Accounts
      BY <2>1, <2>2
    <3>1. \A a \in active' : (\E d \in LoginClients : Starting(d, a)') \/ (\E k \in LoginIds : Keeps(k, a)')
      BY <3>0, <2>3, <1>ty DEF Claims, Starting, Keeps, LoginTyped
    <3>2. \A a \in Accounts : \A d, e \in LoginClients : Starting(d, a)' /\ Starting(e, a)' => d = e /\ a \in active'
      BY <3>0, <2>3, <1>ty DEF Claims, Starting
    <3>3. \A a \in Accounts : \A k, l \in LoginIds : Keeps(k, a)' /\ Keeps(l, a)' => k = l /\ a \in active'
      BY <3>0, <2>3, <1>ty DEF Claims, Starting, Keeps
    <3>4. \A a \in Accounts : \A d \in LoginClients, k \in LoginIds : ~(Starting(d, a)' /\ Keeps(k, a)')
      BY <3>0, <2>3, <1>ty DEF Claims, Starting, Keeps
    <3> QED BY <3>1, <3>2, <3>3, <3>4 DEF Claims
  <2>6. Verifications'
    BY <2>1, <2>3, <1>ty DEF Verifications, Verifying, Kept
  <2> QED BY <2>4, <2>5, <2>6 DEF LoginInv
<1>4. ASSUME NEW c \in LoginClients, TakeSession(c) PROVE LoginInv'
  <2>1. PICK id \in LoginIds :
           /\ call[c] = NoCall /\ Parked(id) /\ ~sessions[id].verifying
           /\ sessions' = [sessions EXCEPT ![id].verifying = TRUE] /\ active' = active
           /\ call' = [call EXCEPT ![c] =
                  [kind |-> "verify", account |-> sessions[id].account, id |-> id]]
    BY <1>4 DEF TakeSession
  <2>2. /\ \A d \in LoginClients : call'[d] =
               IF d = c THEN [kind |-> "verify", account |-> sessions[id].account, id |-> id] ELSE call[d]
        /\ \A k \in LoginIds : sessions'[k] =
               IF k = id THEN [sessions[id] EXCEPT !.verifying = TRUE] ELSE sessions[k]
    BY <2>1, <1>ty DEF LoginTyped
  <2>3. /\ call[c].kind = "none"
        /\ call'[c].kind = "verify" /\ call'[c].account = sessions[id].account /\ call'[c].id = id
        /\ \A d \in LoginClients \ {c} : call'[d] = call[d]
        /\ \A k \in LoginIds \ {id} : sessions'[k] = sessions[k]
        /\ sessions'[id].account = sessions[id].account /\ sessions'[id].verifying
        /\ sessions[id].account # "none" /\ sessions[id].account \in Accounts
        /\ \A k \in LoginIds : sessions'[k].account = sessions[k].account
    BY <2>1, <2>2, <1>ty, ParkedIsKept DEF NoCall, Kept, LoginTyped, Sessions
  <2>4. LoginTyped'
    <3>0. \A k \in LoginIds : sessions'[k] \in Sessions
      <4>1. sessions[id] \in Sessions
        BY <1>ty DEF LoginTyped
      <4>2. [sessions[id] EXCEPT !.verifying = TRUE] \in Sessions
        BY <4>1 DEF Sessions
      <4> QED BY <4>2, <2>2, <1>ty DEF LoginTyped
    <3>1. sessions' \in [LoginIds -> Sessions]
      BY <2>1, <3>0, <1>ty DEF LoginTyped
    <3>2. call' \in [LoginClients -> LoginCalls]
      BY <2>1, <2>2, <2>3, <1>ty DEF LoginTyped, LoginCalls
    <3>3. \A k \in LoginIds : sessions'[k].account = "none" => sessions'[k] = NoSession
      BY <2>3, <1>ty DEF LoginTyped
    <3>4. \A d \in LoginClients : /\ call'[d].kind # "verify" => call'[d].id = "none"
                                  /\ call'[d].kind # "none" => call'[d].account \in Accounts
      BY <2>3, <1>ty DEF LoginTyped
    <3> QED BY <2>1, <3>1, <3>2, <3>3, <3>4, <1>ty DEF LoginTyped
  <2>5. Claims'
    BY <2>1, <2>3, <1>ty DEF Claims, Starting, Keeps
  <2>6. Verifications'
    BY <2>1, <2>3, <1>ty DEF Verifications, Verifying, Kept
  <2> QED BY <2>4, <2>5, <2>6 DEF LoginInv
<1>5. ASSUME NEW c \in LoginClients, VerifyEnds(c) PROVE LoginInv'
  <2>1. /\ call[c].kind = "verify" /\ call' = [call EXCEPT ![c] = NoCall]
        /\ sessions' = [sessions EXCEPT ![call[c].id] = NoSession]
        /\ active' = active \ {sessions[call[c].id].account}
        /\ call[c].id \in LoginIds /\ Kept(call[c].id)
    BY <1>5, <1>ty DEF VerifyEnds, Drop, Verifications
  <2> DEFINE id == call[c].id
  <2>2. /\ \A d \in LoginClients : call'[d] = IF d = c THEN NoCall ELSE call[d]
        /\ \A k \in LoginIds : sessions'[k] = IF k = id THEN NoSession ELSE sessions[k]
    BY <2>1, <1>ty DEF LoginTyped
  <2>3. /\ call'[c].kind = "none" /\ call'[c].account = "none" /\ call'[c].id = "none"
        /\ \A d \in LoginClients \ {c} : call'[d] = call[d]
        /\ \A k \in LoginIds \ {id} : sessions'[k] = sessions[k]
        /\ sessions'[id].account = "none" /\ sessions[id].account \in Accounts
    BY <2>1, <2>2, <1>ty DEF NoCall, NoSession, Kept, LoginTyped, Sessions
  <2>4. LoginTyped'
    BY <2>1, <2>2, <1>ty DEF LoginTyped, LoginCalls, Sessions, NoSession, NoCall
  <2>5. Claims'
    BY <2>1, <2>3, <1>ty DEF Claims, Starting, Keeps
  <2>6. Verifications'
    BY <2>1, <2>3, <1>ty DEF Verifications, Verifying, Kept
  <2> QED BY <2>4, <2>5, <2>6 DEF LoginInv
<1>6. ASSUME NEW id \in LoginIds, Expires(id) PROVE LoginInv'
  <2>1. CASE sessions[id].verifying
    <3>1. /\ sessions' = [sessions EXCEPT ![id].timer = "fired"] /\ active' = active /\ call' = call
      BY <1>6, <2>1 DEF Expires
    <3>2. \A k \in LoginIds : sessions'[k] = IF k = id THEN [sessions[id] EXCEPT !.timer = "fired"] ELSE sessions[k]
      BY <3>1, <1>ty DEF LoginTyped
    <3>3. /\ \A k \in LoginIds : /\ sessions'[k].account = sessions[k].account
                                 /\ sessions'[k].verifying = sessions[k].verifying
          /\ \A k \in LoginIds \ {id} : sessions'[k] = sessions[k]
          /\ sessions[id].account # "none"
      BY <3>2, <2>1, <1>ty DEF LoginTyped, Sessions, NoSession
    <3>4. LoginTyped'
      BY <3>1, <3>2, <3>3, <1>ty DEF LoginTyped, Sessions
    <3>5. Claims'
      BY <3>1, <3>3, <1>ty DEF Claims, Starting, Keeps
    <3>6. Verifications'
      BY <3>1, <3>3, <2>1, <1>ty DEF Verifications, Verifying, Kept
    <3> QED BY <3>4, <3>5, <3>6 DEF LoginInv
  <2>2. CASE ~sessions[id].verifying
    <3>1. /\ sessions' = [sessions EXCEPT ![id] = NoSession] /\ call' = call
          /\ active' = active \ {sessions[id].account}
      BY <1>6, <2>2 DEF Expires, Drop
    <3>2. \A k \in LoginIds : sessions'[k] = IF k = id THEN NoSession ELSE sessions[k]
      BY <3>1, <1>ty DEF LoginTyped
    <3>3. /\ \A k \in LoginIds \ {id} : sessions'[k] = sessions[k]
          /\ sessions'[id].account = "none"
      BY <3>2 DEF NoSession
    <3>4. LoginTyped'
      BY <3>1, <3>2, <1>ty DEF LoginTyped, Sessions, NoSession
    <3>5. Claims'
      BY <3>1, <3>3, <1>ty DEF Claims, Starting, Keeps
    <3>6. Verifications'
      BY <3>1, <3>3, <2>2, <1>ty DEF Verifications, Verifying, Kept
    <3> QED BY <3>4, <3>5, <3>6 DEF LoginInv
  <2> QED BY <2>1, <2>2
<1>7. CASE ProcessEnds \/ UNCHANGED loginVars
  <2>1. UNCHANGED <<active, sessions, call>>
    BY <1>7 DEF ProcessEnds, loginVars
  <2> QED BY <2>1, <1>ty DEF LoginInv, LoginTyped, Claims, Verifications, Starting, Verifying, Keeps, Kept
<1> QED
  BY <1>1, <1>2, <1>3, <1>4, <1>5, <1>6, <1>7 DEF LoginNext

\* The claims of an account, counted.
LEMMA LoginsCounted == LoginInv => ClaimsAreExact
<1> SUFFICES ASSUME LoginInv PROVE ClaimsAreExact
  OBVIOUS
<1> USE LoginAssumption
<1>ty. LoginTyped /\ Claims /\ Verifications
  BY DEF LoginInv
<1>1. ASSUME NEW a \in Accounts PROVE Cardinality(Holders(a)) = IF a \in active THEN 1 ELSE 0
  <2>1. CASE a \in active
    <3>1. CASE \E c \in LoginClients : Starting(c, a)
      <4>1. PICK c \in LoginClients : Starting(c, a) BY <3>1
      <4>2. \A d \in LoginClients : Starting(d, a) => d = c
        BY <4>1, <1>ty DEF Claims
      <4>3. \A id \in LoginIds : ~Keeps(id, a)
        BY <4>1, <1>ty DEF Claims
      <4>4. Holders(a) = {c}
        BY <4>1, <4>2, <4>3 DEF Holders, Starting, Keeps
      <4> QED BY <2>1, <4>4, FS_Singleton
    <3>2. CASE \E id \in LoginIds : Keeps(id, a)
      <4>1. PICK id \in LoginIds : Keeps(id, a) BY <3>2
      <4>2. \A d \in LoginClients : ~Starting(d, a)
        BY <4>1, <1>ty DEF Claims
      <4>3. \A jd \in LoginIds : Keeps(jd, a) => jd = id
        BY <4>1, <1>ty DEF Claims
      <4>4. Holders(a) = {id}
        BY <4>1, <4>2, <4>3 DEF Holders, Starting, Keeps
      <4> QED BY <2>1, <4>4, FS_Singleton
    <3> QED BY <2>1, <3>1, <3>2, <1>ty DEF Claims
  <2>2. CASE a \notin active
    <3>1. \A c \in LoginClients : ~Starting(c, a)
      BY <2>2, <1>ty DEF Claims
    <3>2. \A id \in LoginIds : ~Keeps(id, a)
      BY <2>2, <1>ty DEF Claims
    <3>3. Holders(a) = {}
      BY <3>1, <3>2 DEF Holders, Starting, Keeps
    <3> QED BY <2>2, <3>3, FS_EmptySet
  <2> QED BY <2>1, <2>2
<1>2. ASSUME NEW id \in LoginIds, Parked(id)
      PROVE  IF sessions[id].verifying
             THEN Cardinality({c \in LoginClients : call[c].id = id}) = 1
             ELSE sessions[id].timer = "armed"
  <2>0. Kept(id)
    BY <1>2, <1>ty, ParkedIsKept
  <2>1. CASE sessions[id].verifying
    <3>1. PICK c \in LoginClients : Verifying(c, id)
      BY <2>0, <2>1, <1>ty DEF Verifications
    <3>2. \A d \in LoginClients : call[d].id = id => d = c
      BY <3>1, <1>ty DEF Verifications, Verifying, LoginTyped
    <3>3. {d \in LoginClients : call[d].id = id} = {c}
      BY <3>1, <3>2 DEF Verifying
    <3> QED BY <2>1, <3>3, FS_Singleton
  <2> QED BY <2>0, <2>1, <1>ty DEF Verifications
<1>3. \A c \in LoginClients : call[c].kind = "verify" => Parked(call[c].id)
  BY <1>ty, ParkedIsKept DEF Verifications
<1> QED BY <1>1, <1>2, <1>3 DEF ClaimsAreExact

\* However the code, the timer and a second login of the account race, a claim
\* has one login behind it and every parked password something that drops it.
THEOREM ClaimsHold == LoginSpec => []ClaimsAreExact
<1> QED BY LoginInvInit, LoginInvStep, LoginsCounted, PTL DEF LoginSpec

-----------------------------------------------------------------------------
(* The backends of one computer *)

\* A task that looks for a backend for the app, and those left that hold one.
Apps(t) == t.kind # "command"
Refs == {Nobody} \union Ids
BackendRecords ==
    [owner : {"none", "app", "service", "command"},
     phase : {"none", "launch", "named", "stopping", "over"},
     server : {"starting", "answering", "ending", "done"}]
Scripted == [connects : Nat, commands : Nat, services : Nat, faults : Nat]
AppRecords ==
    [state : {"open", "quitting", "exited"}, mode : {"remote", "standalone"}, gen : Nat,
     backend : Refs, shared : Refs, follows : Refs, failed : BOOLEAN]
TaskRecords ==
    [kind : {"starter", "watcher", "command"}, gen : Nat,
     phase : {"stop", "look", "start", "waits", "launched", "post", "sleep", "exit"},
     url : Refs, gone : BOOLEAN, old : Refs, own : Refs, found : Refs]
LocalTyped ==
    /\ script \in Scripted
    /\ backends \in [Ids -> BackendRecords]
    /\ lock \in Refs /\ runtime \in Refs
    /\ service \in [wanted : BOOLEAN, state : {"off", "waiting", "serving", "delay"}, own : Refs]
    /\ app \in AppRecords
    /\ tasks \subseteq TaskRecords

\* Whoever has the database has the lock, until its Stop gives it up.
DatabaseLocked == \A i \in Ids : HasDatabase(i) => lock = i \/ backends[i].phase = "over"

\* One task of the app per connection, none once the connection has a backend;
\* what it refers to is what its phase is about.
TasksSound ==
    /\ \A t \in tasks : /\ t.old # Nobody => t.phase = "stop"
                        /\ t.own # Nobody => t.phase \in {"launched", "post", "exit"}
                        /\ Apps(t) => t.gen <= app.gen /\ (app.backend # Nobody => t.gen # app.gen)
    /\ \A t, u \in tasks : Apps(t) /\ Apps(u) /\ t.gen = u.gen => t = u

\* A backend of the app is the one it uses, or a task of the app has it.
Held(i) == i = app.backend \/ \E t \in tasks : Apps(t) /\ i \in {t.old, t.own}
OwnHeld ==
    \A i \in Ids : backends[i].owner = "app" /\ backends[i].phase \in {"launch", "named"} => Held(i)

LocalInv == LocalTyped /\ DatabaseLocked /\ TasksSound /\ OwnHeld

LEMMA NewIdIsFree == FreeIds # {} => NewId \in FreeIds
<1> SUFFICES ASSUME FreeIds # {} PROVE NewId \in FreeIds
  OBVIOUS
<1>1. FreeIds \in SUBSET Nat
  BY LocalAssumption DEF FreeIds, Ids
<1>2. \E i \in FreeIds : \A k \in FreeIds : i <= k
  BY <1>1, LeastNatural
<1> QED BY <1>2 DEF NewId

\* What a step of a backend, or a Stop of some, leaves of who runs which.
Quiet ==
    /\ DOMAIN backends' = Ids
    /\ \A i \in Ids : /\ backends'[i].owner = backends[i].owner
                      /\ backends'[i].phase \in {"launch", "named"}
                            => backends[i].phase \in {"launch", "named"}
\* What the database and its lock have of LocalInv.
Backed ==
    /\ lock \in Refs /\ runtime \in Refs
    /\ backends \in [Ids -> BackendRecords]
    /\ DatabaseLocked

LEMMA LaunchKeeps ==
    ASSUME Backed, MayLock, NEW o \in {"app", "service", "command"}, Launched(o), runtime' \in Refs
    PROVE  /\ Backed' /\ lock' \in Ids /\ lock' \notin Referred
           /\ backends'[lock'].owner = o
           /\ \A i \in Ids : i # lock' => backends'[i] = backends[i]
<1>1. PICK n : n = NewId
  OBVIOUS
<1>2. n \in Ids /\ n \notin Referred /\ lock = Nobody
  BY <1>1, NewIdIsFree DEF MayLock, FreeIds
<1>3. PICK b \in BackendRecords :
        b = [owner |-> o, phase |-> "launch", server |-> "starting"]
  BY DEF BackendRecords
<1>4. lock' = n /\ backends' = [backends EXCEPT ![n] = b]
  BY <1>1, <1>3 DEF Launched
<1>5. backends'[n] = b /\ \A i \in Ids : i # n => backends'[i] = backends[i]
  BY <1>2, <1>4 DEF BackendRecords, Backed
<1>6. DatabaseLocked'
  <2> SUFFICES ASSUME NEW i \in Ids, backends'[i].server # "done" PROVE lock' = i \/ backends'[i].phase = "over"
    BY DEF DatabaseLocked, HasDatabase
  <2>1. CASE i = n
    BY <2>1, <1>4
  <2>2. CASE i # n
    <3>1. HasDatabase(i)
      BY <2>2, <1>5 DEF HasDatabase
    <3>2. lock # i
      BY <1>2 DEF Ids, Nobody
    <3> QED BY <3>1, <3>2, <2>2, <1>5 DEF BackendRecords, Backed, DatabaseLocked
  <2> QED BY <2>1, <2>2
<1>7. lock' \in Refs
  BY <1>2, <1>4 DEF Refs
<1>8. backends' \in [Ids -> BackendRecords]
  BY <1>2, <1>4 DEF BackendRecords, Backed
<1> QED BY <1>2, <1>3, <1>4, <1>5, <1>6, <1>7, <1>8 DEF BackendRecords, Backed

LEMMA StopsKeep ==
    ASSUME Backed, NEW S, Stops(S), UNCHANGED lock
    PROVE  /\ Backed' /\ Quiet
           /\ \A i \in S : i \in Ids => backends'[i].phase \notin {"launch", "named"}
           /\ \A i \in Ids : i \notin S => backends'[i] = backends[i]
<1>1. /\ runtime' \in Refs
      /\ backends' = [i \in Ids |->
           IF i \in S /\ backends[i].phase \in {"launch", "named"}
           THEN [backends[i] EXCEPT !.phase = "stopping", !.server = IF @ = "done" THEN @ ELSE "ending"]
           ELSE backends[i]]
  BY DEF Stops, Backed, Refs
<1>2. \A i \in Ids : /\ i \notin S \/ backends[i].phase \notin {"launch", "named"} => backends'[i] = backends[i]
                     /\ i \in S /\ backends[i].phase \in {"launch", "named"} =>
                          /\ backends'[i].owner = backends[i].owner
                          /\ backends'[i].phase = "stopping"
                          /\ backends'[i].server = "done" <=> backends[i].server = "done"
                          /\ backends'[i].server \in {"ending", "done"}
                          /\ backends'[i] \in BackendRecords
  <2> SUFFICES ASSUME NEW i \in Ids
               PROVE  /\ i \notin S \/ backends[i].phase \notin {"launch", "named"} => backends'[i] = backends[i]
                      /\ i \in S /\ backends[i].phase \in {"launch", "named"} =>
                          /\ backends'[i].owner = backends[i].owner
                          /\ backends'[i].phase = "stopping"
                          /\ backends'[i].server = "done" <=> backends[i].server = "done"
                          /\ backends'[i].server \in {"ending", "done"}
                          /\ backends'[i] \in BackendRecords
    OBVIOUS
  <2>1. PICK b : b = backends[i]
    OBVIOUS
  <2>2. b \in BackendRecords
    BY <2>1 DEF BackendRecords, Backed
  <2>3. backends'[i] = IF i \in S /\ b.phase \in {"launch", "named"}
                       THEN [b EXCEPT !.phase = "stopping", !.server = IF b.server = "done" THEN b.server ELSE "ending"]
                       ELSE b
    BY <1>1, <2>1
  <2> QED BY <2>1, <2>2, <2>3 DEF BackendRecords
<1>3. \A i \in Ids : backends'[i] \in BackendRecords
  BY <1>2 DEF BackendRecords, Backed
<1>4. backends' \in [Ids -> BackendRecords]
  BY <1>1, <1>3
<1>5. DatabaseLocked'
  BY <1>2 DEF BackendRecords, Backed, DatabaseLocked, HasDatabase
<1>6. Quiet
  BY <1>1, <1>2 DEF Quiet
<1>7. \A i \in S : i \in Ids => backends'[i].phase \notin {"launch", "named"}
  BY <1>2
<1>8. \A i \in Ids : i \notin S => backends'[i] = backends[i]
  BY <1>2
<1>9. Backed'
  BY <1>1, <1>4, <1>5 DEF BackendRecords, Backed, Refs
<1> QED BY <1>6, <1>7, <1>8, <1>9

LEMMA EndedKeeps ==
    ASSUME Backed, NEW o, Ended(o), UNCHANGED runtime
    PROVE  /\ Backed' /\ Quiet
           /\ \A i \in Ids : backends[i].owner = o => backends'[i].phase = "over"
<1>1. \A i \in Ids : /\ backends[i].owner # o => backends'[i] = backends[i]
                     /\ backends[i].owner = o => /\ backends'[i].owner = o
                                                 /\ backends'[i].phase = "over"
                                                 /\ backends'[i].server = "done"
                     /\ backends'[i] \in BackendRecords
  <2> SUFFICES ASSUME NEW i \in Ids
               PROVE  /\ backends[i].owner # o => backends'[i] = backends[i]
                      /\ backends[i].owner = o => /\ backends'[i].owner = o
                                                  /\ backends'[i].phase = "over"
                                                  /\ backends'[i].server = "done"
                      /\ backends'[i] \in BackendRecords
    OBVIOUS
  <2>1. PICK b : b = backends[i]
    OBVIOUS
  <2>2. b \in BackendRecords
    BY <2>1 DEF BackendRecords, Backed
  <2>3. backends'[i] = IF b.owner = o THEN [b EXCEPT !.phase = "over", !.server = "done"] ELSE b
    BY <2>1 DEF Ended
  <2> QED BY <2>1, <2>2, <2>3 DEF BackendRecords
<1>2. lock' \in Refs /\ (lock' = lock \/ (lock # Nobody /\ backends[lock].owner = o))
  BY DEF Ended, Backed, Refs
<1>3. DatabaseLocked'
  BY <1>1, <1>2 DEF BackendRecords, Backed, DatabaseLocked, HasDatabase
<1>4. backends' \in [Ids -> BackendRecords]
  BY <1>1 DEF Ended
<1>5. Quiet
  BY <1>1, <1>4 DEF Quiet
<1>6. Backed'
  BY <1>2, <1>3, <1>4 DEF BackendRecords, Backed, Refs
<1> QED BY <1>1, <1>5, <1>6

LEMMA InvIsBacked == LocalInv => Backed
BY DEF LocalInv, LocalTyped, DatabaseLocked, Backed

LEMMA InvFromBacked ==
    Backed /\ script \in Scripted
    /\ service \in [wanted : BOOLEAN, state : {"off", "waiting", "serving", "delay"}, own : Refs]
    /\ app \in AppRecords /\ tasks \subseteq TaskRecords /\ TasksSound /\ OwnHeld => LocalInv
BY DEF LocalInv, LocalTyped, Backed

\* A step that only the backends take.
LEMMA QuietKeeps ==
    ASSUME LocalInv, Quiet, Backed', script' \in Scripted, UNCHANGED <<service, app, tasks>>
    PROVE  LocalInv'
<1>1. TasksSound' /\ OwnHeld'
  BY DEF LocalInv, TasksSound, OwnHeld, Quiet, Held
<1> QED BY <1>1 DEF LocalInv, LocalTyped, Backed

\* What a step does when t goes on as new.
GoesOn(t, new) ==
    /\ t \in tasks /\ new \in TaskRecords /\ Goes(t, new) /\ UNCHANGED app
    /\ new.gen = t.gen /\ (new.kind = "command" <=> t.kind = "command")
    /\ new.old # Nobody => new.phase = "stop"
    /\ new.own # Nobody => new.phase \in {"launched", "post", "exit"}

LEMMA GoesKeeps ==
    ASSUME tasks \subseteq TaskRecords, app \in AppRecords, TasksSound, NEW t, NEW new, GoesOn(t, new)
    PROVE  /\ tasks' \subseteq TaskRecords /\ app' \in AppRecords /\ TasksSound'
           /\ \A i \in Ids : Held(i) => Held(i)' \/ i \in {t.old, t.own} \ {new.old, new.own}
           /\ Apps(t) => \A i \in {new.old, new.own} : Held(i)'
<1>1. tasks' = (tasks \ {t}) \union {new} /\ app' = app /\ t \in tasks /\ new \in TaskRecords
  BY DEF GoesOn, Goes
<1>2. \A u \in tasks' : u = new \/ (u \in tasks /\ u # t)
  BY <1>1
<1>3. new.gen = t.gen /\ (Apps(new) <=> Apps(t))
  BY DEF GoesOn, Apps
<1>4. \A u \in tasks' : /\ u.old # Nobody => u.phase = "stop"
                        /\ u.own # Nobody => u.phase \in {"launched", "post", "exit"}
  BY <1>2 DEF TasksSound, GoesOn
<1>5. \A u \in tasks' : Apps(u) => u.gen <= app'.gen /\ (app'.backend # Nobody => u.gen # app'.gen)
  <2> SUFFICES ASSUME NEW u \in tasks', Apps(u) PROVE u.gen <= app.gen /\ (app.backend # Nobody => u.gen # app.gen)
    BY <1>1
  <2>1. PICK v \in tasks : Apps(v) /\ v.gen = u.gen
    BY <1>1, <1>2, <1>3
  <2> QED BY <2>1 DEF TasksSound
<1>6. \A u, v \in tasks' : Apps(u) /\ Apps(v) /\ u.gen = v.gen => u = v
  <2> SUFFICES ASSUME NEW u \in tasks', NEW v \in tasks', Apps(u), Apps(v), u.gen = v.gen PROVE u = v
    OBVIOUS
  <2>1. CASE u = new /\ v # new
    <3>1. v \in tasks /\ v # t /\ Apps(t) /\ t.gen = v.gen
      BY <2>1, <1>2, <1>3
    <3> QED BY <3>1, <1>1 DEF TasksSound
  <2>2. CASE v = new /\ u # new
    <3>1. u \in tasks /\ u # t /\ Apps(t) /\ t.gen = u.gen
      BY <2>2, <1>2, <1>3
    <3> QED BY <3>1, <1>1 DEF TasksSound
  <2>3. CASE u # new /\ v # new
    BY <2>3, <1>2 DEF TasksSound
  <2> QED BY <2>1, <2>2, <2>3
<1>7. TasksSound'
  BY <1>4, <1>5, <1>6 DEF TasksSound, Apps
<1>8. \A i \in Ids : Held(i) => Held(i)' \/ i \in {t.old, t.own} \ {new.old, new.own}
  <2> SUFFICES ASSUME NEW i \in Ids, Held(i), i \notin {t.old, t.own} \ {new.old, new.own} PROVE Held(i)'
    OBVIOUS
  <2>1. CASE i = app.backend
    BY <2>1, <1>1 DEF Held
  <2>2. ASSUME NEW u \in tasks, Apps(u), i \in {u.old, u.own} PROVE Held(i)'
    <3>1. CASE u = t
      <4>1. new \in tasks' /\ Apps(new) /\ i \in {new.old, new.own}
        BY <3>1, <2>2, <1>1, <1>3
      <4> QED BY <4>1 DEF Held, Apps
    <3>2. CASE u # t
      <4>1. u \in tasks'
        BY <3>2, <1>1
      <4> QED BY <4>1, <2>2 DEF Held, Apps
    <3> QED BY <3>1, <3>2
  <2> QED BY <2>1, <2>2 DEF Held
<1>9. ASSUME Apps(t) PROVE \A i \in {new.old, new.own} : Held(i)'
  <2>1. new \in tasks' /\ Apps(new)
    BY <1>9, <1>1, <1>3
  <2> QED BY <2>1 DEF Held, Apps
<1> QED BY <1>1, <1>7, <1>8, <1>9

\* A task goes on; the backends stay as they are.
LEMMA GoesAlone ==
    ASSUME LocalInv, NEW t, NEW new, GoesOn(t, new), script' \in Scripted,
           UNCHANGED <<backends, lock, runtime, service>>,
           \A i \in {t.old, t.own} \ {new.old, new.own} :
              i \in Ids => backends[i].phase \notin {"launch", "named"}
    PROVE  LocalInv'
<1>1. /\ tasks' \subseteq TaskRecords /\ app' \in AppRecords /\ TasksSound'
      /\ \A i \in Ids : Held(i) => Held(i)' \/ i \in {t.old, t.own} \ {new.old, new.own}
  BY GoesKeeps DEF LocalInv, LocalTyped
<1>2. OwnHeld'
  BY <1>1 DEF LocalInv, OwnHeld
<1>3. Backed'
  BY InvIsBacked DEF Backed, DatabaseLocked, HasDatabase
<1> QED BY <1>1, <1>2, <1>3 DEF LocalInv, LocalTyped, Backed

LEMMA UsesKeeps == ASSUME script \in Scripted, NEW w \in {"connects", "commands", "services", "faults"}, Uses(w)
                   PROVE  script' \in Scripted
<1>1. \A x \in {"connects", "commands", "services", "faults"} : script[x] \in Nat
  BY DEF Scripted
<1>2. script[w] - 1 \in Nat
  <2>1. script[w] \in Nat /\ script[w] > 0
    BY <1>1 DEF Uses
  <2> QED BY <2>1
<1>3. PICK n \in Nat : n = script[w] - 1
  BY <1>2
<1>4. script' = [script EXCEPT ![w] = n]
  BY <1>3 DEF Uses
<1> QED BY <1>4 DEF Scripted

\* The backend i goes on as b.
LEMMA OneBackendChanges ==
    ASSUME Backed, NEW i \in Ids, NEW b \in BackendRecords, backends' = [backends EXCEPT ![i] = b],
           b.owner = backends[i].owner,
           b.phase \in {"launch", "named"} => backends[i].phase \in {"launch", "named"},
           b.server # "done" => HasDatabase(i) /\ (backends[i].phase = "over" => b.phase = "over"),
           runtime' \in Refs,
           lock' = lock \/ (lock' = Nobody /\ lock = i /\ b.phase = "over")
    PROVE  Backed' /\ Quiet
<1>1. backends' \in [Ids -> BackendRecords] /\ backends'[i] = b /\ \A k \in Ids : k # i => backends'[k] = backends[k]
  BY DEF Backed
<1>2. DatabaseLocked'
  <2> SUFFICES ASSUME NEW k \in Ids, backends'[k].server # "done"
               PROVE  lock' = k \/ backends'[k].phase = "over"
    BY DEF DatabaseLocked, HasDatabase
  <2>1. CASE k = i
    BY <2>1, <1>1 DEF Backed, DatabaseLocked, HasDatabase
  <2>2. CASE k # i
    BY <2>2, <1>1 DEF Backed, DatabaseLocked, HasDatabase
  <2> QED BY <2>1, <2>2
<1>3. Quiet
  BY <1>1 DEF Quiet
<1>4. lock' \in Refs
  BY DEF Backed, Refs
<1> QED BY <1>1, <1>2, <1>3, <1>4 DEF Backed

LEMMA BackendKeeps == ASSUME LocalInv, NEW i \in Ids, BackendStep(i) \/ BackendFault(i) PROVE LocalInv'
<1>b. Backed /\ script \in Scripted /\ i \in Refs
  BY InvIsBacked DEF LocalInv, LocalTyped, Refs
<1>o. PICK o \in BackendRecords : o = backends[i]
  BY <1>b DEF Backed
<1>1. ASSUME BackendAnswers(i) PROVE LocalInv'
  <2>1. PICK b \in BackendRecords : b = [o EXCEPT !.server = "answering"]
    BY DEF BackendRecords
  <2>2. /\ o.server = "starting" /\ backends' = [backends EXCEPT ![i] = b]
        /\ b.owner = o.owner /\ b.phase = o.phase
    BY <1>1, <1>o, <2>1 DEF BackendAnswers, BackendRecords
  <2>3. UNCHANGED <<script, lock, runtime, service, app, tasks>>
    BY <1>1 DEF BackendAnswers, Others
  <2>4. Backed' /\ Quiet
    BY <1>b, <1>o, <2>2, <2>3, OneBackendChanges DEF HasDatabase, Backed
  <2> QED BY <1>b, <2>3, <2>4, QuietKeeps
<1>2. ASSUME Named(i) PROVE LocalInv'
  <2>1. PICK b \in BackendRecords : b = [o EXCEPT !.phase = "named"]
    BY DEF BackendRecords
  <2>2. /\ o.server = "answering" /\ o.phase = "launch" /\ backends' = [backends EXCEPT ![i] = b]
        /\ b.owner = o.owner /\ b.server = o.server /\ b.phase = "named" /\ runtime' = i
    BY <1>2, <1>o, <2>1 DEF Named, Answering, BackendRecords
  <2>3. UNCHANGED <<script, lock, service, app, tasks>>
    BY <1>2 DEF Named, Others
  <2>4. Backed' /\ Quiet
    BY <1>b, <1>o, <2>2, <2>3, OneBackendChanges DEF HasDatabase
  <2> QED BY <1>b, <2>3, <2>4, QuietKeeps
<1>3. ASSUME ServerFails(i) \/ ServerEnds(i) PROVE LocalInv'
  <2>1. PICK b \in BackendRecords : b = [o EXCEPT !.server = "done"]
    BY DEF BackendRecords
  <2>2. /\ backends' = [backends EXCEPT ![i] = b]
        /\ b.owner = o.owner /\ b.phase = o.phase /\ b.server = "done"
    BY <1>3, <1>o, <2>1 DEF ServerFails, ServerEnds, BackendRecords
  <2>3. UNCHANGED <<lock, runtime, service, app, tasks>> /\ script' \in Scripted
    BY <1>3, <1>b, UsesKeeps DEF ServerFails, ServerEnds, Others, Fault
  <2>4. Backed' /\ Quiet
    BY <1>b, <1>o, <2>2, <2>3, OneBackendChanges DEF HasDatabase, Backed
  <2> QED BY <1>b, <2>3, <2>4, QuietKeeps
<1>4. ASSUME LaunchFails(i) \/ LaunchTimesOut(i) PROVE LocalInv'
  <2>1. Stops({i}) /\ UNCHANGED <<lock, service, app, tasks>> /\ script' \in Scripted
    BY <1>4, <1>b, UsesKeeps DEF LaunchFails, LaunchTimesOut, Others, Fault
  <2>2. Backed' /\ Quiet
    BY <1>b, <2>1, StopsKeep
  <2> QED BY <2>1, <2>2, QuietKeeps
<1>5. ASSUME StopReturns(i) \/ StopGivesUp(i) PROVE LocalInv'
  <2>1. PICK b \in BackendRecords : b = [o EXCEPT !.phase = "over"]
    BY DEF BackendRecords
  <2>2. /\ backends' = [backends EXCEPT ![i] = b]
        /\ b.owner = o.owner /\ b.phase = "over" /\ b.server = o.server
        /\ lock' = IF lock = i THEN Nobody ELSE lock
    BY <1>5, <1>o, <2>1 DEF StopReturns, StopGivesUp, StopOver, BackendRecords
  <2>3. UNCHANGED <<runtime, service, app, tasks>> /\ script' \in Scripted
    BY <1>5, <1>b, UsesKeeps DEF StopReturns, StopGivesUp, StopOver, Others, Fault
  <2>4. Backed' /\ Quiet
    BY <1>b, <1>o, <2>2, <2>3, OneBackendChanges DEF HasDatabase, Backed
  <2> QED BY <1>b, <2>3, <2>4, QuietKeeps
<1> QED BY <1>1, <1>2, <1>3, <1>4, <1>5 DEF BackendStep, BackendFault

\* A step of the service: the app has no part in it.
LEMMA ServiceStepKeeps ==
    ASSUME LocalInv, Backed', Quiet, script' \in Scripted, UNCHANGED <<app, tasks>>,
           service' \in [wanted : BOOLEAN, state : {"off", "waiting", "serving", "delay"}, own : Refs]
    PROVE  LocalInv'
<1>1. TasksSound' /\ OwnHeld'
  BY DEF LocalInv, TasksSound, OwnHeld, Quiet, Held
<1> QED BY <1>1 DEF LocalInv, LocalTyped, Backed

LEMMA ServiceKeeps ==
    ASSUME LocalInv, ServiceStep \/ ServiceWanted \/ ServeFails \/ ServiceKilled PROVE LocalInv'
<1>b. Backed /\ script \in Scripted
  BY InvIsBacked DEF LocalInv, LocalTyped
<1>s. PICK s \in [wanted : BOOLEAN, state : {"off", "waiting", "serving", "delay"}, own : Refs] : s = service
  BY DEF LocalInv, LocalTyped
<1>1. ASSUME ServiceWanted \/ ServeFails \/ ServeLeaves \/ ServiceRestarts PROVE LocalInv'
  <2>1. UNCHANGED <<backends, lock, runtime, app, tasks>> /\ script' \in Scripted
    BY <1>1, <1>b, UsesKeeps DEF ServiceWanted, ServeFails, ServeLeaves, ServiceRestarts, Fault
  <2>2. service' \in [wanted : BOOLEAN, state : {"off", "waiting", "serving", "delay"}, own : Refs]
    BY <1>1, <1>s DEF ServiceWanted, ServeFails, ServeLeaves, ServiceRestarts
  <2>3. Backed' /\ Quiet
    BY <1>b, <2>1 DEF Backed, DatabaseLocked, HasDatabase, Quiet
  <2> QED BY <2>1, <2>2, <2>3, ServiceStepKeeps
<1>2. ASSUME ServeLocks PROVE LocalInv'
  <2>1. /\ MayLock /\ Launched("service") /\ service' = [service EXCEPT !.state = "serving", !.own = lock']
        /\ UNCHANGED <<script, runtime, app, tasks>>
    BY <1>2 DEF ServeLocks
  <2>2. runtime' \in Refs
    BY <1>b, <2>1 DEF Backed
  <2>3. /\ Backed' /\ lock' \in Ids /\ backends'[lock'].owner = "service"
        /\ \A i \in Ids : i # lock' => backends'[i] = backends[i]
    BY <1>b, <2>1, <2>2, LaunchKeeps
  <2>4. service' \in [wanted : BOOLEAN, state : {"off", "waiting", "serving", "delay"}, own : Refs]
    BY <1>s, <2>1, <2>3 DEF Refs
  <2>5. TasksSound'
    BY <2>1 DEF LocalInv, TasksSound
  <2>6. OwnHeld'
    <3> SUFFICES ASSUME NEW i \in Ids, backends'[i].owner = "app", backends'[i].phase \in {"launch", "named"}
                 PROVE  Held(i)'
      BY DEF OwnHeld
    <3>1. i # lock' /\ backends'[i] = backends[i]
      BY <2>3
    <3>2. Held(i)
      BY <3>1 DEF LocalInv, OwnHeld
    <3> QED BY <3>2, <2>1 DEF Held
  <2>7. app' \in AppRecords /\ tasks' \subseteq TaskRecords /\ script' \in Scripted
    BY <2>1 DEF LocalInv, LocalTyped
  <2> QED BY <2>3, <2>4, <2>5, <2>6, <2>7 DEF LocalInv, LocalTyped, Backed
<1>3. ASSUME ServeEnds PROVE LocalInv'
  <2>1. Stops({service.own}) /\ UNCHANGED <<script, lock, service, app, tasks>>
    BY <1>3 DEF ServeEnds
  <2>2. Backed' /\ Quiet
    BY <1>b, <2>1, StopsKeep
  <2> QED BY <1>b, <2>1, <2>2, QuietKeeps
<1>4. ASSUME ServiceExits \/ ServiceKilled PROVE LocalInv'
  <2>1. ServiceOver /\ script' \in Scripted
    BY <1>4, <1>b, UsesKeeps DEF ServiceExits, ServiceKilled, Fault
  <2>2. Ended("service") /\ UNCHANGED <<runtime, app, tasks>>
    BY <2>1 DEF ServiceOver
  <2>3. service' \in [wanted : BOOLEAN, state : {"off", "waiting", "serving", "delay"}, own : Refs]
    BY <2>1, <1>s DEF ServiceOver, Refs
  <2>4. Backed' /\ Quiet
    BY <1>b, <2>2, EndedKeeps
  <2> QED BY <2>1, <2>2, <2>3, <2>4, ServiceStepKeeps
<1> QED BY <1>1, <1>2, <1>3, <1>4 DEF ServiceStep

\* The task t starts a backend, as StartsOwn does.
LEMMA StartsOwnKeeps == ASSUME LocalInv, NEW t \in tasks, StartsOwn(t) PROVE LocalInv'
<1>b. Backed /\ t \in TaskRecords
  BY InvIsBacked DEF LocalInv, LocalTyped
<1>1. /\ t.phase = "start" /\ MayLock /\ Launched(OwnerOf(t))
      /\ UNCHANGED <<script, runtime, service, app>>
      /\ Goes(t, [t EXCEPT !.phase = "launched", !.own = lock'])
  BY DEF StartsOwn
<1>2. OwnerOf(t) \in {"app", "service", "command"} /\ (OwnerOf(t) = "app" => Apps(t)) /\ runtime' \in Refs
  BY <1>b, <1>1 DEF OwnerOf, Apps, Backed
<1>3. /\ Backed' /\ lock' \in Ids /\ backends'[lock'].owner = OwnerOf(t)
      /\ \A i \in Ids : i # lock' => backends'[i] = backends[i]
  BY <1>b, <1>1, <1>2, LaunchKeeps
<1>4. PICK l \in Ids : l = lock'
  BY <1>3
<1>5. PICK new \in TaskRecords : new = [t EXCEPT !.phase = "launched", !.own = l]
  BY <1>b DEF TaskRecords, Refs
<1>6. /\ new.kind = t.kind /\ new.gen = t.gen /\ new.phase = "launched" /\ new.own = l /\ new.old = t.old
  BY <1>b, <1>5 DEF TaskRecords
<1>7. t.old = Nobody /\ t.own = Nobody
  BY <1>1 DEF LocalInv, TasksSound
<1>8. GoesOn(t, new)
  BY <1>1, <1>4, <1>5, <1>6, <1>7 DEF GoesOn
<1>9. /\ tasks' \subseteq TaskRecords /\ app' \in AppRecords /\ TasksSound'
      /\ \A i \in Ids : Held(i) => Held(i)' \/ i \in {t.old, t.own} \ {new.old, new.own}
      /\ Apps(t) => \A i \in {new.old, new.own} : Held(i)'
  BY <1>8, GoesKeeps DEF LocalInv, LocalTyped
<1>10. OwnHeld'
  <2> SUFFICES ASSUME NEW i \in Ids, backends'[i].owner = "app", backends'[i].phase \in {"launch", "named"}
               PROVE  Held(i)'
    BY DEF OwnHeld
  <2>1. CASE i = l
    <3>1. Apps(t)
      BY <2>1, <1>2, <1>3, <1>4
    <3> QED BY <2>1, <3>1, <1>6, <1>9
  <2>2. CASE i # l
    <3>1. Held(i)
      BY <2>2, <1>3, <1>4 DEF LocalInv, OwnHeld
    <3>2. i # t.old /\ i # t.own
      BY <1>7 DEF Ids, Nobody
    <3> QED BY <3>1, <3>2, <1>9
  <2> QED BY <2>1, <2>2
<1>11. script' \in Scripted /\ service' \in [wanted : BOOLEAN, state : {"off", "waiting", "serving", "delay"}, own : Refs]
  BY <1>1 DEF LocalInv, LocalTyped
<1> QED BY <1>3, <1>9, <1>10, <1>11 DEF LocalInv, LocalTyped, Backed

\* The steps of a task in which no backend changes.
LEMMA LooksKeep ==
    ASSUME LocalInv, NEW t \in tasks,
           Looks(t) \/ StartFails(t) \/ FindsBusy(t) \/ WaitOver(t) \/ Started(t) \/ OldStopped(t)
    PROVE  LocalInv'
<1>b. t \in TaskRecords /\ runtime \in Refs /\ script \in Scripted
  BY DEF LocalInv, LocalTyped
<1>p. t.phase # "stop" => t.old = Nobody
  BY DEF LocalInv, TasksSound
<1>q. t.phase \notin {"launched", "post", "exit"} => t.own = Nobody
  BY DEF LocalInv, TasksSound
<1>n. Nobody \notin Ids /\ Nobody \in Refs
  BY DEF Ids, Nobody, Refs
<1>1. ASSUME Looks(t) \/ StartFails(t) \/ FindsBusy(t) \/ WaitOver(t) PROVE LocalInv'
  <2>1. PICK p \in {"post", "start", "waits", "look"}, f \in Refs :
           /\ t.phase \in {"look", "start", "waits"}
           /\ Goes(t, [t EXCEPT !.phase = p, !.found = f])
    <3>1. ASSUME Looks(t) PROVE \E p \in {"post", "start", "waits", "look"}, f \in Refs :
             t.phase \in {"look", "start", "waits"} /\ Goes(t, [t EXCEPT !.phase = p, !.found = f])
      <4>1. CASE Answering(runtime)
        BY <3>1, <4>1, <1>b DEF Looks
      <4>2. CASE ~Answering(runtime)
        <5>1. [t EXCEPT !.phase = "start"] = [t EXCEPT !.phase = "start", !.found = t.found]
          BY <1>b DEF TaskRecords
        <5>2. t.found \in Refs
          BY <1>b DEF TaskRecords
        <5> QED BY <3>1, <4>2, <5>1, <5>2 DEF Looks
      <4> QED BY <4>1, <4>2
    <3>2. ASSUME StartFails(t) PROVE \E p \in {"post", "start", "waits", "look"}, f \in Refs :
             t.phase \in {"look", "start", "waits"} /\ Goes(t, [t EXCEPT !.phase = p, !.found = f])
      <4>1. [t EXCEPT !.phase = "post"] = [t EXCEPT !.phase = "post", !.found = t.found] /\ t.found \in Refs
        BY <1>b DEF TaskRecords
      <4> QED BY <3>2, <4>1 DEF StartFails
    <3>3. ASSUME FindsBusy(t) PROVE \E p \in {"post", "start", "waits", "look"}, f \in Refs :
             t.phase \in {"look", "start", "waits"} /\ Goes(t, [t EXCEPT !.phase = p, !.found = f])
      <4>1. PICK p \in {"waits", "look"} : p = IF t.kind = "command" THEN "waits" ELSE "look"
        OBVIOUS
      <4>2. [t EXCEPT !.phase = p] = [t EXCEPT !.phase = p, !.found = t.found] /\ t.found \in Refs
        BY <1>b DEF TaskRecords
      <4>3. t.phase = "start" /\ Goes(t, [t EXCEPT !.phase = p])
        BY <3>3, <4>1 DEF FindsBusy
      <4> QED BY <4>1, <4>2, <4>3
    <3>4. ASSUME WaitOver(t) PROVE \E p \in {"post", "start", "waits", "look"}, f \in Refs :
             t.phase \in {"look", "start", "waits"} /\ Goes(t, [t EXCEPT !.phase = p, !.found = f])
      <4>1. PICK f \in Refs : f = IF Answering(runtime) THEN runtime ELSE Nobody
        BY <1>b, <1>n
      <4> QED BY <3>4, <4>1 DEF WaitOver
    <3> QED BY <1>1, <3>1, <3>2, <3>3, <3>4
  <2>2. UNCHANGED <<backends, lock, runtime, service, app>> /\ script' \in Scripted
    BY <1>1, <1>b, UsesKeeps DEF Looks, StartFails, FindsBusy, WaitOver, Fault
  <2>3. PICK new \in TaskRecords : new = [t EXCEPT !.phase = p, !.found = f]
    BY <1>b DEF TaskRecords
  <2>4. new.kind = t.kind /\ new.gen = t.gen /\ new.own = t.own /\ new.old = t.old
    BY <1>b, <2>3 DEF TaskRecords
  <2>5. t.old = Nobody /\ t.own = Nobody
    BY <2>1, <1>p, <1>q
  <2>6. GoesOn(t, new)
    BY <2>1, <2>2, <2>3, <2>4, <2>5 DEF GoesOn
  <2> QED BY <2>2, <2>4, <2>6, GoesAlone
<1>2. ASSUME Started(t) PROVE LocalInv'
  <2>1. t.phase = "launched" /\ UNCHANGED <<script, backends, lock, runtime, service, app>>
    BY <1>2 DEF Started
  <2>2. PICK o \in Refs : /\ Goes(t, [t EXCEPT !.phase = "post", !.own = o])
                          /\ o = t.own \/ (o = Nobody /\ backends[t.own].phase = "over")
    <3>1. CASE backends[t.own].phase = "named" /\ Goes(t, [t EXCEPT !.phase = "post"])
      <4>1. [t EXCEPT !.phase = "post"] = [t EXCEPT !.phase = "post", !.own = t.own] /\ t.own \in Refs
        BY <1>b DEF TaskRecords
      <4> QED BY <3>1, <4>1
    <3>2. CASE backends[t.own].phase = "over" /\ Goes(t, [t EXCEPT !.phase = "post", !.own = Nobody])
      BY <3>2, <1>n
    <3> QED BY <1>2, <3>1, <3>2 DEF Started
  <2>3. PICK new \in TaskRecords : new = [t EXCEPT !.phase = "post", !.own = o]
    BY <1>b DEF TaskRecords
  <2>4. new.kind = t.kind /\ new.gen = t.gen /\ new.own = o /\ new.old = t.old /\ new.phase = "post"
    BY <1>b, <2>3 DEF TaskRecords
  <2>5. t.old = Nobody
    BY <2>1, <1>p
  <2>6. GoesOn(t, new)
    BY <2>1, <2>2, <2>3, <2>4, <2>5 DEF GoesOn
  <2>7. script' \in Scripted
    BY <1>b, <2>1
  <2>8. \A i \in {t.old, t.own} \ {new.old, new.own} : i \in Ids => backends[i].phase \notin {"launch", "named"}
    BY <2>2, <2>4
  <2> QED BY <2>1, <2>6, <2>7, <2>8, GoesAlone
<1>3. ASSUME OldStopped(t) PROVE LocalInv'
  <2>1. /\ t.phase = "stop" /\ (t.old # Nobody => backends[t.old].phase = "over")
        /\ Goes(t, [t EXCEPT !.phase = "look", !.old = Nobody])
        /\ UNCHANGED <<script, backends, lock, runtime, service, app>>
    BY <1>3 DEF OldStopped
  <2>2. PICK new \in TaskRecords : new = [t EXCEPT !.phase = "look", !.old = Nobody]
    BY <1>b, <1>n DEF TaskRecords
  <2>3. new.kind = t.kind /\ new.gen = t.gen /\ new.own = t.own /\ new.old = Nobody
    BY <1>b, <2>2 DEF TaskRecords
  <2>4. t.own = Nobody
    BY <2>1, <1>q
  <2>5. GoesOn(t, new)
    BY <2>1, <2>2, <2>3, <2>4 DEF GoesOn
  <2>6. script' \in Scripted
    BY <1>b, <2>1
  <2>7. \A i \in {t.old, t.own} \ {new.old, new.own} : i \in Ids => backends[i].phase \notin {"launch", "named"}
    BY <2>1, <2>4, <1>n
  <2> QED BY <2>1, <2>5, <2>6, <2>7, GoesAlone
<1> QED BY <1>1, <1>2, <1>3

\* Tasks end; the app's backend and connection stay.
LEMMA FewerTasks ==
    ASSUME LocalInv, tasks' \subseteq tasks, app' \in AppRecords,
           app'.gen = app.gen, app'.backend = app.backend
    PROVE  /\ tasks' \subseteq TaskRecords /\ TasksSound'
           /\ \A i \in Ids : Held(i) => Held(i)' \/ \E t \in tasks \ tasks' : Apps(t) /\ i \in {t.old, t.own}
BY DEF LocalInv, LocalTyped, TasksSound, Held, Apps

LEMMA CommandsKeep ==
    ASSUME LocalInv, CommandRuns \/ \E t \in tasks : CommandEnds(t) \/ CommandExits(t) PROVE LocalInv'
<1>b. Backed /\ script \in Scripted /\ app \in AppRecords /\ tasks \subseteq TaskRecords
  BY InvIsBacked DEF LocalInv, LocalTyped
<1>1. ASSUME CommandRuns PROVE LocalInv'
  <2>1. PICK new : new = Task("command", 0, "look")
    OBVIOUS
  <2>2. /\ new \in TaskRecords /\ new.kind = "command" /\ new.old = Nobody /\ new.own = Nobody
    BY <2>1 DEF Task, TaskRecords, Refs
  <2>3. tasks' = tasks \union {new} /\ UNCHANGED <<backends, lock, runtime, service, app>> /\ script' \in Scripted
    BY <1>1, <1>b, <2>1, UsesKeeps DEF CommandRuns
  <2>4. \A t \in tasks' : t = new \/ t \in tasks
    BY <2>3
  <2>5. TasksSound'
    BY <2>2, <2>3, <2>4 DEF LocalInv, TasksSound, Apps
  <2>6. OwnHeld'
    BY <2>3 DEF LocalInv, OwnHeld, Held, Apps
  <2>7. Backed'
    BY <1>b, <2>3 DEF Backed, DatabaseLocked, HasDatabase
  <2>8. tasks' \subseteq TaskRecords
    BY <1>b, <2>2, <2>3
  <2> QED BY <2>3, <2>5, <2>6, <2>7, <2>8 DEF LocalInv, LocalTyped, Backed
<1>2. ASSUME NEW t \in tasks, CommandEnds(t) PROVE LocalInv'
  <2>1. /\ t.kind = "command" /\ t.phase = "post" /\ Goes(t, [t EXCEPT !.phase = "exit"])
        /\ UNCHANGED <<script, lock, service, app>>
        /\ IF t.own # Nobody THEN Stops({t.own}) ELSE UNCHANGED <<backends, runtime>>
    BY <1>2 DEF CommandEnds
  <2>2. PICK new \in TaskRecords : new = [t EXCEPT !.phase = "exit"]
    BY <1>b DEF TaskRecords
  <2>3. new.kind = t.kind /\ new.gen = t.gen /\ new.own = t.own /\ new.old = t.old /\ new.phase = "exit"
    BY <1>b, <2>2 DEF TaskRecords
  <2>4. t.old = Nobody
    BY <2>1 DEF LocalInv, TasksSound
  <2>5. GoesOn(t, new)
    BY <2>1, <2>2, <2>3, <2>4 DEF GoesOn
  <2>6. /\ tasks' \subseteq TaskRecords /\ app' \in AppRecords /\ TasksSound'
        /\ \A i \in Ids : Held(i) => Held(i)' \/ i \in {t.old, t.own} \ {new.old, new.own}
    BY <1>b, <2>5, GoesKeeps DEF LocalInv
  <2>7. Backed' /\ Quiet
    <3>1. CASE t.own # Nobody
      BY <3>1, <1>b, <2>1, StopsKeep
    <3>2. CASE t.own = Nobody
      BY <3>2, <1>b, <2>1 DEF Backed, DatabaseLocked, HasDatabase, Quiet
    <3> QED BY <3>1, <3>2
  <2>8. OwnHeld'
    BY <2>3, <2>6, <2>7 DEF LocalInv, OwnHeld, Quiet
  <2>9. script' \in Scripted /\ service' \in [wanted : BOOLEAN, state : {"off", "waiting", "serving", "delay"}, own : Refs]
    BY <2>1 DEF LocalInv, LocalTyped
  <2> QED BY <2>6, <2>7, <2>8, <2>9 DEF LocalInv, LocalTyped, Backed
<1>3. ASSUME NEW t \in tasks, CommandExits(t) PROVE LocalInv'
  <2>1. /\ t.kind = "command" /\ tasks' = tasks \ {t} /\ Ended("command")
        /\ UNCHANGED <<script, runtime, service, app>>
    BY <1>3 DEF CommandExits
  <2>2. Backed' /\ Quiet
    BY <1>b, <2>1, EndedKeeps
  <2>3. /\ tasks' \subseteq TaskRecords /\ TasksSound'
        /\ \A i \in Ids : Held(i) => Held(i)' \/ \E u \in tasks \ tasks' : Apps(u) /\ i \in {u.old, u.own}
    BY <1>b, <2>1, FewerTasks
  <2>4. \A u \in tasks \ tasks' : ~Apps(u)
    BY <2>1 DEF Apps
  <2>5. OwnHeld'
    BY <2>2, <2>3, <2>4 DEF LocalInv, OwnHeld, Quiet
  <2>6. script' \in Scripted /\ service' \in [wanted : BOOLEAN, state : {"off", "waiting", "serving", "delay"}, own : Refs]
    BY <2>1 DEF LocalInv, LocalTyped
  <2> QED BY <1>b, <2>1, <2>2, <2>3, <2>5, <2>6 DEF LocalInv, LocalTyped, Backed
<1> QED BY <1>1, <1>2, <1>3

LEMMA ReconnectKeeps ==
    ASSUME LocalInv, NEW md \in {"standalone", "remote"}, Reconnect(md) PROVE LocalInv'
<1>b. Backed /\ script \in Scripted /\ app \in AppRecords /\ tasks \subseteq TaskRecords
  BY InvIsBacked DEF LocalInv, LocalTyped
<1>1. PICK nx \in Nat : nx = app.gen + 1
  BY <1>b DEF AppRecords
<1>2. PICK a \in AppRecords : a = [app EXCEPT !.mode = md, !.gen = nx, !.backend = Nobody, !.shared = Nobody,
                                              !.follows = Nobody, !.failed = FALSE]
  BY <1>b DEF AppRecords, Refs
<1>3. a.gen = nx /\ a.backend = Nobody
  BY <1>b, <1>2 DEF AppRecords
<1>4. app' = a /\ UNCHANGED <<lock, service>> /\ script' \in Scripted
  BY <1>b, <1>1, <1>2, UsesKeeps DEF Reconnect
<1>5. \A t \in tasks : Apps(t) => t.gen \in Nat /\ t.gen < nx
  <2>1. app.gen \in Nat /\ \A t \in tasks : t.gen \in Nat /\ (Apps(t) => t.gen <= app.gen)
    BY <1>b DEF LocalInv, TasksSound, AppRecords, TaskRecords
  <2> QED BY <1>1, <2>1
<1>6. CASE md = "standalone"
  <2>1. PICK new : new = [Task("starter", nx, "stop") EXCEPT !.old = app.backend]
    OBVIOUS
  <2>2. new \in TaskRecords /\ new.gen = nx /\ new.old = app.backend /\ new.own = Nobody /\ new.phase = "stop" /\ new.kind = "starter"
    BY <1>b, <2>1 DEF Task, TaskRecords, AppRecords, Refs
  <2>3. tasks' = tasks \union {new} /\ UNCHANGED <<backends, runtime>>
    BY <1>3, <1>4, <1>6, <2>1 DEF Reconnect
  <2>4. \A t \in tasks' : t = new \/ t \in tasks
    BY <2>3
  <2>5. TasksSound'
    <3>1. \A t \in tasks' : /\ t.old # Nobody => t.phase = "stop"
                            /\ t.own # Nobody => t.phase \in {"launched", "post", "exit"}
      BY <2>2, <2>4 DEF LocalInv, TasksSound
    <3>2. \A t \in tasks' : Apps(t) => t.gen <= nx
      BY <1>5, <2>2, <2>4
    <3>3. \A t, u \in tasks' : Apps(t) /\ Apps(u) /\ t.gen = u.gen => t = u
      <4> SUFFICES ASSUME NEW t \in tasks', NEW u \in tasks', Apps(t), Apps(u), t.gen = u.gen PROVE t = u
        OBVIOUS
      <4>1. CASE t \in tasks /\ u \in tasks
        BY <4>1 DEF LocalInv, TasksSound
      <4>2. CASE t = new /\ u \in tasks
        BY <4>2, <1>5, <2>2
      <4>3. CASE u = new /\ t \in tasks
        BY <4>3, <1>5, <2>2
      <4> QED BY <4>1, <4>2, <4>3, <2>4
    <3> QED BY <3>1, <3>2, <3>3, <1>3, <1>4 DEF TasksSound, Apps
  <2>6. OwnHeld'
    <3> SUFFICES ASSUME NEW i \in Ids, Held(i) PROVE Held(i)'
      BY <2>3 DEF LocalInv, OwnHeld
    <3>1. new \in tasks' /\ Apps(new) /\ tasks \subseteq tasks'
      BY <2>2, <2>3 DEF Apps
    <3>2. CASE i = app.backend
      BY <3>1, <3>2, <2>2 DEF Held, Apps
    <3>3. CASE i # app.backend
      BY <3>1, <3>3 DEF Held, Apps
    <3> QED BY <3>2, <3>3
  <2>7. Backed'
    BY <1>b, <1>4, <2>3 DEF Backed, DatabaseLocked, HasDatabase
  <2>8. tasks' \subseteq TaskRecords /\ app' \in AppRecords
    BY <1>b, <1>4, <2>2, <2>3
  <2>9. service' \in [wanted : BOOLEAN, state : {"off", "waiting", "serving", "delay"}, own : Refs]
    BY <1>4 DEF LocalInv, LocalTyped
  <2> QED BY <1>4, <2>5, <2>6, <2>7, <2>8, <2>9 DEF LocalInv, LocalTyped, Backed
<1>7. CASE md = "remote"
  <2>1. Stops({app.backend} \ {Nobody}) /\ UNCHANGED tasks
    BY <1>7 DEF Reconnect
  <2>2. /\ Backed' /\ Quiet
        /\ \A i \in {app.backend} \ {Nobody} : i \in Ids => backends'[i].phase \notin {"launch", "named"}
    BY <1>b, <1>4, <2>1, StopsKeep
  <2>3. TasksSound'
    <3>1. \A t \in tasks : Apps(t) => t.gen <= nx
      BY <1>5
    <3> QED BY <1>3, <1>4, <2>1, <3>1 DEF LocalInv, TasksSound, Apps
  <2>4. OwnHeld'
    <3> SUFFICES ASSUME NEW i \in Ids, backends'[i].owner = "app", backends'[i].phase \in {"launch", "named"}
                 PROVE  Held(i)'
      BY DEF OwnHeld
    <3>1. Held(i) /\ i # app.backend
      <4>1. Held(i)
        BY <2>2 DEF LocalInv, OwnHeld, Quiet
      <4>2. i # Nobody
        BY DEF Ids, Nobody
      <4> QED BY <4>1, <4>2, <2>2
    <3> QED BY <3>1, <2>1 DEF Held, Apps
  <2>5. app' \in AppRecords /\ tasks' \subseteq TaskRecords
    BY <1>b, <1>4, <2>1
  <2>6. service' \in [wanted : BOOLEAN, state : {"off", "waiting", "serving", "delay"}, own : Refs]
    BY <1>4 DEF LocalInv, LocalTyped
  <2> QED BY <1>4, <2>2, <2>3, <2>4, <2>5, <2>6 DEF LocalInv, LocalTyped, Backed
<1> QED BY <1>6, <1>7

\* What is found or started arrives at the app.
LEMMA ArrivesKeeps == ASSUME LocalInv, NEW t \in tasks, Arrives(t) PROVE LocalInv'
<1>b. Backed /\ script \in Scripted /\ app \in AppRecords /\ tasks \subseteq TaskRecords /\ t \in TaskRecords
  BY InvIsBacked DEF LocalInv, LocalTyped
<1>a. /\ t.kind \in {"starter", "watcher"} /\ t.phase = "post" /\ Apps(t) /\ t.old = Nobody
      /\ UNCHANGED <<script, lock, service>>
  BY DEF Arrives, Apps, LocalInv, TasksSound
<1>n. Nobody \notin Ids /\ Nobody \in Refs
  BY DEF Ids, Nobody, Refs
<1>z. script' \in Scripted /\ service' \in [wanted : BOOLEAN, state : {"off", "waiting", "serving", "delay"}, own : Refs]
  BY <1>a DEF LocalInv, LocalTyped
<1>1. CASE ~IsCurrent(t) /\ tasks' = tasks \ {t} /\ Stops({t.own} \ {Nobody}) /\ UNCHANGED app
  <2>1. /\ Backed' /\ Quiet
        /\ \A i \in {t.own} \ {Nobody} : i \in Ids => backends'[i].phase \notin {"launch", "named"}
    BY <1>a, <1>b, <1>1, StopsKeep
  <2>2. /\ tasks' \subseteq TaskRecords /\ TasksSound'
        /\ \A i \in Ids : Held(i) => Held(i)' \/ \E u \in tasks \ tasks' : Apps(u) /\ i \in {u.old, u.own}
    BY <1>b, <1>1, FewerTasks
  <2>3. OwnHeld'
    <3> SUFFICES ASSUME NEW i \in Ids, backends'[i].owner = "app", backends'[i].phase \in {"launch", "named"}
                 PROVE  Held(i)'
      BY DEF OwnHeld
    <3>1. Held(i) /\ i # t.own /\ i # t.old
      BY <1>a, <1>n, <2>1 DEF LocalInv, OwnHeld, Quiet
    <3> QED BY <1>1, <2>2, <3>1
  <2> QED BY <1>b, <1>1, <1>z, <2>1, <2>2, <2>3 DEF LocalInv, LocalTyped, Backed
<1>2. CASE /\ IsCurrent(t) /\ t.own = Nobody /\ t.found = Nobody
           /\ app' = [app EXCEPT !.failed = TRUE] /\ UNCHANGED <<backends, runtime>>
           /\ IF t.kind = "starter" THEN tasks' = tasks \ {t} ELSE Goes(t, [t EXCEPT !.phase = "sleep"])
  <2>1. app' \in AppRecords /\ app'.gen = app.gen /\ app'.backend = app.backend
    BY <1>b, <1>2 DEF AppRecords
  <2>2. Backed' /\ Quiet
    BY <1>a, <1>b, <1>2 DEF Backed, DatabaseLocked, HasDatabase, Quiet
  <2>3. CASE t.kind = "starter"
    <3>1. /\ tasks' \subseteq TaskRecords /\ TasksSound'
          /\ \A i \in Ids : Held(i) => Held(i)' \/ \E u \in tasks \ tasks' : Apps(u) /\ i \in {u.old, u.own}
      BY <1>2, <2>1, <2>3, FewerTasks
    <3>2. OwnHeld'
      <4>1. \A u \in tasks \ tasks' : u = t
        BY <1>2, <2>3
      <4> QED BY <1>2, <1>a, <1>n, <3>1, <4>1, <2>2 DEF LocalInv, OwnHeld, Quiet
    <3> QED BY <1>z, <2>1, <2>2, <3>1, <3>2 DEF LocalInv, LocalTyped, Backed
  <2>4. CASE t.kind # "starter"
    <3>1. PICK new \in TaskRecords : new = [t EXCEPT !.phase = "sleep"]
      BY <1>b DEF TaskRecords
    <3>2. new.kind = t.kind /\ new.gen = t.gen /\ new.own = Nobody /\ new.old = Nobody
      BY <1>a, <1>b, <1>2, <3>1 DEF TaskRecords
    <3>3. tasks' = (tasks \ {t}) \union {new}
      BY <1>2, <2>4, <3>1 DEF Goes
    <3>4. \A u \in tasks' : u = new \/ (u \in tasks /\ u # t)
      BY <3>3
    <3>5. TasksSound'
      <4>1. Apps(new) /\ t \in tasks /\ new.gen <= app.gen /\ (app.backend # Nobody => new.gen # app.gen)
        BY <1>a, <3>2 DEF Apps, LocalInv, TasksSound
      <4>2. \A u \in tasks' : /\ u.old # Nobody => u.phase = "stop"
                              /\ u.own # Nobody => u.phase \in {"launched", "post", "exit"}
                              /\ Apps(u) => u.gen <= app.gen /\ (app.backend # Nobody => u.gen # app.gen)
        BY <3>2, <3>4, <4>1 DEF LocalInv, TasksSound
      <4>3. \A u \in tasks : u # t /\ Apps(u) => u.gen # new.gen
        BY <1>a, <3>2 DEF LocalInv, TasksSound
      <4>4. \A u, v \in tasks' : Apps(u) /\ Apps(v) /\ u.gen = v.gen => u = v
        BY <3>4, <4>3 DEF LocalInv, TasksSound
      <4> QED BY <2>1, <4>2, <4>4 DEF TasksSound, Apps
    <3>6. OwnHeld'
      <4> SUFFICES ASSUME NEW i \in Ids, Held(i) PROVE Held(i)'
        BY <2>2 DEF LocalInv, OwnHeld, Quiet
      <4>1. CASE i = app.backend
        BY <4>1, <2>1 DEF Held
      <4>2. CASE i # app.backend
        <5>1. PICK u \in tasks : Apps(u) /\ i \in {u.old, u.own}
          BY <4>2 DEF Held
        <5>2. u # t
          BY <5>1, <1>2, <1>a, <1>n
        <5> QED BY <5>1, <5>2, <3>3 DEF Held, Apps
      <4> QED BY <4>1, <4>2
    <3>7. tasks' \subseteq TaskRecords
      BY <1>b, <3>1, <3>3
    <3> QED BY <1>z, <2>1, <2>2, <3>5, <3>6, <3>7 DEF LocalInv, LocalTyped, Backed
  <2> QED BY <2>3, <2>4
<1>3. CASE IsCurrent(t) /\ {t.own, t.found} # {Nobody} /\ Used(t)
  <2>1. t.gen = app.gen /\ app.backend = Nobody
    BY <1>3, <1>a DEF IsCurrent, LocalInv, TasksSound
  <2>2. PICK fo \in Refs : fo = IF t.own # Nobody THEN t.own ELSE t.found
    BY <1>b DEF TaskRecords
  <2>3. PICK a \in AppRecords : a = [app EXCEPT !.backend = t.own, !.shared = t.found, !.failed = FALSE, !.follows = fo]
    BY <1>b DEF AppRecords, TaskRecords
  <2>4. a.backend = t.own /\ a.gen = app.gen
    BY <1>b, <2>3 DEF AppRecords
  <2>5. app' = a /\ UNCHANGED <<backends, runtime>>
    BY <1>3, <2>2, <2>3 DEF Used
  <2>6. Backed' /\ Quiet
    BY <1>a, <1>b, <2>5 DEF Backed, DatabaseLocked, HasDatabase, Quiet
  <2>7. \A u \in tasks : u # t /\ Apps(u) => u.gen # app.gen
    BY <1>a, <2>1 DEF LocalInv, TasksSound
  <2>8. CASE t.own # Nobody
    <3>1. tasks' = tasks \ {t}
      BY <1>3, <2>8 DEF Used
    <3>2. TasksSound'
      <4>1. \A u \in tasks' : u \in tasks /\ u # t
        BY <3>1
      <4>2. \A u \in tasks' : Apps(u) => u.gen <= app.gen /\ u.gen # app.gen
        BY <4>1, <2>7 DEF LocalInv, TasksSound
      <4> QED BY <4>1, <4>2, <2>4, <2>5 DEF LocalInv, TasksSound, Apps
    <3>3. OwnHeld'
      <4> SUFFICES ASSUME NEW i \in Ids, Held(i) PROVE Held(i)'
        BY <2>6 DEF LocalInv, OwnHeld, Quiet
      <4>1. i # app.backend
        BY <2>1, <1>n
      <4>2. PICK u \in tasks : Apps(u) /\ i \in {u.old, u.own}
        BY <4>1 DEF Held
      <4>3. CASE u = t
        BY <4>2, <4>3, <1>a, <1>n, <2>4, <2>5 DEF Held
      <4>4. CASE u # t
        BY <4>2, <4>4, <3>1 DEF Held, Apps
      <4> QED BY <4>3, <4>4
    <3>4. tasks' \subseteq TaskRecords /\ app' \in AppRecords
      BY <1>b, <2>5, <3>1
    <3> QED BY <1>z, <2>6, <3>2, <3>3, <3>4 DEF LocalInv, LocalTyped, Backed
  <2>9. CASE t.own = Nobody
    <3>1. PICK new : new = [Task("watcher", t.gen, "sleep") EXCEPT !.url = t.found]
      OBVIOUS
    <3>2. new \in TaskRecords /\ new.kind = "watcher" /\ new.gen = app.gen /\ new.old = Nobody /\ new.own = Nobody
      BY <1>b, <2>1, <3>1 DEF Task, TaskRecords, Refs, AppRecords
    <3>3. tasks' = (tasks \ {t}) \union {new}
      BY <1>3, <2>9, <3>1 DEF Used
    <3>4. \A u \in tasks' : u = new \/ (u \in tasks /\ u # t)
      BY <3>3
    <3>5. TasksSound'
      <4>1. \A u \in tasks' : /\ u.old # Nobody => u.phase = "stop"
                              /\ u.own # Nobody => u.phase \in {"launched", "post", "exit"}
        BY <3>2, <3>4 DEF LocalInv, TasksSound
      <4>2. app.gen \in Nat
        BY <1>b DEF AppRecords
      <4>3. \A u \in tasks' : Apps(u) => u.gen <= app.gen
        BY <3>2, <3>4, <4>2 DEF LocalInv, TasksSound
      <4>4. \A u, v \in tasks' : Apps(u) /\ Apps(v) /\ u.gen = v.gen => u = v
        BY <2>7, <3>2, <3>4 DEF LocalInv, TasksSound
      <4> QED BY <4>1, <4>3, <4>4, <2>4, <2>5, <2>9 DEF TasksSound, Apps
    <3>6. OwnHeld'
      <4> SUFFICES ASSUME NEW i \in Ids, Held(i) PROVE Held(i)'
        BY <2>6 DEF LocalInv, OwnHeld, Quiet
      <4>1. i # app.backend
        BY <2>1, <1>n
      <4>2. PICK u \in tasks : Apps(u) /\ i \in {u.old, u.own}
        BY <4>1 DEF Held
      <4>3. u # t
        BY <4>2, <2>9, <1>a, <1>n
      <4> QED BY <4>2, <4>3, <3>3 DEF Held, Apps
    <3>7. tasks' \subseteq TaskRecords /\ app' \in AppRecords
      BY <1>b, <2>5, <3>2, <3>3
    <3> QED BY <1>z, <2>6, <3>5, <3>6, <3>7 DEF LocalInv, LocalTyped, Backed
  <2> QED BY <2>8, <2>9
<1> QED BY <1>1, <1>2, <1>3 DEF Arrives

LEMMA AppKeeps ==
    ASSUME LocalInv, Quit \/ AppExits \/ \E t \in tasks : StopsOld(t) \/ Watches(t) PROVE LocalInv'
<1>b. Backed /\ script \in Scripted /\ app \in AppRecords /\ tasks \subseteq TaskRecords
  BY InvIsBacked DEF LocalInv, LocalTyped
<1>1. ASSUME NEW t \in tasks, StopsOld(t) PROVE LocalInv'
  <2>1. Stops({t.old}) /\ UNCHANGED <<script, lock, service, app, tasks>>
    BY <1>1 DEF StopsOld
  <2>2. Backed' /\ Quiet
    BY <1>b, <2>1, StopsKeep
  <2> QED BY <1>b, <2>1, <2>2, QuietKeeps
<1>2. ASSUME NEW t \in tasks, Watches(t) PROVE LocalInv'
  <2>1. /\ t.kind = "watcher" /\ t.phase = "sleep" /\ UNCHANGED <<script, backends, lock, runtime, service, app>>
        /\ t \in TaskRecords
    BY <1>2, <1>b DEF Watches
  <2>2. t.old = Nobody /\ t.own = Nobody /\ Nobody \notin Ids
    BY <2>1 DEF LocalInv, TasksSound, Ids, Nobody
  <2>3. CASE tasks' = tasks \ {t}
    <3>1. /\ tasks' \subseteq TaskRecords /\ TasksSound'
          /\ \A i \in Ids : Held(i) => Held(i)' \/ \E u \in tasks \ tasks' : Apps(u) /\ i \in {u.old, u.own}
      BY <1>b, <2>1, <2>3, FewerTasks
    <3>2. OwnHeld'
      <4>1. \A u \in tasks \ tasks' : u = t
        BY <2>3
      <4> QED BY <2>1, <2>2, <3>1, <4>1 DEF LocalInv, OwnHeld
    <3>3. Backed'
      BY <1>b, <2>1 DEF Backed, DatabaseLocked, HasDatabase
    <3>4. service' \in [wanted : BOOLEAN, state : {"off", "waiting", "serving", "delay"}, own : Refs]
      BY <2>1 DEF LocalInv, LocalTyped
    <3> QED BY <1>b, <2>1, <3>1, <3>2, <3>3, <3>4 DEF LocalInv, LocalTyped, Backed
  <2>4. ASSUME NEW new \in TaskRecords, Goes(t, new), new.kind = t.kind, new.gen = t.gen, new.old = Nobody, new.own = Nobody
        PROVE  LocalInv'
    <3>1. GoesOn(t, new)
      BY <2>1, <2>4 DEF GoesOn
    <3>2. script' \in Scripted
      BY <1>b, <2>1
    <3>3. \A i \in {t.old, t.own} \ {new.old, new.own} : i \in Ids => backends[i].phase \notin {"launch", "named"}
      BY <2>2
    <3> QED BY <2>1, <3>1, <3>2, <3>3, GoesAlone
  <2>5. CASE Goes(t, [t EXCEPT !.phase = "look"])
    <3>1. PICK new \in TaskRecords : new = [t EXCEPT !.phase = "look"]
      BY <2>1 DEF TaskRecords
    <3>2. new.kind = t.kind /\ new.gen = t.gen /\ new.old = Nobody /\ new.own = Nobody
      BY <2>1, <2>2, <3>1 DEF TaskRecords
    <3> QED BY <2>4, <2>5, <3>1, <3>2
  <2>6. CASE Goes(t, [t EXCEPT !.gone = ~Answering(runtime)])
    <3>1. PICK gn \in BOOLEAN : gn = ~Answering(runtime)
      BY DEF Answering
    <3>2. PICK new \in TaskRecords : new = [t EXCEPT !.gone = gn]
      BY <2>1 DEF TaskRecords
    <3>3. new.kind = t.kind /\ new.gen = t.gen /\ new.old = Nobody /\ new.own = Nobody
      BY <2>1, <2>2, <3>2 DEF TaskRecords
    <3> QED BY <2>4, <2>6, <3>1, <3>2, <3>3
  <2> QED BY <1>2, <2>3, <2>5, <2>6 DEF Watches
<1>3. ASSUME Quit PROVE LocalInv'
  <2>1. /\ app' = [app EXCEPT !.state = "quitting"] /\ Stops({app.backend} \ {Nobody})
        /\ UNCHANGED <<lock, service, tasks>> /\ script' \in Scripted
    BY <1>3, <1>b, UsesKeeps DEF Quit
  <2>2. app' \in AppRecords /\ app'.gen = app.gen /\ app'.backend = app.backend
    BY <1>b, <2>1 DEF AppRecords
  <2>3. Backed' /\ Quiet
    BY <1>b, <2>1, StopsKeep
  <2>4. /\ tasks' \subseteq TaskRecords /\ TasksSound' /\ \A i \in Ids : Held(i) => Held(i)'
    BY <2>1, <2>2, FewerTasks
  <2>5. OwnHeld'
    BY <2>3, <2>4 DEF LocalInv, OwnHeld, Quiet
  <2>6. service' \in [wanted : BOOLEAN, state : {"off", "waiting", "serving", "delay"}, own : Refs]
    BY <2>1 DEF LocalInv, LocalTyped
  <2> QED BY <2>1, <2>2, <2>3, <2>4, <2>5, <2>6 DEF LocalInv, LocalTyped, Backed
<1>4. ASSUME AppExits PROVE LocalInv'
  <2>1. /\ app' = [app EXCEPT !.state = "exited"] /\ Ended("app") /\ tasks' = {t \in tasks : t.kind = "command"}
        /\ UNCHANGED <<script, runtime, service>>
    BY <1>4 DEF AppExits
  <2>2. app' \in AppRecords /\ app'.gen = app.gen /\ app'.backend = app.backend
    BY <1>b, <2>1 DEF AppRecords
  <2>3. Backed' /\ Quiet /\ \A i \in Ids : backends[i].owner = "app" => backends'[i].phase = "over"
    BY <1>b, <2>1, EndedKeeps
  <2>4. /\ tasks' \subseteq TaskRecords /\ TasksSound'
    <3>1. tasks' \subseteq tasks
      BY <2>1
    <3> QED BY <3>1, <2>2, FewerTasks
  <2>5. OwnHeld'
    BY <2>3 DEF OwnHeld, Quiet
  <2>6. service' \in [wanted : BOOLEAN, state : {"off", "waiting", "serving", "delay"}, own : Refs]
    BY <2>1 DEF LocalInv, LocalTyped
  <2> QED BY <1>b, <2>1, <2>2, <2>3, <2>4, <2>5, <2>6 DEF LocalInv, LocalTyped, Backed
<1> QED BY <1>1, <1>2, <1>3, <1>4

LEMMA LocalInvInit == LocalInit => LocalInv
<1> SUFFICES ASSUME LocalInit PROVE LocalInv
  OBVIOUS
<1>1. script \in Scripted
  BY LocalAssumption DEF LocalInit, Scripted
<1>2. NotUsed \in BackendRecords /\ NotUsed.server = "done" /\ NotUsed.owner = "none"
  BY DEF NotUsed, BackendRecords
<1>3. backends \in [Ids -> BackendRecords] /\ \A i \in Ids : backends[i] = NotUsed
  BY <1>2 DEF LocalInit
<1>4. lock \in Refs /\ runtime \in Refs /\ tasks = {}
  BY DEF LocalInit, Refs
<1>5. service \in [wanted : BOOLEAN, state : {"off", "waiting", "serving", "delay"}, own : Refs]
  BY DEF LocalInit, Refs
<1>6. app \in AppRecords
  BY DEF LocalInit, AppRecords, Refs
<1>7. DatabaseLocked /\ TasksSound /\ OwnHeld
  BY <1>2, <1>3, <1>4 DEF DatabaseLocked, HasDatabase, TasksSound, OwnHeld
<1> QED BY <1>1, <1>3, <1>4, <1>5, <1>6, <1>7 DEF LocalInv, LocalTyped

LEMMA LocalInvStep == LocalInv /\ [LocalNext]_localVars => LocalInv'
<1> SUFFICES ASSUME LocalInv, [LocalNext]_localVars PROVE LocalInv'
  OBVIOUS
<1>1. CASE UNCHANGED localVars
  BY <1>1 DEF localVars, LocalInv, LocalTyped, DatabaseLocked, HasDatabase, TasksSound, OwnHeld, Held
<1>2. CASE LocalNext
  <2>1. ASSUME NEW t \in tasks, TaskStep(t) \/ StartFails(t) PROVE LocalInv'
    BY <2>1, StartsOwnKeeps, LooksKeep, CommandsKeep, AppKeeps, ArrivesKeeps, Zenon DEF TaskStep
  <2> QED BY <1>2, <2>1, BackendKeeps, ServiceKeeps, CommandsKeep, ReconnectKeeps, AppKeeps, Zenon DEF LocalNext
<1> QED BY <1>1, <1>2

LEMMA LocalInvHolds == LocalInv => OneBackend
<1> SUFFICES ASSUME LocalInv PROVE OneBackend
  OBVIOUS
<1>1. ASSUME \A i \in Ids : ~Abandoned(i) PROVE Cardinality({i \in Ids : HasDatabase(i)}) <= 1
  <2>1. {i \in Ids : HasDatabase(i)} \subseteq {lock}
    BY <1>1 DEF LocalInv, DatabaseLocked, Abandoned
  <2>2. IsFiniteSet({lock}) /\ Cardinality({lock}) = 1
    BY FS_Singleton
  <2>3. Cardinality({i \in Ids : HasDatabase(i)}) <= Cardinality({lock})
    BY <2>1, <2>2, FS_Subset
  <2> QED BY <2>2, <2>3
<1>2. ASSUME \A t \in tasks : t.kind = "command", NEW i \in Ids, backends[i].owner = "app", backends[i].phase = "named"
      PROVE  i = app.backend
  BY <1>2 DEF LocalInv, OwnHeld, Held, Apps
<1> QED BY <1>1, <1>2 DEF OneBackend

\* Whoever starts, stops, fails or is killed, no two backends of a computer have
\* the database at once unless a Stop gave up on its server, and a backend the
\* app started is the one it uses or one of its goroutines still has it
\* (internal/local lock and Start, apps/desktop useLocal).
THEOREM OneBackendAtOnce == LocalSpec => []OneBackend
<1> QED BY LocalInvInit, LocalInvStep, LocalInvHolds, PTL DEF LocalSpec

-----------------------------------------------------------------------------
(* The download of the guest *)

\* Each file holds the bytes of its span as far as it goes, unless a power loss or
\* the server put others in it.
Piece(f, s) == \E n \in Nat : n <= Length(s) /\ f = Bytes(s[1], s[1] + n)
Pieces(held) == \A s \in DOMAIN held : s \in Spans /\ Piece(held[s], s)
Entire(f) == \E n \in Nat : n <= Size /\ f = Bytes(0, n)
FilesHold ==
    /\ Entire(target) /\ Pieces(parts) /\ Pieces(tmps)
    /\ step = "ranges" => whole \subseteq WholeParts(parts)
    /\ step = "verify" => Len(target) = Size
    /\ step = "streaming" => Len(target) < Size
InstallInv == plan \subseteq Spans /\ (spoiled \/ FilesHold)

LEMMA BytesAre ==
  ASSUME NEW a \in Nat, NEW n \in Nat
  PROVE /\ Bytes(a, a + n) = [i \in 1 .. n |-> a + i] /\ Bytes(a, a + n) \in Seq(Nat)
        /\ Len(Bytes(a, a + n)) = n /\ \A i \in 1 .. n : Bytes(a, a + n)[i] = a + i
        /\ Append(Bytes(a, a + n), a + n + 1) = Bytes(a, a + (n + 1))
<1>1. \A m \in Nat : (a + m) - a = m
  OBVIOUS
<1>2. \A m \in Nat : Bytes(a, a + m) = [i \in 1 .. m |-> a + i]
  BY <1>1 DEF Bytes
<1>3. PICK f : f = [i \in 1 .. n |-> a + i]
  OBVIOUS
<1>4. f \in Seq(Nat) /\ Len(f) = n /\ \A i \in 1 .. n : f[i] = a + i
  BY <1>3
<1>5. Append(f, a + n + 1) = [i \in 1 .. n + 1 |-> a + i]
  <2>1. PICK q : q = Append(f, a + n + 1)
    OBVIOUS
  <2>2. q \in Seq(Nat) /\ Len(q) = n + 1 /\ DOMAIN q = 1 .. n + 1
    BY <1>4, <2>1
  <2>3. \A i \in 1 .. n + 1 : q[i] = a + i
    BY <1>4, <2>1
  <2>4. q = [i \in 1 .. n + 1 |-> q[i]]
    BY <2>2
  <2> QED BY <2>1, <2>3, <2>4
<1> QED BY <1>2, <1>3, <1>4, <1>5

LEMMA EmptyHolds == Entire(<<>>) /\ Pieces(<<>>) /\ Len(<<>>) = 0
<1>1. Bytes(0, 0) = <<>>
  BY DEF Bytes
<1>2. Entire(<<>>)
  BY <1>1, InstallAssumption DEF Entire, InstallAssumption
<1> QED BY <1>2 DEF Pieces

LEMMA EntireIs ==
  ASSUME NEW f, Entire(f)
  PROVE f \in Seq(Nat) /\ Len(f) \in Nat /\ Len(f) <= Size /\ f = Bytes(0, Len(f))
<1>1. PICK n \in Nat : n <= Size /\ f = Bytes(0, n)
  BY DEF Entire
<1>2. 0 + n = n
  OBVIOUS
<1>3. f \in Seq(Nat) /\ Len(f) = n
  BY <1>1, <1>2, BytesAre
<1> QED BY <1>1, <1>3

LEMMA SpanIs == ASSUME NEW s \in Spans PROVE s[1] \in Nat /\ s[2] \in Nat /\ s[1] < s[2] /\ s[2] <= Size /\ Length(s) \in Nat \ {0}
<1>1. Size \in Nat
  BY InstallAssumption DEF InstallAssumption
<1>2. s[1] \in 0 .. Size /\ s[2] \in 0 .. Size /\ s[1] < s[2]
  BY DEF Spans
<1> QED BY <1>1, <1>2 DEF Length

LEMMA PieceIs ==
  ASSUME NEW s \in Spans, NEW f, Piece(f, s)
  PROVE /\ f \in Seq(Nat) /\ Len(f) \in Nat /\ Len(f) <= Length(s)
        /\ f = Bytes(s[1], s[1] + Len(f)) /\ \A i \in 1 .. Len(f) : f[i] = s[1] + i
<1>1. PICK n \in Nat : n <= Length(s) /\ f = Bytes(s[1], s[1] + n)
  BY DEF Piece
<1>2. f \in Seq(Nat) /\ Len(f) = n /\ \A i \in 1 .. n : f[i] = s[1] + i
  BY <1>1, SpanIs, BytesAre
<1> QED BY <1>1, <1>2

\* Files put beside sound ones, and what is kept of them.
LEMMA PiecesKept == ASSUME NEW held, Pieces(held), NEW S \in SUBSET DOMAIN held PROVE Pieces(Restrict(held, S))
<1>1. /\ DOMAIN Restrict(held, S) = S
      /\ \A s \in S : Restrict(held, S)[s] = held[s]
  BY DEF Restrict
<1> QED BY <1>1 DEF Pieces

LEMMA PieceAdded ==
  ASSUME NEW held, Pieces(held), NEW s \in Spans, NEW f, Piece(f, s)
  PROVE /\ Pieces(Put(held, s, f)) /\ DOMAIN Put(held, s, f) = {s} \union DOMAIN held
        /\ Put(held, s, f)[s] = f
        /\ \A t \in DOMAIN held : t # s => Put(held, s, f)[t] = held[t]
<1>1. PICK all : all = Put(held, s, f)
  OBVIOUS
<1>3. /\ DOMAIN all = {s} \union DOMAIN held
      /\ all[s] = f /\ \A t \in DOMAIN held : t # s => all[t] = held[t]
  BY <1>1 DEF Put
<1>4. Pieces(all)
  BY <1>3 DEF Pieces
<1> QED BY <1>1, <1>3, <1>4

\* What assemble puts together of whole parts is the start of the artifact.
LEMMA JoinedIs ==
  ASSUME Pieces(parts), NEW w \in SUBSET WholeParts(parts)
  PROVE /\ Entire(Joined(w)) /\ Reach(w) \in 0 .. Size
        /\ \A n \in 0 .. Reach(w) : Entire(SubSeq(Joined(w), 1, n))
<1>1. Size \in Nat
  BY InstallAssumption DEF InstallAssumption
<1>2. \A s \in w : s \in Spans /\ Piece(parts[s], s) /\ Len(parts[s]) = Length(s)
  BY DEF WholeParts, Pieces
<1>3. PICK R : R = {n \in 0 .. Size : NextParts(w, n) = {}}
  OBVIOUS
<1>4. R \in SUBSET Nat /\ Size \in R
  <2>1. \A s \in w : ~(Size < s[2])
    BY <1>1, <1>2, SpanIs
  <2>2. NextParts(w, Size) = {}
    BY <2>1 DEF NextParts
  <2> QED BY <1>1, <1>3, <2>2
<1>5. PICK least \in R : \A m \in R : least <= m
  BY <1>4, LeastNatural
<1>6. \A i \in 0 .. least - 1 : NextParts(w, i) # {}
  <2>1. ASSUME NEW i \in 0 .. least - 1, NextParts(w, i) = {} PROVE FALSE
    <3>1. least \in 0 .. Size
      BY <1>3, <1>5
    <3>2. i \in R
      BY <1>1, <1>3, <2>1, <3>1
    <3> QED BY <1>4, <1>5, <2>1, <3>2
  <2> QED BY <2>1
<1>7. \E n \in 0 .. Size : NextParts(w, n) = {} /\ \A i \in 0 .. n - 1 : NextParts(w, i) # {}
  BY <1>3, <1>5, <1>6
<1>8. PICK reach : reach = Reach(w)
  OBVIOUS
<1>9. reach \in 0 .. Size /\ \A i \in 0 .. reach - 1 : NextParts(w, i) # {}
  BY <1>7, <1>8 DEF Reach
<1>10. ASSUME NEW i \in 1 .. reach
       PROVE (LET s == CHOOSE p \in NextParts(w, i - 1) : TRUE IN parts[s][i - s[1]]) = i
  <2>1. NextParts(w, i - 1) # {}
    BY <1>1, <1>9
  <2>2. PICK s : s = CHOOSE p \in NextParts(w, i - 1) : TRUE
    OBVIOUS
  <2>3. s \in NextParts(w, i - 1)
    BY <2>1, <2>2
  <2>4. s \in w /\ s[1] <= i - 1 /\ i - 1 < s[2]
    BY <2>3 DEF NextParts
  <2>5. s \in Spans /\ Piece(parts[s], s) /\ Len(parts[s]) = Length(s)
    BY <1>2, <2>4
  <2>6. i - s[1] \in 1 .. Length(s) /\ s[1] + (i - s[1]) = i
    BY <1>1, <1>9, <2>4, <2>5, SpanIs DEF Length
  <2>7. parts[s][i - s[1]] = i
    BY <2>5, <2>6, PieceIs
  <2> QED BY <2>2, <2>7
<1>11. Joined(w) = [i \in 1 .. reach |-> i]
  BY <1>8, <1>10 DEF Joined
<1>12. \A n \in Nat : Bytes(0, n) = [i \in 1 .. n |-> i]
  <2>1. \A n \in Nat : n - 0 = n /\ \A i \in 1 .. n : 0 + i = i
    OBVIOUS
  <2> QED BY <2>1 DEF Bytes
<1>13. Entire(Joined(w))
  BY <1>1, <1>9, <1>11, <1>12 DEF Entire
<1>14. ASSUME NEW n \in 0 .. reach PROVE Entire(SubSeq(Joined(w), 1, n))
  <2>1. SubSeq(Joined(w), 1, n) = [i \in 1 .. n |-> i]
    <3>1. PICK f : f = [i \in 1 .. reach |-> i]
      OBVIOUS
    <3>2. f \in Seq(Nat) /\ Len(f) = reach /\ \A i \in 1 .. reach : f[i] = i
      BY <1>1, <1>9, <3>1
    <3>3. PICK q : q = SubSeq(f, 1, n)
      OBVIOUS
    <3>4. q \in Seq(Nat) /\ Len(q) = n /\ \A i \in 1 .. n : q[i] = i
      BY <1>1, <1>9, <3>2, <3>3
    <3>5. q = [i \in 1 .. n |-> q[i]]
      BY <3>4
    <3>6. q = [i \in 1 .. n |-> i]
      BY <3>4, <3>5
    <3> QED BY <1>11, <3>1, <3>3, <3>6
  <2>2. n \in Nat /\ n <= Size
    BY <1>1, <1>9
  <2>3. SubSeq(Joined(w), 1, n) = Bytes(0, n)
    BY <1>12, <2>1, <2>2
  <2> QED BY <2>2, <2>3 DEF Entire
<1> QED BY <1>8, <1>9, <1>13, <1>14

-----------------------------------------------------------------------------
LEMMA InstallStarts == InstallInit => InstallInv
<1> SUFFICES ASSUME InstallInit PROVE InstallInv
  OBVIOUS
<1>1. target = <<>> /\ parts = <<>> /\ tmps = <<>> /\ plan = {} /\ step = "idle"
  BY DEF InstallInit, NoParts
<1> QED BY <1>1, EmptyHolds DEF InstallInv, FilesHold

\* What a sound state is made of; spoiled is never taken back.
LEMMA BeginKeeps == ASSUME InstallInv, Begin PROVE InstallInv'
<1>1. spoiled' = spoiled /\ step' \in {"assemble", "ranges"} /\ plan' = Missing(whole') /\ whole' = WholeParts(parts')
  BY DEF Begin, worldVars
<1>2. plan' \subseteq Spans
  BY <1>1 DEF Missing
<1>3. SUFFICES ASSUME ~spoiled PROVE FilesHold'
  BY <1>1, <1>2 DEF InstallInv
<1>4. Entire(target) /\ Pieces(parts) /\ Pieces(tmps)
  BY <1>3 DEF InstallInv, FilesHold
<1>5. PICK adopted : adopted = IF target # <<>> /\ Len(target) < Size
                               THEN Put(parts, <<0, Len(target)>>, target) ELSE parts
  OBVIOUS
<1>6. /\ parts' = Restrict(adopted, WholeParts(adopted))
      /\ target' = IF Len(target) < Size THEN <<>> ELSE target
  BY <1>5 DEF Begin
<1>7. Pieces(adopted)
  <2>1. CASE target # <<>> /\ Len(target) < Size
    <3>1. PICK n : n = Len(target)
      OBVIOUS
    <3>2. target \in Seq(Nat) /\ n \in Nat /\ n < Size /\ target = Bytes(0, n) /\ n # 0
      BY <1>4, <2>1, <3>1, EntireIs
    <3>3. <<0, n>> \in Spans
      BY <3>2, InstallAssumption DEF Spans, InstallAssumption
    <3>4. Piece(target, <<0, n>>)
      <4>1. n <= Length(<<0, n>>) /\ <<0, n>>[1] = 0 /\ 0 + n = n
        BY <3>2 DEF Length
      <4> QED BY <3>2, <4>1 DEF Piece
    <3>5. adopted = Put(parts, <<0, n>>, target)
      BY <1>5, <2>1, <3>1
    <3> QED BY <1>4, <3>3, <3>4, <3>5, PieceAdded
  <2>2. CASE ~(target # <<>> /\ Len(target) < Size)
    BY <1>4, <1>5, <2>2
  <2> QED BY <2>1, <2>2
<1>8. Pieces(parts')
  <2>1. WholeParts(adopted) \in SUBSET DOMAIN adopted
    BY DEF WholeParts
  <2> QED BY <1>6, <1>7, <2>1, PiecesKept
<1>9. Pieces(tmps')
  <2>1. PICK S \in SUBSET DOMAIN tmps : tmps' = Restrict(tmps, S)
    <3>1. tmps' = Restrict(tmps, {s \in DOMAIN tmps \cap plan' : Len(tmps[s]) <= Length(s)})
      BY DEF Begin
    <3>2. {s \in DOMAIN tmps \cap plan' : Len(tmps[s]) <= Length(s)} \in SUBSET DOMAIN tmps
      OBVIOUS
    <3> QED BY <3>1, <3>2
  <2> QED BY <1>4, <2>1, PiecesKept
<1>10. Entire(target')
  BY <1>4, <1>6, EmptyHolds
<1> QED BY <1>1, <1>8, <1>9, <1>10 DEF FilesHold

\* A step that leaves the parts and their .tmp held alone.
LEMMA TargetKeeps ==
  ASSUME InstallInv, parts' = parts, tmps' = tmps, plan' = plan, spoiled' = spoiled, step' # "ranges",
         ~spoiled => /\ Entire(target') /\ (step' = "verify" => Len(target') = Size)
                     /\ (step' = "streaming" => Len(target') < Size)
  PROVE InstallInv'
BY DEF InstallInv, FilesHold

LEMMA FetchKeeps ==
  ASSUME InstallInv, NEW c \in plan, Write(c) \/ Finish(c)
  PROVE InstallInv'
<1>1. /\ c \in Spans /\ plan \subseteq Spans /\ step = "ranges" /\ target' = target /\ whole' = whole
      /\ spoiled' = spoiled
  BY DEF InstallInv, Write, Finish, Fetching, worldVars
<1>2. CASE Write(c)
  <2>1. /\ step' = step /\ parts' = parts /\ plan' = plan /\ Len(Tmp(c)) < Length(c)
        /\ tmps' = Put(tmps, c, Append(Tmp(c), c[1] + Len(Tmp(c)) + 1))
    BY <1>2 DEF Write
  <2>2. SUFFICES ASSUME ~spoiled PROVE FilesHold'
    BY <1>1, <2>1 DEF InstallInv
  <2>3. FilesHold
    BY <2>2 DEF InstallInv
  <2>4. PICK n : n = Len(Tmp(c))
    OBVIOUS
  <2>5. n \in Nat /\ n < Length(c) /\ Tmp(c) = Bytes(c[1], c[1] + n)
    <3>1. CASE c \in DOMAIN tmps
      <4>1. Tmp(c) = tmps[c] /\ Piece(tmps[c], c)
        BY <2>3, <3>1 DEF Tmp, FilesHold, Pieces
      <4> QED BY <1>1, <2>1, <2>4, <4>1, PieceIs
    <3>2. CASE c \notin DOMAIN tmps
      <4>1. Tmp(c) = <<>> /\ n = 0
        BY <2>4, <3>2 DEF Tmp
      <4>2. c[1] \in Nat
        BY <1>1, SpanIs
      <4>3. Bytes(c[1], c[1] + 0) = <<>>
        <5>1. Bytes(c[1], c[1] + 0) = [i \in 1 .. 0 |-> c[1] + i]
          BY <4>2, BytesAre
        <5> QED BY <5>1
      <4> QED BY <2>1, <2>4, <4>1, <4>3
    <3> QED BY <3>1, <3>2
  <2>6. PICK f : f = Append(Tmp(c), c[1] + Len(Tmp(c)) + 1)
    OBVIOUS
  <2>7. Piece(f, c)
    <3>1. c[1] \in Nat /\ Length(c) \in Nat
      BY <1>1, SpanIs
    <3>2. f = Append(Bytes(c[1], c[1] + n), c[1] + n + 1)
      BY <2>4, <2>5, <2>6
    <3>3. f = Bytes(c[1], c[1] + (n + 1))
      BY <2>5, <3>1, <3>2, BytesAre
    <3>4. n + 1 \in Nat /\ n + 1 <= Length(c)
      BY <2>5, <3>1
    <3> QED BY <3>3, <3>4 DEF Piece
  <2>8. Pieces(tmps')
    BY <1>1, <2>1, <2>3, <2>6, <2>7, PieceAdded DEF FilesHold
  <2> QED BY <1>1, <2>1, <2>3, <2>8 DEF FilesHold
<1>3. CASE Finish(c)
  <2>1. /\ Len(Tmp(c)) = Length(c) /\ plan' = plan \ {c} /\ step' \in {"assemble", "ranges"}
        /\ parts' = Put(parts, c, tmps[c]) /\ tmps' = Restrict(tmps, DOMAIN tmps \ {c})
    BY <1>1, <1>3 DEF Finish
  <2>2. plan' \subseteq Spans
    BY <1>1, <2>1
  <2>3. SUFFICES ASSUME ~spoiled PROVE FilesHold'
    BY <1>1, <2>2 DEF InstallInv
  <2>4. FilesHold
    BY <2>3 DEF InstallInv
  <2>5. c \in DOMAIN tmps
    <3>1. Length(c) # 0
      BY <1>1, SpanIs
    <3> QED BY <2>1, <3>1, EmptyHolds DEF Tmp
  <2>6. Piece(tmps[c], c) /\ Len(tmps[c]) = Length(c)
    BY <2>1, <2>4, <2>5 DEF FilesHold, Pieces, Tmp
  <2>7. Pieces(parts') /\ Pieces(tmps')
    BY <1>1, <2>1, <2>4, <2>6, PieceAdded, PiecesKept DEF FilesHold
  <2>8. whole \subseteq WholeParts(parts')
    <3>1. ASSUME NEW s \in whole PROVE s \in DOMAIN parts' /\ Len(parts'[s]) = Length(s)
      <4>1. s \in DOMAIN parts /\ Len(parts[s]) = Length(s)
        BY <1>1, <2>4 DEF FilesHold, WholeParts
      <4>2. /\ DOMAIN parts' = {c} \union DOMAIN parts /\ parts'[c] = tmps[c]
            /\ \A t \in DOMAIN parts : t # c => parts'[t] = parts[t]
        BY <2>1 DEF Put
      <4> QED BY <2>6, <4>1, <4>2
    <3> QED BY <3>1 DEF WholeParts
  <2> QED BY <1>1, <2>1, <2>4, <2>7, <2>8 DEF FilesHold
<1> QED BY <1>2, <1>3

\* However a download was cut off, adopted or fetched again in overlapping parts,
\* what is put together is the artifact.
THEOREM InstallStands == InstallSpec => []ResumesRight
<1>1. ASSUME InstallInv, [InstallNext]_installVars PROVE InstallInv'
  <2>1. /\ plan \subseteq Spans
        /\ ~spoiled => /\ Entire(target) /\ Pieces(parts) /\ target \in Seq(Nat) /\ Len(target) <= Size
                       /\ target = Bytes(0, Len(target)) /\ Len(target) \in Nat
    BY <1>1, EntireIs DEF InstallInv, FilesHold
  <2>2. CASE Begin
    BY <1>1, <2>2, BeginKeeps
  <2>3. CASE \E c \in plan : Write(c) \/ Finish(c)
    BY <1>1, <2>3, FetchKeeps
  <2>4. CASE BeginWhole
    <3>1. /\ parts' = parts /\ tmps' = tmps /\ plan' = plan /\ spoiled' = spoiled /\ target' = target
          /\ step' = "verify" /\ Len(target) = Size
      BY <2>4 DEF BeginWhole, fetchVars, worldVars
    <3> QED BY <1>1, <2>1, <3>1, TargetKeeps
  <2>5. CASE Assemble
    <3>1. /\ parts' = parts /\ tmps' = tmps /\ plan' = plan /\ spoiled' = spoiled
          /\ target' = Joined(WholeParts(parts)) /\ step' = (IF Len(target') = Size THEN "verify" ELSE "idle")
      BY <2>5 DEF Assemble, worldVars
    <3>2. ~spoiled => Entire(target')
      BY <2>1, <3>1, JoinedIs
    <3> QED BY <1>1, <3>1, <3>2, TargetKeeps
  <2>6. CASE NoRange
    <3>1. /\ parts' = parts /\ tmps' = tmps /\ plan' = plan /\ spoiled' = spoiled /\ step = "ranges"
          /\ target' = Joined(whole) /\ step' = "stream"
      BY <2>6 DEF NoRange, worldVars
    <3>2. ~spoiled => whole \subseteq WholeParts(parts)
      BY <1>1, <3>1 DEF InstallInv, FilesHold
    <3>3. ~spoiled => Entire(target')
      BY <2>1, <3>1, <3>2, JoinedIs
    <3> QED BY <1>1, <3>1, <3>3, TargetKeeps
  <2>7. CASE StreamWhole \/ StreamAsked \/ StreamRefused
    <3>1. /\ parts' = parts /\ tmps' = tmps /\ plan' = plan /\ spoiled' = spoiled /\ target' = target
      BY <2>7 DEF StreamWhole, StreamAsked, StreamRefused, Unfetched, worldVars
    <3>2. \/ (step' = "verify" /\ Len(target) = Size) \/ step' = "idle"
          \/ (step' = "streaming" /\ Len(target) < Size)
      BY <2>7 DEF StreamWhole, StreamAsked, StreamRefused
    <3> QED BY <1>1, <2>1, <3>1, <3>2, TargetKeeps
  <2>8. CASE StreamMisplaced
    BY <2>1, <2>8 DEF StreamMisplaced, Unfetched, InstallInv
  <2>9. CASE StreamWrites
    <3>1. /\ parts' = parts /\ tmps' = tmps /\ plan' = plan /\ spoiled' = spoiled /\ step = "streaming"
          /\ target' = Append(target, Len(target) + 1)
          /\ step' = (IF Len(target') = Size THEN "verify" ELSE step)
      BY <2>9 DEF StreamWrites, Unfetched, worldVars
    <3>2. ASSUME ~spoiled PROVE Entire(target') /\ (step' = "streaming" => Len(target') < Size)
      <4>1. PICK n : n = Len(target)
        OBVIOUS
      <4>2. n \in Nat /\ n < Size /\ target = Bytes(0, n) /\ 0 + n = n /\ 0 + (n + 1) = n + 1 /\ 0 + n + 1 = n + 1
        BY <1>1, <2>1, <3>1, <3>2, <4>1 DEF InstallInv, FilesHold
      <4>3. Append(Bytes(0, 0 + n), 0 + n + 1) = Bytes(0, 0 + (n + 1))
        BY <4>2, BytesAre
      <4>4. target' = Bytes(0, n + 1)
        BY <3>1, <4>1, <4>2, <4>3
      <4>5. n + 1 \in Nat /\ n + 1 <= Size /\ Size \in Nat
        BY <4>2, InstallAssumption DEF InstallAssumption
      <4>6. Entire(target')
        BY <4>4, <4>5 DEF Entire
      <4>7. Len(target') <= Size /\ Len(target') \in Nat
        BY <4>6, EntireIs
      <4>8. step' = "streaming" => Len(target') # Size
        BY <3>1
      <4> QED BY <4>5, <4>6, <4>7, <4>8
    <3>3. step' # "ranges" /\ (step' = "verify" => Len(target') = Size)
      BY <3>1
    <3> QED BY <1>1, <3>1, <3>2, <3>3, TargetKeeps
  <2>10. CASE Verify
    <3>1. /\ parts' = <<>> /\ tmps' = <<>> /\ plan' = plan /\ spoiled' = spoiled
          /\ target' \in {target, <<>>}
      BY <2>10 DEF Verify, worldVars, NoParts
    <3>2. step' \in {"unpack", "idle"}
      BY <2>10 DEF Verify
    <3>3. ~spoiled => Entire(target')
      BY <2>1, <3>1, EmptyHolds
    <3> QED BY <2>1, <3>1, <3>2, <3>3, EmptyHolds DEF InstallInv, FilesHold
  <2>11. CASE Unpack \/ Seed \/ Seeded
    <3>1. /\ parts' = parts /\ tmps' = tmps /\ plan' = plan /\ spoiled' = spoiled /\ target' = target
          /\ step' \in {"seed", "seeding", "record"}
      BY <2>11 DEF Unpack, Seed, Seeded, fetchVars, worldVars
    <3> QED BY <1>1, <2>1, <3>1, TargetKeeps
  <2>12. CASE Record
    <3>1. /\ parts' = parts /\ tmps' = tmps /\ plan' = plan /\ spoiled' = spoiled /\ target' = <<>>
          /\ step' = "idle"
      BY <2>12 DEF Record, worldVars
    <3> QED BY <1>1, <3>1, EmptyHolds, TargetKeeps
  <2>13. CASE InstallDies
    <3>1. /\ parts' = parts /\ tmps' = tmps /\ plan' = plan /\ spoiled' = spoiled /\ step' = "idle"
          /\ \/ target' = target
             \/ \E n \in 0 .. Reach(WholeParts(parts)) :
                                     target' = SubSeq(Joined(WholeParts(parts)), 1, n)
      BY <2>13 DEF InstallDies
    <3>2. ~spoiled => Entire(target')
      BY <2>1, <3>1, JoinedIs
    <3> QED BY <1>1, <3>1, <3>2, TargetKeeps
  <2>14. CASE PowerLoss
    BY <2>1, <2>14 DEF PowerLoss, InstallInv
  <2>15. CASE ServerChanges \/ UNCHANGED installVars
    BY <1>1, <2>15 DEF ServerChanges, installVars, fetchVars, worldVars, InstallInv, FilesHold, Pieces, WholeParts
  <2> QED BY <1>1, <2>2, <2>3, <2>4, <2>5, <2>6, <2>7, <2>8, <2>9, <2>10, <2>11, <2>12, <2>13, <2>14, <2>15
          DEF InstallNext, Installing
<1>2. ASSUME InstallInv PROVE ResumesRight
  <2>1. ASSUME step = "verify", ~spoiled PROVE target = Bytes(0, Size)
    BY <1>2, <2>1, EntireIs DEF InstallInv, FilesHold
  <2> QED BY <2>1 DEF ResumesRight
<1> QED BY <1>1, <1>2, InstallStarts, PTL DEF InstallSpec

=============================================================================

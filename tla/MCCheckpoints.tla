--------------------------- MODULE MCCheckpoints ---------------------------
(* Instances of LibrarySync, GuestInstall and LocalBackend for TLC: what goes  *)
(* on from what an earlier pass or process left in the data directory, an      *)
(* anchor, the parts of a download, a lock and a runtime file. They share no   *)
(* state: a behaviour is of one of them.                                       *)
EXTENDS MCLibrarySync, GuestInstall, LocalBackend

\* The app switches modes, fails and quits, alone, with a command or beside the
\* service.
Alone == [connects |-> 3, commands |-> 0, services |-> 0, faults |-> 1]
WithCommand == [connects |-> 2, commands |-> 1, services |-> 0, faults |-> 1]
Beside == [connects |-> 2, commands |-> 0, services |-> 2, faults |-> 1]
AllScripts == {Alone, WithCommand, Beside}

VARIABLE part

all == <<part, vars, installVars, localVars>>
LibraryStep(A) == part = "library" /\ A /\ UNCHANGED <<part, installVars, localVars>>
InstallStep(A) == part = "install" /\ A /\ UNCHANGED <<part, vars, localVars>>
LocalStep(A) == part = "local" /\ A /\ UNCHANGED <<part, vars, installVars>>

\* The parts that do not move have one initial state each; a library that is
\* not looked at is empty.
CheckpointsInit ==
    /\ part \in {"library", "install", "local"} /\ Init /\ InstallInit /\ LocalInit
    /\ IF part = "library" THEN library # <<>> ELSE library = <<>> /\ refused = {a1}
    /\ part = "install" \/ server = "ignores"
    /\ part = "local" \/ script = Alone
CheckpointsNext == LibraryStep(Next) \/ InstallStep(InstallNext) \/ LocalStep(LocalNext)
\* The fairness of LibrarySync's FairSpec, of InstallSpec and of LocalSpec.
CheckpointsFairness ==
    /\ WF_all(LibraryStep(Pass)) /\ WF_all(InstallStep(Installing))
    /\ WF_all(LocalStep(BackendProgress)) /\ WF_all(LocalStep(ServiceStep \/ AppExits))
    /\ WF_all(LocalStep(StepOf("command", 0)))
    /\ \A gen \in 1..MaxGen :
         WF_all(LocalStep(StepOf("starter", gen) \/ StepOf("watcher", gen)))
CheckpointsSpec == CheckpointsInit /\ [][CheckpointsNext]_all /\ CheckpointsFairness

\* A computer gets what it wants in the end, whatever died before: the guest that
\* it installs (InstallEnds), and a backend for all who use one (AllServed).
ComputerServed == InstallEnds /\ AllServed
=============================================================================

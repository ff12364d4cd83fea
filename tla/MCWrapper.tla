------------------------------ MODULE MCWrapper ------------------------------
(* Instances of WrapperGuest, KeyTemplates and LoginBook for TLC: the guest    *)
(* this process boots, the wrapper it asks for keys, and the logins it runs    *)
(* through an external one. They share no state: a behaviour is of one.        *)
EXTENDS WrapperGuest, KeyTemplates, LoginBook

VARIABLE part

all == <<part, vars, keyVars, loginVars>>
GuestStep(A) == part = "guest" /\ A /\ UNCHANGED <<part, keyVars, loginVars>>
KeyStep(A) == part = "keys" /\ A /\ UNCHANGED <<part, vars, loginVars>>
LoginStep(A) == part = "logins" /\ A /\ UNCHANGED <<part, vars, keyVars>>

WrapperInit == part \in {"guest", "keys", "logins"} /\ Init /\ KeyInit /\ LoginInit
WrapperNext == GuestStep(Next) \/ KeyStep(KeyNext) \/ LoginStep(LoginNext)
\* The fairness of Spec and of KeySpec.
WrapperFairness ==
    /\ WF_all(GuestStep(RunTurn)) /\ WF_all(GuestStep(BackoffOver))
    /\ \A l \in Logins : WF_all(GuestStep(Calls(l)))
    /\ WF_all(KeyStep(KeyProgress))
WrapperSpec == WrapperInit /\ [][WrapperNext]_all /\ WrapperFairness

\* Whoever waits for the wrapper is answered: a login ends with the guest serving
\* again (LoginEnds), and so does every wait for a key (CallersAnswered).
WrapperAnswers == LoginEnds /\ CallersAnswered
=============================================================================

---------------------------- MODULE JobLifecycle ----------------------------
(***************************************************************************)
(* What the job manager promises about a job's row, with no threads, locks *)
(* or queues: the life of a download job as its REST client sees it.  A    *)
(* job runs once at a time, ends with exactly one terminal event per run,  *)
(* and at most one job per canonical key is queued or running.             *)
(***************************************************************************)
EXTENDS Integers

CONSTANTS Jobs, Keys, KeyOf

VARIABLES
    status,  \* the job's status
    ended    \* terminal events recorded for the job

vars == <<status, ended>>

Active == {"queued", "running"}
Terminal == {"completed", "failed", "cancelled"}

Init == status = [j \in Jobs |-> "absent"] /\ ended = [j \in Jobs |-> 0]

KeyFree(j) == \A k \in Jobs : KeyOf[k] = KeyOf[j] => status[k] \notin Active

To(j, s) == status' = [status EXCEPT ![j] = s]

\* Accepted, or put back in line by its user.
Submit(j) == status[j] = "absent" /\ KeyFree(j) /\ To(j, "queued") /\ UNCHANGED ended
Retry(j) ==
    /\ status[j] \in {"failed", "cancelled"} /\ KeyFree(j)
    /\ To(j, "queued") /\ UNCHANGED ended

Start(j) == status[j] = "queued" /\ To(j, "running") /\ UNCHANGED ended

\* A restart found the row running.
Requeue(j) == status[j] = "running" /\ To(j, "queued") /\ UNCHANGED ended

\* Only a job that ran completes or fails; a queued one can only be cancelled.
End(j) ==
    /\ \/ status[j] = "running" /\ \E s \in Terminal : To(j, s)
       \/ status[j] = "queued" /\ To(j, "cancelled")
    /\ ended' = [ended EXCEPT ![j] = @ + 1]

Delete(j) ==
    /\ status[j] \in Terminal
    /\ To(j, "deleted")
    /\ ended' = [ended EXCEPT ![j] = 0]

Next == \E j \in Jobs : \/ Submit(j) \/ Retry(j) \/ Start(j) \/ Requeue(j)
                        \/ End(j) \/ Delete(j)

Spec == Init /\ [][Next]_vars

\* Of the jobs of one canonical key at most one is queued or running.
OneActivePerKey ==
    \A j, k \in Jobs : j # k /\ KeyOf[j] = KeyOf[k] /\ status[j] \in Active => status[k] \notin Active
=============================================================================

--------------------------- MODULE JobLifecycle ---------------------------
(* What the scheduler promises to the code of a job, whatever it does with *)
(* queues and polls: a job is submitted once, runs between a dispatch and  *)
(* the moment it leaves by itself, sleeps until somebody awakens it, and   *)
(* once gone is never run again.                                           *)
CONSTANT Jobs
VARIABLE status

States == {"unborn", "runnable", "active", "asleep", "gone"}

Init == status = [j \in Jobs |-> "unborn"]

Submit(j) ==
    /\ status[j] = "unborn"
    /\ status' = [status EXCEPT ![j] = "runnable"]

Dispatch(j) ==
    /\ status[j] = "runnable"
    /\ status' = [status EXCEPT ![j] = "active"]

Leave(j, to) ==
    /\ status[j] = "active"
    /\ status' = [status EXCEPT ![j] = to]

Awaken(j) ==
    /\ status[j] = "asleep"
    /\ status' = [status EXCEPT ![j] = "runnable"]

\* The awakening may hand the processor, at once, to any runnable job k.
AwakenAndDispatch(j, k) ==
    /\ status[j] = "asleep"
    /\ k = j \/ status[k] = "runnable"
    /\ status' = [status EXCEPT ![j] = "runnable", ![k] = "active"]

Next == \E j \in Jobs :
    \/ Submit(j)
    \/ Dispatch(j)
    \/ \E to \in {"runnable", "asleep", "gone"} : Leave(j, to)
    \/ Awaken(j)
    \/ \E k \in Jobs : AwakenAndDispatch(j, k)

Spec == Init /\ [][Next]_status
=============================================================================

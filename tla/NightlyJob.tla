------------------------------ MODULE NightlyJob ------------------------------
(***************************************************************************)
(* What the lock of src/denoiser/api/joblock.py promises the jobs it       *)
(* wraps: a job runs in one replica at a time, each occurrence at most     *)
(* once, and the occurrences in order.  Nothing is promised about how many *)
(* occurrences run, nor that a run reaches its end.                        *)
(***************************************************************************)
EXTENDS Naturals

CONSTANTS
    Replicas,   \* processes that may run the job
    Days        \* occurrences of the job: natural numbers, in order

VARIABLES
    running,    \* replicas in which the job is running
    ran         \* occurrences that have been run, or begun

\* Begin_Unlocked is what N replicas without a lock do; nothing uses it.
Begin_Unlocked(r, d) ==
    /\ r \notin running
    /\ running' = running \cup {r}
    /\ ran' = ran \cup {d}

Begin(r, d) ==
    /\ running = {}
    /\ \A e \in ran : e < d
    /\ running' = {r}
    /\ ran' = ran \cup {d}

\* The job returns, or its process dies.
End(r) ==
    /\ r \in running
    /\ running' = running \ {r}
    /\ UNCHANGED ran

Init == running = {} /\ ran = {}

Next == \E r \in Replicas : End(r) \/ \E d \in Days : Begin(r, d)

Spec == Init /\ [][Next]_<<running, ran>>
=============================================================================

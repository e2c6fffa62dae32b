----------------------------- MODULE MCJobLock -----------------------------
(* Two small deployments of JobLock for TLC: the replicas that share Redis *)
(* which the .cfg describes, and one instance without REDIS_URL, whose     *)
(* restarted process reads the same clock.                                 *)
EXTENDS JobLock, TLC

CONSTANT r1
VARIABLE clustered      \* which of the two deployments this behaviour is of

Single == INSTANCE JobLock WITH
    Replicas <- {r1}, LockConfigured <- FALSE, Late <- 0

MCInit ==
    \/ clustered = TRUE /\ Init
    \/ clustered = FALSE /\ Single!Init

MCNext ==
    \/ clustered /\ Next /\ UNCHANGED clustered
    \/ ~clustered /\ Single!Next /\ UNCHANGED clustered

MCSpec == MCInit /\ [][MCNext]_<<vars, clustered>>
=============================================================================

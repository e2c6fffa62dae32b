------------------------------- MODULE JobLock -------------------------------
(***************************************************************************)
(* The lock that lets one API replica run a nightly job:                   *)
(* src/denoiser/api/joblock.py, and the in-process APScheduler of          *)
(* src/denoiser/api/scheduler.py that fires the job in every replica.      *)
(*                                                                         *)
(* Time is counted in ticks.  Occurrence d of the job is due at d * Day.   *)
(* Late bounds how long after that a replica's SET reaches Redis: clock    *)
(* skew between replicas, APScheduler's misfire grace, the connection.     *)
(* A definition X_Y is X with a plausible mistake Y; nothing uses it.      *)
(***************************************************************************)
EXTENDS Integers, FiniteSets

CONSTANTS
    Replicas,        \* API processes, each with its own scheduler
    Nobody,          \* no holder
    LockConfigured,  \* REDIS_URL is set
    Ttl,             \* DEFAULT_LOCK_TTL_SECONDS
    Day,             \* ticks between occurrences
    Late,            \* assumption: latest arrival of a replica's SET
    MaxRun,          \* assumption: longest run of the job
    MaxDays,         \* bound: occurrences considered
    MaxFaults        \* bound: faults considered

ASSUME TimingAssumption ==
    /\ {Ttl, Day, Late, MaxRun, MaxDays, MaxFaults} \subseteq Nat
    /\ Late < Ttl
    /\ MaxRun + Late < Day
    /\ LockConfigured \in BOOLEAN
    /\ ~LockConfigured => \A r, s \in Replicas : r = s
    /\ Nobody \notin Replicas

VARIABLES
    now,        \* the clock
    holder,     \* holder[d]: value of the Redis key of occurrence d
    expires,    \* expires[d]: when that key expires
    phase,      \* phase[r]: "idle", "asking", "running" or "dead"
    occ,        \* occ[r]: the occurrence r asks or runs for
    fired,      \* fired[r]: last occurrence r's scheduler has fired or passed
    started,    \* started[r]: when r's current run began
    runs,       \* history: runs[d] counts the runs of occurrence d
    faults      \* faults that have happened

lockVars == <<holder, expires>>
vars == <<now, holder, expires, phase, occ, fired, started, runs, faults>>

Days == 1 .. MaxDays
DueAt(d) == d * Day
Spend == faults < MaxFaults /\ faults' = faults + 1

\* SET key NX succeeds when the key is absent: never set, or expired.
Free_NoNx(d) == TRUE
Free_PerJob(d) == \A e \in Days : holder[e] = Nobody
Free(d) == holder[d] = Nobody \/ expires[d] <= now

-----------------------------------------------------------------------------
\* A replica may not pass the last moment of an occurrence without firing it,
\* leave its request unanswered for longer than Late, or run for longer than
\* MaxRun.
Tick ==
    /\ now < DueAt(MaxDays) + Day
    /\ \A r \in Replicas :
        /\ phase[r] = "asking" => now < DueAt(occ[r]) + Late
        /\ phase[r] = "running" => now < started[r] + MaxRun
        /\ \A d \in Days : (phase[r] # "dead" /\ fired[r] < d) => now < DueAt(d) + Late
    /\ now' = now + 1
    /\ UNCHANGED <<lockVars, phase, occ, fired, started, runs, faults>>

\* The cron trigger fires; APScheduler runs at most one instance of a job and
\* skips the occurrence otherwise.
Fire(r, d) ==
    /\ phase[r] # "dead" /\ fired[r] < d
    /\ DueAt(d) <= now /\ now <= DueAt(d) + Late
    /\ fired' = [fired EXCEPT ![r] = d]
    /\ IF phase[r] = "idle"
       THEN phase' = [phase EXCEPT ![r] = "asking"] /\ occ' = [occ EXCEPT ![r] = d]
       ELSE UNCHANGED <<phase, occ>>
    /\ UNCHANGED <<now, lockVars, started, runs, faults>>

\* The event loop was blocked past the misfire grace: the occurrence is dropped.
Misfire(r, d) ==
    /\ phase[r] # "dead" /\ fired[r] < d /\ DueAt(d) <= now
    /\ Spend
    /\ fired' = [fired EXCEPT ![r] = d]
    /\ UNCHANGED <<now, lockVars, phase, occ, started, runs>>

BeginRun(r) ==
    /\ phase' = [phase EXCEPT ![r] = "running"]
    /\ started' = [started EXCEPT ![r] = now]
    /\ runs' = [runs EXCEPT ![occ[r]] = @ + 1]

\* No REDIS_URL: a single-instance deployment runs unlocked.
RunUnlocked(r) ==
    /\ phase[r] = "asking" /\ ~LockConfigured
    /\ BeginRun(r)
    /\ UNCHANGED <<now, lockVars, occ, fired, faults>>

Claim(r) ==
    /\ phase[r] = "asking" /\ LockConfigured /\ Free(occ[r])
    /\ holder' = [holder EXCEPT ![occ[r]] = r]
    /\ expires' = [expires EXCEPT ![occ[r]] = now + Ttl]

Win(r) ==
    /\ Claim(r)
    /\ BeginRun(r)
    /\ UNCHANGED <<now, occ, fired, faults>>

\* The key is set but client.set or client.aclose raises: the replica skips the
\* run it has just claimed.
WinUnnoticed(r) ==
    /\ Claim(r) /\ Spend
    /\ phase' = [phase EXCEPT ![r] = "idle"]
    /\ UNCHANGED <<now, occ, fired, started, runs>>

\* Another replica holds the key, or Redis cannot be reached: skip.
Lose(r) ==
    /\ phase[r] = "asking" /\ LockConfigured
    /\ \/ ~Free(occ[r]) /\ UNCHANGED faults
       \/ Spend
    /\ phase' = [phase EXCEPT ![r] = "idle"]
    /\ UNCHANGED <<now, lockVars, occ, fired, started, runs>>

\* The job returns; the key is left to expire.
Finish(r) ==
    /\ phase[r] = "running"
    /\ phase' = [phase EXCEPT ![r] = "idle"]
    /\ UNCHANGED <<now, lockVars, occ, fired, started, runs, faults>>

Crash(r) ==
    /\ phase[r] # "dead" /\ Spend
    /\ phase' = [phase EXCEPT ![r] = "dead"]
    /\ UNCHANGED <<now, lockVars, occ, fired, started, runs>>

\* The job store is in memory: a replica that starts computes its next fire time
\* from its own clock, skew behind, and never makes up what has passed.
Passed_None(skew) == 0
Passed(skew) == Cardinality({d \in Days : DueAt(d) + skew <= now})
Restart(r, skew) ==
    /\ phase[r] = "dead"
    /\ phase' = [phase EXCEPT ![r] = "idle"]
    /\ fired' = [fired EXCEPT ![r] = Passed(skew)]
    /\ UNCHANGED <<now, lockVars, occ, started, runs, faults>>

-----------------------------------------------------------------------------
Init ==
    /\ now = 0
    /\ holder = [d \in Days |-> Nobody]
    /\ expires = [d \in Days |-> 0]
    /\ phase = [r \in Replicas |-> "idle"]
    /\ occ = [r \in Replicas |-> 0]
    /\ fired = [r \in Replicas |-> 0]
    /\ started = [r \in Replicas |-> 0]
    /\ runs = [d \in Days |-> 0]
    /\ faults = 0

Next ==
    \/ Tick
    \/ \E r \in Replicas, d \in Days : Fire(r, d) \/ Misfire(r, d)
    \/ \E r \in Replicas :
         \/ RunUnlocked(r) \/ Win(r) \/ WinUnnoticed(r) \/ Lose(r)
         \/ Finish(r) \/ Crash(r)
    \/ \E r \in Replicas, skew \in 0 .. Late : Restart(r, skew)

Spec == Init /\ [][Next]_vars
-----------------------------------------------------------------------------
TypeOK ==
    /\ now \in Nat
    /\ holder \in [Days -> Replicas \cup {Nobody}]
    /\ expires \in [Days -> Nat]
    /\ phase \in [Replicas -> {"idle", "asking", "running", "dead"}]
    /\ occ \in [Replicas -> {0} \cup Days]
    /\ fired \in [Replicas -> Nat]
    /\ started \in [Replicas -> Nat]
    /\ runs \in [Days -> Nat]
    /\ faults \in Nat

\* "One replica wins and the rest skip" (joblock.py 11-12, test_joblock.py 66): an
\* occurrence is never run twice, even though its key expires while replicas
\* crash, restart and ask late.
OneRunPerOccurrence ==
    \A d \in Days : runs[d] <= 1

\* The job never runs in two replicas at once, and its occurrences run in order:
\* the lock implements NightlyJob.
Deployed == DOMAIN phase
Running == {r \in Deployed : phase[r] = "running"}
Ran == {d \in Days : runs[d] > 0}
Job == INSTANCE NightlyJob WITH running <- Running, ran <- Ran
OneReplicaInOrder == Job!Spec

\* "The lock is per occurrence, not per job, so a missed night does not block the
\* next one" (12-13): with fewer faults than replicas, a fault costs at most the
\* one occurrence it falls on.
Missed == {d \in Days : now > DueAt(d) + Late /\ runs[d] = 0}
FaultCostsOneNight ==
    MaxFaults < Cardinality(Deployed) => Cardinality(Missed) <= faults
=============================================================================

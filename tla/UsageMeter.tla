------------------------------- MODULE UsageMeter -------------------------------
(***************************************************************************)
(* Metering and tiering: aggregate_daily_billing of                        *)
(* src/denoiser/workers/billing_worker.py, queued at midnight, counts each *)
(* tenant's logs of the day, writes its meter and deletes what its tier    *)
(* does not keep, with cleanup_old_data of clickhouse_store.py.            *)
(*                                                                         *)
(* The clock counts half days.  A row is [tenant, at, kind, n]; the store  *)
(* is not part of the session, whose writes wait for the one commit.       *)
(* A definition X_Y is X with a plausible mistake Y; nothing uses it.      *)
(***************************************************************************)
EXTENDS Naturals, Sequences, FiniteSets, FiniteSetsExt

CONSTANTS
    Tenants,                \* in the order of the query
    Tier,                   \* Tier[t]: of the tenant, "free", "pro" or "enterprise"
    FreeDays, ProDays, EnterpriseDays,
    Workers,                \* that may run the task
    MaxHalf, MaxRows        \* bounds: the clock, rows ever stored

ASSUME TierAssumption ==
    /\ Tenants \in Seq(DOMAIN Tier)
    /\ \A i, j \in 1 .. Len(Tenants) : Tenants[i] = Tenants[j] => i = j
    /\ Tier \in [DOMAIN Tier -> {"free", "pro", "enterprise"}]
    /\ FreeDays \in Nat /\ ProDays \in Nat /\ EnterpriseDays \in Nat

VARIABLES
    half,      \* now
    stored,    \* rows in the store
    metered,   \* billing_meters, a sequence of [tenant, day, count]
    queued,    \* runs queued
    job,       \* job[w]: [on, day, next, writes] of a run; next: the tenant it is at
    ever,      \* history: rows ever stored
    shared     \* history: days that two runs counted at once, or one run past midnight
meterVars == <<half, stored, metered, queued, job, ever, shared>>

DayOf(h) == h \div 2
Idle == [on |-> FALSE, day |-> 0, next |-> 1, writes |-> {}]

DaysToKeep_SwappedTiers(t) ==
    IF Tier[t] = "pro" THEN EnterpriseDays ELSE IF Tier[t] = "enterprise" THEN ProDays ELSE FreeDays
DaysToKeep(t) ==
    IF Tier[t] = "pro" THEN ProDays ELSE IF Tier[t] = "enterprise" THEN EnterpriseDays ELSE FreeDays

\* The logs of the tenant and of the store's day.
Counted_EveryTenant(t) == {r \in stored : r.kind = "log" /\ DayOf(r.at) = DayOf(half)}
Counted_(t) == {r \in stored : r.tenant = t /\ r.kind = "log" /\ DayOf(r.at) = DayOf(half)}
Expired(t) == {r \in stored : r.tenant = t /\ r.at + 2 * DaysToKeep(t) < half}
-----------------------------------------------------------------------------
MeterInit ==
    /\ half = 0 /\ stored = {} /\ metered = <<>> /\ queued = 0
    /\ job = [w \in Workers |-> Idle] /\ ever = {} /\ shared = {}

Pass ==
    /\ half < MaxHalf /\ half' = half + 1
    /\ queued' = IF DayOf(half') # DayOf(half) THEN queued + 1 ELSE queued
    /\ shared' = IF DayOf(half') # DayOf(half)
                 THEN shared \cup {job[w].day : w \in {v \in Workers : job[v].on}} ELSE shared
    /\ UNCHANGED <<stored, metered, job, ever>>
Store(t, kind) ==
    /\ Cardinality(ever) < MaxRows
    /\ LET row == [tenant |-> t, at |-> half, kind |-> kind, n |-> Cardinality(ever)] IN
       stored' = stored \cup {row} /\ ever' = ever \cup {row}
    /\ UNCHANGED <<half, metered, queued, job, shared>>

StartBilling(w) ==
    /\ queued > 0 /\ ~job[w].on
    /\ queued' = queued - 1
    /\ job' = [job EXCEPT ![w] = [on |-> TRUE, day |-> DayOf(half), next |-> 1, writes |-> {}]]
    /\ shared' = IF \E v \in Workers : job[v].on THEN shared \cup {DayOf(half)} ELSE shared
    /\ UNCHANGED <<half, stored, metered, ever>>

\* The meter of the tenant and day, if one is committed, is set; else one is added.
RowOf(t, day) ==
    LET rows == {n \in 1 .. Len(metered) : metered[n].tenant = t /\ metered[n].day = day} IN
    IF rows = {} THEN 0 ELSE CHOOSE n \in rows : \A m \in rows : n <= m
\* What the store deletes when it is asked to: logs, then traces; an error is swallowed.
Deletions(t) ==
    {{}, {r \in Expired(t) : r.kind = "log"}, Expired(t)}
AtTenant(w, t) == job[w].on /\ job[w].next <= Len(Tenants) /\ t = Tenants[job[w].next]
MeterTenant(w, t) ==
    /\ AtTenant(w, t)
    /\ job' = [job EXCEPT ![w].next = @ + 1,
                          ![w].writes = @ \cup {[row |-> RowOf(t, job[w].day), tenant |-> t,
                                                 count |-> Cardinality(Counted_(t))]}]
    /\ \E gone \in Deletions(t) : stored' = stored \ gone
    /\ UNCHANGED <<half, metered, queued, ever, shared>>
\* Without a store, or with an error of its own, a tenant is passed over.
PassOver(w, t) ==
    /\ AtTenant(w, t)
    /\ job' = [job EXCEPT ![w].next = @ + 1]
    /\ UNCHANGED <<half, stored, metered, queued, ever, shared>>

SetMeter(x, ms, day) ==
    IF x.row = 0 THEN Append(ms, [tenant |-> x.tenant, day |-> day, count |-> x.count])
    ELSE [ms EXCEPT ![x.row].count = x.count]
Written(writes, day) == FoldSet(LAMBDA x, ms : SetMeter(x, ms, day), metered, writes)
CommitBilling(w) ==
    /\ job[w].on /\ job[w].next > Len(Tenants)
    /\ metered' = Written(job[w].writes, job[w].day)
    /\ job' = [job EXCEPT ![w] = Idle]
    /\ UNCHANGED <<half, stored, queued, ever, shared>>
\* An error of the commit, or a crash: the meters are lost, what is deleted is deleted.
LoseBilling(w) ==
    /\ job[w].on /\ job' = [job EXCEPT ![w] = Idle]
    /\ UNCHANGED <<half, stored, metered, queued, ever, shared>>

MeterNext ==
    \/ Pass
    \/ \E t \in DOMAIN Tier : Store(t, "log") \/ Store(t, "trace")
    \/ \E w \in Workers :
         \/ StartBilling(w) \/ CommitBilling(w) \/ LoseBilling(w)
         \/ \E t \in DOMAIN Tier : MeterTenant(w, t) \/ PassOver(w, t)
MeterSpec == MeterInit /\ [][MeterNext]_meterVars
-----------------------------------------------------------------------------
LogsOf(t, day) == {r \in ever : r.tenant = t /\ r.kind = "log" /\ DayOf(r.at) = day}

\* A tenant is never metered for more than it sent that day, nor for another's logs, and
\* has one meter a day: unless two runs counted the day at once, or the run that began on
\* it counted past midnight.
MetersAreTheTenants ==
    \A n \in 1 .. Len(metered) :
        metered[n].day \notin shared =>
            /\ metered[n].count <= Cardinality(LogsOf(metered[n].tenant, metered[n].day))
            /\ \A m \in 1 .. Len(metered) :
                 metered[m].tenant = metered[n].tenant /\ metered[m].day = metered[n].day => m = n

\* A row is deleted only when it is older than its tenant's tier keeps it, however late
\* the run that deletes it comes.
KeptForItsTier ==
    [][\A r \in stored \ stored' :
         half > r.at + 2 * (CASE Tier[r.tenant] = "enterprise" -> EnterpriseDays
                              [] Tier[r.tenant] = "pro" -> ProDays
                              [] OTHER -> FreeDays)]_meterVars
=============================================================================

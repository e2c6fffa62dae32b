---------------------------- MODULE ArchiveEngine ----------------------------
(***************************************************************************)
(* Tiering of old spans and logs: S3ArchiverEngine of                      *)
(* src/denoiser/storage/archiver.py, started by the 04:00 job and, without *)
(* the lock, by POST /storage/archive/trigger.                             *)
(*                                                                         *)
(* Several runs and hydrations interleave at their database, file and S3   *)
(* calls.  Spans are rows of the SQL database, deleted as the objects that *)
(* were read; logs are rows of ClickHouse, deleted by timestamp.  An       *)
(* archive is the set of records that can be read back from it: none while *)
(* it is being written.                                                    *)
(* A definition X_Y is X with a plausible mistake Y; nothing uses it.      *)
(***************************************************************************)
EXTENDS Integers

CONSTANTS
    Spans, Logs,    \* records, each ingested at most once
    Runs,           \* concurrent calls of run_archival: the nightly, the manual
    Hydrators,      \* concurrent calls of hydrate_archive
    Keep,           \* s3_archive_days
    MaxLate,        \* assumption: age of a record when it is ingested
    SameSecond,     \* two runs may write an archive of a kind in one second
    MaxDay,         \* bound on the clock that dates records
    MaxSecond,      \* bound on the clock that names archives
    MaxCopies,      \* bound: rows of one record
    MaxFaults       \* bound: exceptions and crashes

ASSUME ArchiveAssumption ==
    /\ Spans \cap Logs = {}
    /\ {Keep, MaxLate, MaxDay, MaxSecond, MaxCopies, MaxFaults} \subseteq Nat
    /\ MaxCopies >= 1
    /\ SameSecond \in BOOLEAN

VARIABLES
    today, second,  \* the two clocks
    ts,             \* ts[x]: timestamp of record x, -1 before it is ingested
    hot,            \* rows <<x, c>> of both stores: copy c of record x
    doomed,         \* log rows of submitted mutations that have not been applied
    file,           \* file[k, n]: records readable in the local archive k_n
    object,         \* object[k, n]: the same for its S3 object
    used,           \* names <<k, n>> of the archives ever opened
    pc,             \* pc[r]: what run r does next
    cutoff,         \* cutoff[r]: its cutoff_date
    got,            \* got[r]: the old rows it has read
    name,           \* name[r]: the archive it writes
    want,           \* want[h]: spans that hydration h has found missing
    faults          \* faults that have happened

clocks == <<today, second>>
stores == <<ts, hot, doomed>>
archives == <<file, object, used>>
runVars == <<pc, cutoff, got, name>>
vars == <<clocks, stores, archives, runVars, want, faults>>

Records == Spans \cup Logs
Kinds == {"traces", "logs"}
OfKind(k) == IF k = "traces" THEN Spans ELSE Logs
Names == Kinds \X (0 .. MaxSecond)
Rows == Records \X (1 .. MaxCopies)
Rec(row) == row[1]
Copies(x) == {row \in hot : Rec(row) = x}
Content(rows) == {Rec(row) : row \in rows}
Archived == UNION {file[n] \cup object[n] : n \in Names}

Spend == faults < MaxFaults /\ faults' = faults + 1
Goto(r, k, step) == pc' = [pc EXCEPT ![r] = <<k, step>>]
Idle == <<"none", "idle">>

-----------------------------------------------------------------------------
NextDay ==
    /\ today < MaxDay
    /\ today' = today + 1
    /\ UNCHANGED <<second, stores, archives, runVars, want, faults>>

NextSecond ==
    /\ second < MaxSecond
    /\ second' = second + 1
    /\ UNCHANGED <<today, stores, archives, runVars, want, faults>>

\* Ingestion stores x under the timestamp its producer gave it.
Ingest(x, t) ==
    /\ ts[x] = -1
    /\ t <= today /\ today - t <= MaxLate
    /\ ts' = [ts EXCEPT ![x] = t]
    /\ hot' = hot \cup {<<x, 1>>}
    /\ UNCHANGED <<clocks, doomed, archives, runVars, want, faults>>

\* ClickHouse applies a DELETE mutation some time after accepting it, to the rows
\* that were there when it was accepted.
Mutate ==
    /\ doomed # {}
    /\ hot' = hot \ doomed
    /\ doomed' = {}
    /\ UNCHANGED <<clocks, ts, archives, runVars, want, faults>>

-----------------------------------------------------------------------------
\* run_archival: read the old rows of one store; if there are any, name and open
\* an archive, write it, upload it, and delete the rows.
Start(r) ==
    /\ pc[r] = Idle
    /\ cutoff' = [cutoff EXCEPT ![r] = today - Keep]
    /\ Goto(r, "traces", "query")
    /\ UNCHANGED <<clocks, stores, archives, got, name, want, faults>>

OldRows(k, limit) == {row \in hot : Rec(row) \in OfKind(k) /\ ts[Rec(row)] < limit}

\* What follows the store of kind k; ClickHouse may not be connected.
After(r, k) ==
    \/ k = "traces" /\ Goto(r, "logs", "query")
    \/ pc' = [pc EXCEPT ![r] = Idle]

Query(r, k) ==
    /\ pc[r] = <<k, "query">>
    /\ got' = [got EXCEPT ![r] = OldRows(k, cutoff[r])]
    /\ IF got'[r] # {} THEN Goto(r, k, "open") ELSE After(r, k)
    /\ UNCHANGED <<clocks, stores, archives, cutoff, name, want, faults>>

Open(r, k) ==
    /\ pc[r] = <<k, "open">>
    /\ SameSecond \/ <<k, second>> \notin used
    /\ name' = [name EXCEPT ![r] = <<k, second>>]
    /\ used' = used \cup {<<k, second>>}
    /\ file' = [file EXCEPT ![<<k, second>>] = {}]
    /\ Goto(r, k, "write")
    /\ UNCHANGED <<clocks, stores, object, cutoff, got, want, faults>>

Write(r, k) ==
    /\ pc[r] = <<k, "write">>
    /\ file' = [file EXCEPT ![name[r]] = Content(got[r])]
    /\ Goto(r, k, "upload")
    /\ UNCHANGED <<clocks, stores, object, used, cutoff, got, name, want, faults>>

\* S3 may be disabled, or fail, which is logged and no more.
Upload(r, k) ==
    /\ pc[r] = <<k, "upload">>
    /\ object' \in {object, [object EXCEPT ![name[r]] = file[name[r]]]}
    /\ Goto(r, k, "delete")
    /\ UNCHANGED <<clocks, stores, file, used, cutoff, got, name, want, faults>>

\* Rows another run has deleted meanwhile are matched by nothing, which is a warning.
SpansToDelete_ByTime(r) == OldRows("traces", today - Keep)
SpansToDelete(r) == got[r]
DeleteSpans(r) ==
    /\ pc[r] = <<"traces", "delete">>
    /\ hot' = hot \ SpansToDelete(r)
    /\ After(r, "traces")
    /\ UNCHANGED <<clocks, ts, doomed, archives, cutoff, got, name, want, faults>>

LogsToDelete_Now(r) == OldRows("logs", today - Keep)
LogsToDelete_Inclusive(r) == OldRows("logs", cutoff[r] + 1)
LogsToDelete(r) == OldRows("logs", cutoff[r])
DeleteLogs(r) ==
    /\ pc[r] = <<"logs", "delete">>
    /\ doomed' = doomed \cup LogsToDelete(r)
    /\ After(r, "logs")
    /\ UNCHANGED <<clocks, ts, hot, archives, cutoff, got, name, want, faults>>

\* An exception ends the run: rolled back and logged.  So does a crash.
Abort(r) ==
    /\ pc[r] # Idle /\ Spend
    /\ pc' = [pc EXCEPT ![r] = Idle]
    /\ UNCHANGED <<clocks, stores, archives, cutoff, got, name, want>>

-----------------------------------------------------------------------------
\* hydrate_archive prefers the local file, however damaged, and fetches the object
\* only when there is none; archives are never removed, so there always is one.
Room(x) == {c \in 1 .. MaxCopies : \A row \in Copies(x) : row[2] # c}
Restored(x) == <<x, CHOOSE c \in Room(x) : TRUE>>

Missing_All(n) == file[n]
Missing(n) == {x \in file[n] : Copies(x) = {}}

\* Spans that are already there are left out.
HydrateSpans(h, n) ==
    /\ n \in used /\ n[1] = "traces" /\ want[h] = {}
    /\ want' = [want EXCEPT ![h] = Missing(n)]
    /\ UNCHANGED <<clocks, stores, archives, runVars, faults>>

\* One commit adds them; nothing keeps span_id unique.
CommitSpans(h) ==
    /\ want[h] # {}
    /\ \A x \in want[h] : Room(x) # {}
    /\ hot' = hot \cup {Restored(x) : x \in want[h]}
    /\ want' = [want EXCEPT ![h] = {}]
    /\ UNCHANGED <<clocks, ts, doomed, archives, runVars, faults>>

FailSpans(h) ==
    /\ want[h] # {} /\ Spend
    /\ want' = [want EXCEPT ![h] = {}]
    /\ UNCHANGED <<clocks, stores, archives, runVars>>

\* Each log is an insert of its own, and is inserted whether or not it is there: a
\* failure leaves some of them behind.
HydrateLogs(n) ==
    /\ n \in used /\ n[1] = "logs" /\ file[n] # {}
    /\ \A x \in file[n] : Room(x) # {}
    /\ \E S \in SUBSET file[n] :
         /\ IF S = file[n] THEN UNCHANGED faults ELSE Spend
         /\ hot' = hot \cup {Restored(x) : x \in S}
    /\ UNCHANGED <<clocks, ts, doomed, archives, runVars, want>>

-----------------------------------------------------------------------------
Init ==
    /\ today = 0 /\ second = 0
    /\ ts = [x \in Records |-> -1]
    /\ hot = {} /\ doomed = {}
    /\ file = [n \in Names |-> {}]
    /\ object = [n \in Names |-> {}]
    /\ used = {}
    /\ pc = [r \in Runs |-> Idle]
    /\ cutoff = [r \in Runs |-> 0]
    /\ got = [r \in Runs |-> {}]
    /\ name = [r \in Runs |-> <<"traces", 0>>]
    /\ want = [h \in Hydrators |-> {}]
    /\ faults = 0

Archive(r) ==
    \/ Start(r) \/ DeleteSpans(r) \/ DeleteLogs(r) \/ Abort(r)
    \/ \E k \in Kinds : Query(r, k) \/ Open(r, k) \/ Write(r, k) \/ Upload(r, k)

Next ==
    \/ NextDay \/ NextSecond \/ Mutate
    \/ \E x \in Records, t \in 0 .. MaxDay : Ingest(x, t)
    \/ \E r \in Runs : Archive(r)
    \/ \E h \in Hydrators : CommitSpans(h) \/ FailSpans(h) \/ \E n \in Names : HydrateSpans(h, n)
    \/ Hydrators # {} /\ \E n \in Names : HydrateLogs(n)

Spec == Init /\ [][Next]_vars
-----------------------------------------------------------------------------
TypeOK ==
    /\ today \in 0 .. MaxDay /\ second \in 0 .. MaxSecond
    /\ ts \in [Records -> -1 .. MaxDay]
    /\ hot \subseteq Rows
    /\ doomed \subseteq Rows
    /\ file \in [Names -> SUBSET Records] /\ object \in [Names -> SUBSET Records]
    /\ used \subseteq Names
    /\ pc \in [Runs -> {Idle} \cup Kinds \X {"query", "open", "write", "upload", "delete"}]
    /\ cutoff \in [Runs -> Int]
    /\ got \in [Runs -> SUBSET Rows]
    /\ name \in [Runs -> Names]
    /\ want \in [Hydrators -> SUBSET Records]
    /\ faults \in Nat

Kept(X) == \A x \in X : ts[x] # -1 => Copies(x) # {} \/ x \in Archived

\* "Package them to gzip JSONL, upload to S3, and delete them" (archiver.py 34-35):
\* a span that has been ingested is in the database or readable from an archive,
\* whatever two runs, hydrations, exceptions and crashes do to each other.
SpansKept == Kept(Spans)

\* The same for logs, which are deleted by a second evaluation of the condition
\* they were read by, and not as the rows that were read.
LogsKept == Kept(Logs)

\* A row is deleted only when it is older than archive_days: the run that began
\* before midnight, and the mutation applied late, use the cutoff they began with.
RecentKept == [][\A row \in hot \ hot' : ts[Rec(row)] < today - Keep]_vars

\* "Avoid duplicates" (173): hydrating a span never makes a second row of it, even
\* when an archival that had read the span deletes it meanwhile.
SpanRestoredOnce == \A x \in Spans : \A row, other \in Copies(x) : row = other
=============================================================================

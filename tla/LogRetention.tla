----------------------------- MODULE LogRetention -----------------------------
(***************************************************************************)
(* The 02:00 job: archive_old_logs_to_s3 of src/denoiser/api/scheduler.py, *)
(* wrapped by the lock.  It compresses each old file of DATA_DIR beside    *)
(* the original, uploads the copy, and removes both.                       *)
(*                                                                         *)
(* A file's content is a version number, 0 for no file.  Names recur: a    *)
(* connector writes k8s_<ns>_<pod>.log anew on every fetch, and a stream   *)
(* grows under one name.  The lock is taken at its word: who may run is    *)
(* NightlyJob, which JobLock implements.                                   *)
(***************************************************************************)
EXTENDS Integers

CONSTANTS
    Replicas, Days,     \* as in NightlyJob
    Files,              \* names matching *.log or *.jsonl, not live_stream.log
    SharedData,         \* other processes write DATA_DIR while the job runs
    MaxVersions,        \* bound: versions written per name
    MaxFaults           \* bound: crashes, failed uploads and file-system errors

ASSUME RetentionAssumption ==
    /\ SharedData \in BOOLEAN /\ MaxVersions \in Nat /\ MaxFaults \in Nat
    /\ Days \subseteq Nat

VARIABLES
    running, ran,   \* as in NightlyJob
    disk,           \* disk[f]: content of f
    old,            \* files whose mtime is before the cutoff
    zip,            \* zip[f]: content of f.gz
    s3,             \* s3[f]: content of the object archive/f.gz
    pc,             \* pc[r]: what the job does next in replica r
    todo,           \* todo[r]: files it has yet to look at
    cur,            \* cur[r]: the file it is at
    read,           \* read[r]: content of cur[r] when it was opened
    latest,         \* history: latest[f] is the last version written to f
    faults          \* faults that have happened

jobVars == <<running, ran>>
fileVars == <<disk, old, zip, s3, latest>>
runVars == <<pc, todo, cur, read>>
vars == <<jobVars, fileVars, runVars, faults>>

Job == INSTANCE NightlyJob

Partial == -1       \* a copy cut short, or torn between two versions
Spend == faults < MaxFaults /\ faults' = faults + 1
Goto(r, step) == pc' = [pc EXCEPT ![r] = step]

-----------------------------------------------------------------------------
\* Another process (a connector, a collector) writes f.  With one process the
\* job, which never awaits, blocks the event loop they would run on.
Write(f) ==
    /\ latest[f] < MaxVersions
    /\ running = {} \/ SharedData
    /\ latest' = [latest EXCEPT ![f] = @ + 1]
    /\ disk' = [disk EXCEPT ![f] = latest'[f]]
    /\ old' = old \ {f}
    /\ UNCHANGED <<jobVars, zip, s3, runVars, faults>>

\* The cutoff, fixed when a run begins, passes the mtime of f.
Age(f) ==
    /\ running = {} /\ disk[f] # 0 /\ f \notin old
    /\ old' = old \cup {f}
    /\ UNCHANGED <<jobVars, disk, zip, s3, latest, runVars, faults>>

\* S3 is disabled, or ObjectStore cannot be built: the run ends at once.
Begin(r, d) ==
    /\ Job!Begin(r, d)
    /\ Goto(r, "scan")
    /\ \/ todo' = [todo EXCEPT ![r] = {f \in Files : disk[f] # 0}] /\ UNCHANGED faults
       \/ todo' = [todo EXCEPT ![r] = {}] /\ Spend
    /\ UNCHANGED <<fileVars, cur, read>>

\* stat is outside the try: a file that is gone ends the run.
Selected_NoAge(f) == TRUE
Selected(f) == f \in old

Stat(r, f) ==
    /\ pc[r] = "scan" /\ f \in todo[r]
    /\ todo' = [todo EXCEPT ![r] = IF disk[f] = 0 THEN {} ELSE @ \ {f}]
    /\ IF disk[f] # 0 /\ Selected(f)
       THEN /\ Goto(r, "zip")
            /\ cur' = [cur EXCEPT ![r] = f]
            /\ read' = [read EXCEPT ![r] = disk[f]]
            /\ zip' = [zip EXCEPT ![f] = Partial]
       ELSE UNCHANGED <<pc, cur, read, zip>>
    /\ UNCHANGED <<jobVars, disk, old, s3, latest, faults>>

Zip(r) ==
    /\ pc[r] = "zip"
    /\ zip' = [zip EXCEPT ![cur[r]] = IF disk[cur[r]] = read[r] THEN read[r] ELSE Partial]
    /\ Goto(r, "upload")
    /\ UNCHANGED <<jobVars, disk, old, s3, latest, todo, cur, read, faults>>

\* upload_file answers True or False; it never raises.  False does not mean that
\* the object has not changed.
Stored(r) == s3' = [s3 EXCEPT ![cur[r]] = zip[cur[r]]]
AfterFailedUpload_Remove == "rmfile"
AfterFailedUpload == "rmzip"
Upload(r) ==
    /\ pc[r] = "upload"
    /\ \/ Stored(r) /\ Goto(r, "rmfile") /\ UNCHANGED faults
       \/ (Stored(r) \/ UNCHANGED s3) /\ Goto(r, AfterFailedUpload) /\ Spend
    /\ UNCHANGED <<jobVars, disk, old, zip, latest, todo, cur, read>>

RemoveFile(r) ==
    /\ pc[r] = "rmfile"
    /\ disk' = [disk EXCEPT ![cur[r]] = 0]
    /\ old' = old \ {cur[r]}
    /\ Goto(r, IF disk[cur[r]] = 0 THEN "scan" ELSE "rmzip")
    /\ UNCHANGED <<jobVars, zip, s3, latest, todo, cur, read, faults>>

RemoveZip(r) ==
    /\ pc[r] = "rmzip"
    /\ zip' = [zip EXCEPT ![cur[r]] = 0]
    /\ Goto(r, "scan")
    /\ UNCHANGED <<jobVars, disk, old, s3, latest, todo, cur, read, faults>>

\* An exception in the body of the loop is logged and the next file taken: a full
\* disk while compressing, a remove that is refused.
Raise(r) ==
    /\ pc[r] \in {"zip", "rmfile", "rmzip"}
    /\ Spend
    /\ Goto(r, "scan")
    /\ UNCHANGED <<jobVars, fileVars, todo, cur, read>>

End(r) ==
    /\ pc[r] = "scan" /\ todo[r] = {}
    /\ Job!End(r)
    /\ Goto(r, "out")
    /\ UNCHANGED <<fileVars, todo, cur, read, faults>>

Crash(r) ==
    /\ Job!End(r)
    /\ Spend
    /\ Goto(r, "out")
    /\ UNCHANGED <<fileVars, todo, cur, read>>

-----------------------------------------------------------------------------
Init ==
    /\ Job!Init
    /\ disk = [f \in Files |-> 0]
    /\ old = {}
    /\ zip = [f \in Files |-> 0]
    /\ s3 = [f \in Files |-> 0]
    /\ pc = [r \in Replicas |-> "out"]
    /\ todo = [r \in Replicas |-> {}]
    /\ cur \in [Replicas -> Files]
    /\ read = [r \in Replicas |-> 0]
    /\ latest = [f \in Files |-> 0]
    /\ faults = 0

Next ==
    \/ \E f \in Files : Write(f) \/ Age(f)
    \/ \E r \in Replicas, d \in Days : Begin(r, d)
    \/ \E r \in Replicas, f \in Files : Stat(r, f)
    \/ \E r \in Replicas :
         \/ Zip(r) \/ Upload(r) \/ RemoveFile(r) \/ RemoveZip(r)
         \/ Raise(r) \/ End(r) \/ Crash(r)

Spec == Init /\ [][Next]_vars
-----------------------------------------------------------------------------
TypeOK ==
    /\ running \subseteq Replicas /\ ran \subseteq Days
    /\ disk \in [Files -> Nat]
    /\ old \subseteq Files
    /\ zip \in [Files -> Nat \cup {Partial}]
    /\ s3 \in [Files -> Nat \cup {Partial}]
    /\ pc \in [Replicas -> {"out", "scan", "zip", "upload", "rmfile", "rmzip"}]
    /\ todo \in [Replicas -> SUBSET Files]
    /\ cur \in [Replicas -> Files]
    /\ read \in [Replicas -> Nat]
    /\ latest \in [Files -> Nat]
    /\ faults \in Nat

\* "Compresses them, uploads to S3, and deletes the local files" (scheduler.py
\* 39-40), in that order: whatever fails or dies in between, and whoever runs the
\* next night, the newest content of a file is on disk or whole in S3.
NewestIsKept ==
    \A f \in Files : latest[f] # 0 => latest[f] \in {disk[f], s3[f]}

\* The object in S3 is a whole file: a copy cut short by a crash or a full disk is
\* replaced before anything is uploaded.
ObjectIsWhole == \A f \in Files : s3[f] # Partial

\* "Finds log files older than retention_days ... and deletes the local files"
\* (39-40): a file written since the cutoff is left alone.
OnlyOldFilesDeleted ==
    [][\A f \in Files : disk[f] # 0 /\ disk'[f] = 0 => f \in old]_vars
=============================================================================

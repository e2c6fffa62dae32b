-------------------------- MODULE LogRetentionProofs --------------------------
(***************************************************************************)
(* Proofs about LogRetention for any number of replicas, files, nights,    *)
(* versions and faults, when the job alone writes DATA_DIR while it runs.  *)
(*                                                                         *)
(* That the newest content is kept is not inductive: RemoveFile deletes it *)
(* from the disk.  It needs what each step of the run has established, and *)
(* that, needs that nobody else runs: IInv follows the one run through its *)
(* program counter.                                                        *)
(***************************************************************************)
EXTENDS LogRetention, TLAPS

\* One replica runs at a time.
Exclusive ==
    /\ \A r \in Replicas : pc[r] # "out" <=> r \in running
    /\ \A r, s \in running : r = s

\* What is on disk is the last version written.
DiskIsLatest == \A f \in Files : disk[f] # 0 => disk[f] = latest[f]

\* The file at hand is old; its copy is whole once made, and stored before the
\* original goes.
RunOrder ==
    \A r \in Replicas :
        /\ pc[r] \in {"zip", "upload", "rmfile"} => cur[r] \in old /\ disk[cur[r]] # 0
        /\ pc[r] = "zip" => read[r] = disk[cur[r]]
        /\ pc[r] = "upload" => zip[cur[r]] = disk[cur[r]]
        /\ pc[r] = "rmfile" => s3[cur[r]] = disk[cur[r]]

IInv == TypeOK /\ Exclusive /\ DiskIsLatest /\ RunOrder /\ NewestIsKept /\ ObjectIsWhole

-----------------------------------------------------------------------------
LEMMA TypeStep == TypeOK /\ [Next]_vars => TypeOK'
<1> SUFFICES ASSUME TypeOK, [Next]_vars PROVE TypeOK'
  OBVIOUS
<1> USE DEF TypeOK, jobVars, fileVars, runVars, Goto, Spend
<1>1. ASSUME NEW f \in Files, Write(f) \/ Age(f) PROVE TypeOK'
  BY <1>1 DEF Write, Age
<1>2. ASSUME NEW r \in Replicas, NEW d \in Days, Begin(r, d) PROVE TypeOK'
  BY <1>2 DEF Begin, Job!Begin
<1>3. ASSUME NEW r \in Replicas, NEW f \in Files, Stat(r, f) PROVE TypeOK'
  BY <1>3 DEF Stat
<1>4. ASSUME NEW r \in Replicas, Zip(r) PROVE TypeOK'
  BY <1>4 DEF Zip
<1>5. ASSUME NEW r \in Replicas, Upload(r) PROVE TypeOK'
  BY <1>5 DEF Upload, Stored, AfterFailedUpload
<1>6. ASSUME NEW r \in Replicas, RemoveFile(r) PROVE TypeOK'
  BY <1>6 DEF RemoveFile
<1>7. ASSUME NEW r \in Replicas, RemoveZip(r) PROVE TypeOK'
  BY <1>7 DEF RemoveZip
<1>8. ASSUME NEW r \in Replicas, Raise(r) PROVE TypeOK'
  BY <1>8 DEF Raise
<1>9. ASSUME NEW r \in Replicas, End(r) \/ Crash(r) PROVE TypeOK'
  BY <1>9 DEF End, Crash, Job!End
<1>10. CASE UNCHANGED vars
  BY <1>10 DEF vars
<1> QED
  BY <1>1, <1>2, <1>3, <1>4, <1>5, <1>6, <1>7, <1>8, <1>9, <1>10 DEF Next

LEMMA InitHolds == Init => IInv
<1> SUFFICES ASSUME Init PROVE IInv
  OBVIOUS
<1>1. TypeOK
  BY DEF Init, Job!Init, TypeOK
<1>2. Exclusive /\ RunOrder
  BY DEF Init, Job!Init, Exclusive, RunOrder
<1>3. DiskIsLatest /\ NewestIsKept /\ ObjectIsWhole
  BY DEF Init, DiskIsLatest, NewestIsKept, ObjectIsWhole, Partial
<1> QED BY <1>1, <1>2, <1>3 DEF IInv

\* Only the replica that runs is inside the loop.
LEMMA OthersAreOut ==
    ASSUME IInv, NEW r \in Replicas, pc[r] # "out", NEW q \in Replicas, q # r
    PROVE  pc[q] = "out"
BY DEF IInv, Exclusive

\* Exclusion survives the steps that keep a replica inside or outside its run.
LEMMA ExclusiveInside ==
    ASSUME IInv, NEW r \in Replicas, NEW step, Goto(r, step), step # "out", pc[r] # "out",
           UNCHANGED running
    PROVE  Exclusive'
BY DEF IInv, TypeOK, Exclusive, Goto

\* Only the replica that steps has anything to establish.
LEMMA RunOrderOfOne ==
    ASSUME IInv, NEW r \in Replicas, pc[r] # "out", NEW step, Goto(r, step),
           step \in {"zip", "upload", "rmfile"} => cur'[r] \in old' /\ disk'[cur'[r]] # 0,
           step = "zip" => read'[r] = disk'[cur'[r]],
           step = "upload" => zip'[cur'[r]] = disk'[cur'[r]],
           step = "rmfile" => s3'[cur'[r]] = disk'[cur'[r]]
    PROVE  RunOrder'
<1>1. pc'[r] = step /\ \A q \in Replicas : q # r => pc'[q] = "out"
  BY OthersAreOut DEF Goto, IInv, TypeOK
<1> QED BY <1>1 DEF RunOrder

LEMMA WriteStep ==
    ASSUME ~SharedData, IInv, TypeOK', NEW f \in Files, Write(f) \/ Age(f)
    PROVE  IInv'
<1>1. running = {} /\ UNCHANGED <<running, pc, s3>>
  BY DEF Write, Age, jobVars, runVars
<1>2. \A r \in Replicas : pc[r] = "out"
  BY <1>1 DEF IInv, Exclusive
<1>3. Exclusive' /\ RunOrder' /\ ObjectIsWhole'
  BY <1>1, <1>2 DEF IInv, Exclusive, RunOrder, ObjectIsWhole
<1>4. CASE Write(f)
  <2>1. /\ \A g \in Files : g # f => disk'[g] = disk[g] /\ latest'[g] = latest[g]
        /\ disk'[f] = latest'[f]
    BY <1>4 DEF Write, IInv, TypeOK
  <2>2. DiskIsLatest' /\ NewestIsKept'
    BY <1>1, <2>1 DEF IInv, DiskIsLatest, NewestIsKept
  <2> QED BY <1>3, <2>2 DEF IInv
<1>5. CASE Age(f)
  BY <1>3, <1>5 DEF Age, IInv, DiskIsLatest, NewestIsKept
<1> QED BY <1>4, <1>5

LEMMA BeginStep ==
    ASSUME IInv, TypeOK', NEW r \in Replicas, NEW d \in Days, Begin(r, d)
    PROVE  IInv'
<1>1. running = {} /\ running' = {r} /\ Goto(r, "scan") /\ UNCHANGED fileVars
  BY DEF Begin, Job!Begin
<1>2. \A q \in Replicas : pc[q] = "out"
  BY <1>1 DEF IInv, Exclusive
<1>3. pc'[r] = "scan" /\ \A q \in Replicas : q # r => pc'[q] = "out"
  BY <1>1, <1>2 DEF Goto, IInv, TypeOK
<1>4. Exclusive' /\ RunOrder'
  BY <1>1, <1>3 DEF Exclusive, RunOrder
<1> QED BY <1>1, <1>4 DEF IInv, DiskIsLatest, NewestIsKept, ObjectIsWhole, fileVars

LEMMA StatStep ==
    ASSUME IInv, TypeOK', NEW r \in Replicas, NEW f \in Files, Stat(r, f)
    PROVE  IInv'
<1>1. pc[r] = "scan" /\ UNCHANGED <<running, disk, old, s3, latest>>
  BY DEF Stat, jobVars
<1>2. CASE disk[f] # 0 /\ Selected(f)
  <2>1. Goto(r, "zip") /\ cur'[r] = f /\ read'[r] = disk[f] /\ f \in old
    BY <1>2 DEF Stat, Selected, IInv, TypeOK
  <2>2. RunOrder'
    BY <1>1, <1>2, <2>1, RunOrderOfOne
  <2>3. Exclusive'
    BY <1>1, <2>1, ExclusiveInside
  <2> QED BY <1>1, <2>2, <2>3 DEF IInv, DiskIsLatest, NewestIsKept, ObjectIsWhole
<1>3. CASE ~(disk[f] # 0 /\ Selected(f))
  <2>1. UNCHANGED <<pc, cur, read, zip>>
    BY <1>3 DEF Stat
  <2> QED
    BY <1>1, <2>1 DEF IInv, Exclusive, RunOrder, DiskIsLatest, NewestIsKept, ObjectIsWhole
<1> QED BY <1>2, <1>3

LEMMA ZipStep == ASSUME IInv, TypeOK', NEW r \in Replicas, Zip(r) PROVE IInv'
<1>1. pc[r] = "zip" /\ Goto(r, "upload") /\ UNCHANGED <<running, disk, old, s3, latest, cur>>
  BY DEF Zip, jobVars
<1>2. cur[r] \in Files /\ cur[r] \in old /\ disk[cur[r]] # 0 /\ read[r] = disk[cur[r]]
  BY <1>1 DEF IInv, TypeOK, RunOrder
<1>3. zip'[cur[r]] = disk[cur[r]]
  BY <1>2 DEF Zip, IInv, TypeOK
<1>4. RunOrder'
  BY <1>1, <1>2, <1>3, RunOrderOfOne
<1>5. Exclusive'
  BY <1>1, ExclusiveInside
<1> QED BY <1>1, <1>4, <1>5 DEF IInv, DiskIsLatest, NewestIsKept, ObjectIsWhole

\* What is uploaded is the newest content, so S3 gains what the disk may lose.
LEMMA UploadStep == ASSUME IInv, TypeOK', NEW r \in Replicas, Upload(r) PROVE IInv'
<1>1. pc[r] = "upload" /\ UNCHANGED <<running, disk, old, zip, latest, cur>>
  BY DEF Upload, jobVars
<1>2. /\ cur[r] \in Files /\ cur[r] \in old /\ disk[cur[r]] # 0
      /\ zip[cur[r]] = disk[cur[r]] /\ disk[cur[r]] \in Nat
  BY <1>1 DEF IInv, TypeOK, RunOrder
<1>3. disk[cur[r]] = latest[cur[r]]
  BY <1>2 DEF IInv, DiskIsLatest
<1>4. /\ \A f \in Files : f # cur[r] => s3'[f] = s3[f]
      /\ s3'[cur[r]] \in {s3[cur[r]], disk[cur[r]]}
  BY <1>2 DEF Upload, Stored, IInv, TypeOK
<1>5. NewestIsKept'
  BY <1>1, <1>2, <1>3, <1>4 DEF IInv, NewestIsKept
<1>6. ObjectIsWhole'
  <2>1. disk[cur[r]] # Partial
    BY <1>2 DEF Partial
  <2> QED BY <1>4, <2>1 DEF IInv, ObjectIsWhole, Partial
<1>7. Exclusive' /\ RunOrder'
  <2>1. CASE Stored(r) /\ Goto(r, "rmfile")
    <3>1. s3'[cur[r]] = disk[cur[r]]
      BY <1>2, <2>1 DEF Stored, IInv, TypeOK
    <3> QED BY <1>1, <1>2, <2>1, <3>1, RunOrderOfOne, ExclusiveInside
  <2>2. CASE Goto(r, "rmzip")
    BY <1>1, <2>2, RunOrderOfOne, ExclusiveInside
  <2> QED BY <2>1, <2>2 DEF Upload, AfterFailedUpload
<1> QED BY <1>1, <1>5, <1>6, <1>7 DEF IInv, DiskIsLatest

LEMMA RemoveFileStep == ASSUME IInv, TypeOK', NEW r \in Replicas, RemoveFile(r) PROVE IInv'
<1>1. pc[r] = "rmfile" /\ UNCHANGED <<running, zip, s3, latest, cur>>
  BY DEF RemoveFile, jobVars
<1>2. cur[r] \in Files /\ disk[cur[r]] # 0 /\ s3[cur[r]] = disk[cur[r]]
  BY <1>1 DEF IInv, TypeOK, RunOrder
<1>3. s3[cur[r]] = latest[cur[r]]
  BY <1>2 DEF IInv, DiskIsLatest
<1>4. disk'[cur[r]] = 0 /\ \A f \in Files : f # cur[r] => disk'[f] = disk[f]
  BY <1>2 DEF RemoveFile, IInv, TypeOK
<1>5. NewestIsKept' /\ DiskIsLatest'
  BY <1>1, <1>3, <1>4 DEF IInv, NewestIsKept, DiskIsLatest
<1>6. Goto(r, "rmzip")
  BY <1>2 DEF RemoveFile
<1>7. Exclusive' /\ RunOrder'
  BY <1>1, <1>6, RunOrderOfOne, ExclusiveInside
<1> QED BY <1>1, <1>5, <1>7 DEF IInv, ObjectIsWhole

LEMMA QuietStep ==
    ASSUME IInv, TypeOK', NEW r \in Replicas, RemoveZip(r) \/ Raise(r)
    PROVE  IInv'
<1>1. pc[r] # "out" /\ Goto(r, "scan") /\ UNCHANGED <<running, disk, old, s3, latest, cur>>
  BY DEF RemoveZip, Raise, jobVars, fileVars
<1>2. Exclusive' /\ RunOrder'
  BY <1>1, RunOrderOfOne, ExclusiveInside
<1> QED BY <1>1, <1>2 DEF IInv, DiskIsLatest, NewestIsKept, ObjectIsWhole

LEMMA EndStep ==
    ASSUME IInv, TypeOK', NEW r \in Replicas, End(r) \/ Crash(r)
    PROVE  IInv'
<1>1. r \in running /\ running' = running \ {r} /\ Goto(r, "out") /\ UNCHANGED fileVars
  BY DEF End, Crash, Job!End
<1>2. running' = {}
  BY <1>1 DEF IInv, Exclusive
<1>3. pc[r] # "out"
  BY <1>1 DEF IInv, Exclusive
<1>4. \A q \in Replicas : pc'[q] = "out"
  BY <1>1, <1>3, OthersAreOut DEF Goto, IInv, TypeOK
<1>5. Exclusive' /\ RunOrder'
  BY <1>2, <1>4 DEF Exclusive, RunOrder
<1> QED BY <1>1, <1>5 DEF IInv, DiskIsLatest, NewestIsKept, ObjectIsWhole, fileVars

LEMMA Inductive == ASSUME ~SharedData PROVE IInv /\ [Next]_vars => IInv'
<1> SUFFICES ASSUME IInv, [Next]_vars PROVE IInv'
  OBVIOUS
<1>1. TypeOK'
  BY TypeStep DEF IInv
<1>2. CASE UNCHANGED vars
  BY <1>1, <1>2 DEF vars, jobVars, fileVars, runVars, IInv, Exclusive, RunOrder,
                    DiskIsLatest, NewestIsKept, ObjectIsWhole
<1> QED
  BY <1>1, <1>2, WriteStep, BeginStep, StatStep, ZipStep, UploadStep, RemoveFileStep,
     QuietStep, EndStep DEF Next

-----------------------------------------------------------------------------
\* The retention job never loses the newest content of a file, however its steps
\* are cut short by crashes, failed uploads and file-system errors.
THEOREM NothingIsLost == ASSUME ~SharedData PROVE Spec => []NewestIsKept
<1>1. IInv => NewestIsKept
  BY DEF IInv
<1> QED BY <1>1, InitHolds, Inductive, PTL DEF Spec

\* No object in S3 is ever torn: a copy that a crash, a full disk or an earlier run
\* left cut short is compressed again before anything is uploaded.
THEOREM ObjectsAreWhole == ASSUME ~SharedData PROVE Spec => []ObjectIsWhole
<1>1. IInv => ObjectIsWhole
  BY DEF IInv
<1> QED BY <1>1, InitHolds, Inductive, PTL DEF Spec

\* The job deletes no file that was written since the cutoff.
THEOREM KeepsRecentFiles == ASSUME ~SharedData PROVE Spec => OnlyOldFilesDeleted
<1>1. IInv /\ [Next]_vars => [\A f \in Files : disk[f] # 0 /\ disk'[f] = 0 => f \in old]_vars
  <2> SUFFICES ASSUME IInv, Next, NEW f \in Files, disk[f] # 0, disk'[f] = 0
               PROVE  f \in old
    OBVIOUS
  <2>1. ASSUME NEW g \in Files, Write(g) PROVE f \in old
    BY <2>1 DEF Write, IInv, TypeOK
  <2>2. ASSUME NEW r \in Replicas, RemoveFile(r) PROVE f \in old
    BY <2>2 DEF RemoveFile, IInv, TypeOK, RunOrder
  <2>3. disk' # disk
    OBVIOUS
  <2> QED
    BY <2>1, <2>2, <2>3
    DEF Next, Age, Begin, Stat, Zip, Upload, RemoveZip, Raise, End, Crash, fileVars
<1> QED BY <1>1, InitHolds, Inductive, PTL DEF Spec, OnlyOldFilesDeleted
=============================================================================

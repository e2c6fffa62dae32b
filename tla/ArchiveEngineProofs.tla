------------------------- MODULE ArchiveEngineProofs -------------------------
(***************************************************************************)
(* Proofs about ArchiveEngine for any number of records, concurrent runs,  *)
(* hydrations and faults.                                                  *)
(*                                                                         *)
(* That nothing is lost needs two assumptions: no two archives of a kind   *)
(* are named in the same second, and no record arrives older than what is  *)
(* archived (the run archive_late shows what happens otherwise).           *)
(* SpansKept and LogsKept are not inductive: they do not say that what a   *)
(* run is about to delete has been archived.  IInv adds it, with what      *)
(* keeps archives from ever shrinking.                                     *)
(*                                                                         *)
(* That only what is old is deleted (DInv) needs neither.  That a span is  *)
(* restored once (OInv) needs that nobody else hydrates meanwhile.         *)
(***************************************************************************)
EXTENDS ArchiveEngine, TLAPS

\* A name that was never used has no archive, and an object never holds more than
\* the file it was uploaded from.
ArchivesFromFiles ==
    /\ \A n \in Names : n \notin used => file[n] = {}
    /\ \A n \in Names : object[n] \subseteq file[n]

\* The file a run is about to write is its own, and still empty.
OwnFile ==
    \A r \in Runs, k \in Kinds : pc[r] = <<k, "write">> =>
        /\ name[r] \in used /\ file[name[r]] = {}
        /\ \A s \in Runs, j \in Kinds : s # r /\ pc[s] = <<j, "write">> => name[s] # name[r]

\* From its upload on, a run has archived all that it has read.
GotIsArchived ==
    \A r \in Runs, k \in Kinds, step \in {"upload", "delete"} :
        pc[r] = <<k, step>> => Content(got[r]) \subseteq file[name[r]]

\* A run that has read the logs has read all that are older than its cutoff and not
\* archived yet; none is added while it runs.
Read == {"open", "write", "upload", "delete"}
NoneAdded ==
    \A r \in Runs : pc[r] # Idle =>
        /\ cutoff[r] <= today - Keep
        /\ pc[r] \in {"logs"} \X Read =>
             \A row \in OldRows("logs", cutoff[r]) : Rec(row) \in Content(got[r]) \cup Archived

\* A log that is to be deleted has been archived.
DoomedIsArchived == \A row \in doomed : Rec(row) \in Archived

\* What a hydration restores comes from an archive.
WantIsArchived == \A h \in Hydrators : want[h] \subseteq Archived

Safe == SpansKept /\ LogsKept
IInv == TypeOK /\ ArchivesFromFiles /\ OwnFile /\ GotIsArchived /\ NoneAdded
          /\ DoomedIsArchived /\ WantIsArchived /\ Safe

-----------------------------------------------------------------------------
LEMMA Constants ==
    /\ Spans \cap Logs = {}
    /\ Keep \in Nat /\ MaxLate \in Nat /\ MaxDay \in Nat /\ MaxSecond \in Nat
    /\ MaxCopies \in Nat /\ MaxCopies >= 1 /\ MaxFaults \in Nat
BY ArchiveAssumption

LEMMA OldRowsAreHot == ASSUME NEW k, NEW limit PROVE OldRows(k, limit) \subseteq hot
BY DEF OldRows

LEMMA RestoredIsRow ==
    ASSUME NEW x \in Records, Room(x) # {}
    PROVE  Restored(x) \in Rows /\ Rec(Restored(x)) = x
<1>1. PICK e \in Room(x) : TRUE
  OBVIOUS
<1>2. (CHOOSE c \in Room(x) : TRUE) \in Room(x)
  BY <1>1
<1>3. PICK d : d = (CHOOSE c \in Room(x) : TRUE)
  OBVIOUS
<1>4. d \in 1 .. MaxCopies
  BY <1>2, <1>3 DEF Room
<1>5. Restored(x) = <<x, d>>
  BY <1>3 DEF Restored
<1> QED BY <1>4, <1>5 DEF Rows, Rec

LEMMA FirstCopyIsRow ==
    ASSUME NEW x \in Records PROVE <<x, 1>> \in Rows /\ Rec(<<x, 1>>) = x
<1>1. 1 \in 1 .. MaxCopies
  BY Constants
<1> QED BY <1>1 DEF Rows, Rec

LEMMA RestoredAreRows ==
    ASSUME NEW S \in SUBSET Records, \A x \in S : Room(x) # {}
    PROVE  {Restored(x) : x \in S} \subseteq Rows
BY RestoredIsRow

LEMMA NamesHaveKinds == ASSUME TypeOK, NEW k \in Kinds PROVE <<k, second>> \in Names
BY DEF TypeOK, Names

LEMMA TypeStep == TypeOK /\ [Next]_vars => TypeOK'
<1> SUFFICES ASSUME TypeOK, [Next]_vars PROVE TypeOK'
  OBVIOUS
<1> USE DEF TypeOK, clocks, stores, archives, runVars, Goto, Spend, Idle, Kinds
<1>1. CASE NextDay \/ NextSecond \/ Mutate
  BY <1>1, Constants DEF NextDay, NextSecond, Mutate
<1>2. ASSUME NEW x \in Records, NEW t \in 0 .. MaxDay, Ingest(x, t) PROVE TypeOK'
  <2>1. <<x, 1>> \in Rows
    BY FirstCopyIsRow
  <2>2. t \in -1 .. MaxDay
    BY Constants
  <2> QED BY <1>2, <2>1, <2>2 DEF Ingest
<1>3. ASSUME NEW r \in Runs, Start(r) PROVE TypeOK'
  <2>1. today - Keep \in Int
    BY Constants
  <2> QED BY <1>3, <2>1 DEF Start
<1>4. ASSUME NEW r \in Runs, NEW k \in Kinds, Query(r, k) PROVE TypeOK'
  BY <1>4, OldRowsAreHot DEF Query, After
<1>5. ASSUME NEW r \in Runs, NEW k \in Kinds, Open(r, k) PROVE TypeOK'
  BY <1>5, NamesHaveKinds DEF Open
<1>6. ASSUME NEW r \in Runs, NEW k \in Kinds, Write(r, k) PROVE TypeOK'
  <2>1. Content(got[r]) \subseteq Records
    BY DEF Content, Rec, Rows
  <2> QED BY <1>6, <2>1 DEF Write
<1>7. ASSUME NEW r \in Runs, NEW k \in Kinds, Upload(r, k) PROVE TypeOK'
  BY <1>7 DEF Upload
<1>8. ASSUME NEW r \in Runs, DeleteSpans(r) \/ DeleteLogs(r) \/ Abort(r) PROVE TypeOK'
  BY <1>8, OldRowsAreHot DEF DeleteSpans, DeleteLogs, Abort, After, LogsToDelete
<1>9. ASSUME NEW h \in Hydrators, NEW n \in Names, HydrateSpans(h, n) PROVE TypeOK'
  BY <1>9 DEF HydrateSpans, Missing, Names
<1>10. ASSUME NEW h \in Hydrators, CommitSpans(h) \/ FailSpans(h) PROVE TypeOK'
  <2>1. CASE CommitSpans(h)
    <3>1. PICK N : N = {Restored(x) : x \in want[h]}
      OBVIOUS
    <3>2. N \subseteq Rows
      BY <2>1, <3>1, RestoredAreRows DEF CommitSpans
    <3>3. /\ hot' = hot \cup N /\ want' = [want EXCEPT ![h] = {}]
          /\ UNCHANGED <<clocks, ts, doomed, archives, runVars, faults>>
      BY <2>1, <3>1 DEF CommitSpans
    <3> QED BY <3>2, <3>3
  <2>2. CASE FailSpans(h)
    BY <2>2 DEF FailSpans
  <2> QED BY <1>10, <2>1, <2>2
<1>11. ASSUME NEW n \in Names, HydrateLogs(n) PROVE TypeOK'
  <2>1. PICK S \in SUBSET file[n] :
          /\ IF S = file[n] THEN UNCHANGED faults ELSE Spend
          /\ hot' = hot \cup {Restored(x) : x \in S}
    BY <1>11 DEF HydrateLogs
  <2>2. PICK N : N = {Restored(x) : x \in S}
    OBVIOUS
  <2>3. N \subseteq Rows
    BY <1>11, <2>2, RestoredAreRows DEF HydrateLogs
  <2>4. hot' = hot \cup N
    BY <2>1, <2>2
  <2>5. UNCHANGED <<clocks, ts, doomed, archives, runVars, want>>
    BY <1>11 DEF HydrateLogs
  <2>6. UNCHANGED faults \/ Spend
    BY <2>1
  <2> QED BY <2>3, <2>4, <2>5, <2>6
<1>12. CASE UNCHANGED vars
  BY <1>12 DEF vars
<1> QED
  BY <1>1, <1>2, <1>3, <1>4, <1>5, <1>6, <1>7, <1>8, <1>9, <1>10, <1>11, <1>12
  DEF Next, Archive

LEMMA InitHolds == Init => IInv
<1> SUFFICES ASSUME Init PROVE IInv
  OBVIOUS
<1>1. TypeOK
  <2>1. <<"traces", 0>> \in Names
    BY Constants DEF Names, Kinds
  <2>2. 0 \in 0 .. MaxDay /\ 0 \in 0 .. MaxSecond /\ -1 \in -1 .. MaxDay
    BY Constants
  <2> QED BY <2>1, <2>2 DEF Init, TypeOK
<1>2. \A r \in Runs : pc[r] = <<"none", "idle">>
  BY DEF Init, Idle
<1>3. OwnFile /\ GotIsArchived /\ NoneAdded
  BY <1>2 DEF OwnFile, GotIsArchived, NoneAdded, Kinds, Idle
<1>4. ArchivesFromFiles /\ DoomedIsArchived /\ WantIsArchived
  BY DEF Init, ArchivesFromFiles, DoomedIsArchived, WantIsArchived
<1>5. \A x \in Records : ts[x] = -1
  BY DEF Init
<1>6. Safe
  BY <1>5 DEF Safe, SpansKept, LogsKept, Kept, Records
<1> QED BY <1>1, <1>3, <1>4, <1>6 DEF IInv

\* Everything archived is in a file.
LEMMA ArchivedIsInFiles ==
    ASSUME ArchivesFromFiles
    PROVE  \A x : x \in Archived <=> \E n \in Names : x \in file[n]
BY DEF ArchivesFromFiles, Archived

LEMMA ArchivedGrows ==
    ASSUME ArchivesFromFiles, ArchivesFromFiles', \A n \in Names : file[n] \subseteq file'[n]
    PROVE  Archived \subseteq Archived'
<1>1. \A x : x \in Archived <=> \E n \in Names : x \in file[n]
  BY ArchivedIsInFiles
<1>2. \A x : x \in Archived' <=> \E n \in Names : x \in file'[n]
  BY DEF ArchivesFromFiles, Archived
<1> QED BY <1>1, <1>2

LEMMA SafeStep ==
    ASSUME Safe, Archived \subseteq Archived', ts' = ts,
           \A row \in hot : row \in hot' \/ Rec(row) \in Archived'
    PROVE  Safe'
BY DEF Safe, SpansKept, LogsKept, Kept, Copies

\* Steps of the clocks, of ingestion, of ClickHouse and of hydrations.
LEMMA OutsideRuns ==
    ASSUME IInv, TypeOK', Safe', WantIsArchived', UNCHANGED <<archives, runVars>>,
           today <= today', doomed' \subseteq doomed,
           \A r \in Runs : pc[r] # Idle =>
               \A row \in OldRows("logs", cutoff[r])' :
                   row \in OldRows("logs", cutoff[r]) \/ Rec(row) \in Archived
    PROVE  IInv'
<1>1. /\ UNCHANGED <<file, object, used, pc, cutoff, got, name>>
      /\ Archived' = Archived
  BY DEF archives, runVars, Archived
<1>2. ArchivesFromFiles' /\ OwnFile' /\ GotIsArchived'
  BY <1>1 DEF IInv, ArchivesFromFiles, OwnFile, GotIsArchived, Content
<1>3. DoomedIsArchived'
  BY <1>1 DEF IInv, DoomedIsArchived
<1>4. NoneAdded'
  <2> SUFFICES ASSUME NEW r \in Runs, pc[r] # Idle
               PROVE  /\ cutoff[r] <= today' - Keep
                      /\ pc[r] \in {"logs"} \X Read =>
                           \A row \in OldRows("logs", cutoff[r])' :
                               Rec(row) \in Content(got[r]) \cup Archived
    BY <1>1 DEF NoneAdded, Idle, Content
  <2>1. cutoff[r] <= today - Keep
    BY DEF IInv, NoneAdded
  <2>2. today \in Int /\ today' \in Int /\ cutoff[r] \in Int
    BY DEF IInv, TypeOK
  <2>3. cutoff[r] <= today' - Keep
    BY <2>1, <2>2, Constants
  <2> QED BY <2>3 DEF IInv, NoneAdded
<1> QED BY <1>2, <1>3, <1>4 DEF IInv

LEMMA ClockStep == ASSUME IInv, TypeOK', NextDay \/ NextSecond PROVE IInv'
<1>1. UNCHANGED <<stores, archives, runVars, want>>
  BY DEF NextDay, NextSecond
<1>2. today <= today'
  <2>1. today \in Int /\ (today' = today \/ today' = today + 1)
    BY DEF NextDay, NextSecond, IInv, TypeOK
  <2> QED BY <2>1
<1>3. Safe' /\ WantIsArchived'
  BY <1>1 DEF IInv, Safe, SpansKept, LogsKept, Kept, Copies, WantIsArchived, Archived,
              stores, archives
<1>4. \A limit : OldRows("logs", limit)' = OldRows("logs", limit)
  BY <1>1 DEF OldRows, stores
<1>5. \A r \in Runs : OldRows("logs", cutoff[r])' = OldRows("logs", cutoff[r])
  BY <1>1 DEF OldRows, stores, runVars
<1> QED BY <1>1, <1>2, <1>3, <1>5, OutsideRuns DEF stores

\* No record arrives older than the cutoff of a run that has begun.
LEMMA IngestStep ==
    ASSUME MaxLate <= Keep, IInv, TypeOK', NEW x \in Records, NEW t \in 0 .. MaxDay, Ingest(x, t)
    PROVE  IInv'
<1>1. /\ UNCHANGED <<today, doomed, archives, runVars, want>>
      /\ hot' = hot \cup {<<x, 1>>} /\ ts' = [ts EXCEPT ![x] = t]
  BY DEF Ingest, clocks
<1>2. ts'[x] = t /\ \A y \in Records : y # x => ts'[y] = ts[y]
  BY <1>1 DEF IInv, TypeOK
<1>3. Rec(<<x, 1>>) = x
  BY DEF Rec
<1>4. Safe'
  <2>1. \A y \in Records : Copies(y) # {} => Copies(y)' # {}
    BY <1>1 DEF Copies
  <2>2. Copies(x)' # {}
    BY <1>1, <1>3 DEF Copies
  <2>3. Archived' = Archived
    BY <1>1 DEF Archived, archives
  <2> QED BY <1>2, <2>1, <2>2, <2>3 DEF IInv, Safe, SpansKept, LogsKept, Kept, Records
<1>5. ASSUME NEW r \in Runs, pc[r] # Idle
      PROVE  \A row \in OldRows("logs", cutoff[r])' : row \in OldRows("logs", cutoff[r])
  <2>1. cutoff[r] <= today - Keep /\ cutoff[r] \in Int /\ today \in Int
    BY <1>5 DEF IInv, NoneAdded, TypeOK
  <2>2. t \in Int /\ today - t <= MaxLate
    BY Constants DEF Ingest
  <2>3. ~(t < cutoff[r])
    BY <2>1, <2>2, Constants
  <2>4. cutoff'[r] = cutoff[r]
    BY <1>1 DEF runVars
  <2>5. ASSUME NEW row \in OldRows("logs", cutoff[r])' PROVE row \in OldRows("logs", cutoff[r])
    <3>1. row \in hot' /\ Rec(row) \in OfKind("logs") /\ ts'[Rec(row)] < cutoff[r]
      BY <2>4, <2>5 DEF OldRows, OfKind
    <3>2. Rec(row) # x
      BY <1>2, <2>3, <3>1
    <3>3. row \in hot
      BY <1>1, <1>3, <3>1, <3>2
    <3>4. Rec(row) \in Records
      BY <3>1 DEF OfKind, Records
    <3> QED BY <1>2, <3>1, <3>2, <3>3, <3>4 DEF OldRows
  <2> QED BY <2>5
<1>6. WantIsArchived' /\ today <= today'
  BY <1>1, Constants DEF IInv, WantIsArchived, Archived, archives, TypeOK
<1> QED BY <1>1, <1>4, <1>5, <1>6, OutsideRuns

LEMMA MutateStep == ASSUME IInv, TypeOK', Mutate PROVE IInv'
<1>1. /\ hot' = hot \ doomed /\ doomed' = {}
      /\ UNCHANGED <<today, ts, archives, runVars, want>>
  BY DEF Mutate, clocks
<1>2. Archived' = Archived
  BY <1>1 DEF Archived, archives
<1>3. Safe'
  BY <1>1, <1>2, SafeStep DEF IInv, DoomedIsArchived
<1>4. \A r \in Runs : OldRows("logs", cutoff[r])' \subseteq OldRows("logs", cutoff[r])
  BY <1>1 DEF OldRows, runVars
<1>5. WantIsArchived' /\ today <= today'
  BY <1>1, <1>2 DEF IInv, WantIsArchived, TypeOK
<1> QED BY <1>1, <1>3, <1>4, <1>5, OutsideRuns

\* Restored rows are of archived records.
LEMMA RestoreStep ==
    ASSUME IInv, TypeOK', NEW N, hot' = hot \cup N, \A row \in N : Rec(row) \in Archived,
           UNCHANGED <<today, ts, doomed, archives, runVars>>,
           \A h \in Hydrators : want'[h] \subseteq want[h]
    PROVE  IInv'
<1>1. Archived' = Archived
  BY DEF Archived, archives
<1>2. Safe'
  BY <1>1, SafeStep DEF IInv
<1>3. ASSUME NEW r \in Runs, NEW row \in OldRows("logs", cutoff[r])'
      PROVE  row \in OldRows("logs", cutoff[r]) \/ Rec(row) \in Archived
  BY <1>3 DEF OldRows, runVars, OfKind
<1>4. WantIsArchived' /\ today <= today'
  BY <1>1 DEF IInv, WantIsArchived, TypeOK
<1> QED BY <1>2, <1>3, <1>4, OutsideRuns

LEMMA HydrateStep ==
    ASSUME IInv, TypeOK', NEW n \in Names,
           HydrateLogs(n) \/ \E h \in Hydrators : HydrateSpans(h, n) \/ CommitSpans(h) \/ FailSpans(h)
    PROVE  IInv'
<1>1. \A x \in file[n] : x \in Archived /\ x \in Records
  BY DEF Archived, IInv, TypeOK
<1>2. CASE HydrateLogs(n)
  <2>1. PICK S \in SUBSET file[n] : hot' = hot \cup {Restored(x) : x \in S}
    BY <1>2 DEF HydrateLogs
  <2>2. PICK N : N = {Restored(x) : x \in S}
    OBVIOUS
  <2>3. \A row \in N : Rec(row) \in Archived
    BY <1>1, <1>2, <2>2, RestoredIsRow DEF HydrateLogs
  <2>4. UNCHANGED <<today, ts, doomed, archives, runVars, want>> /\ hot' = hot \cup N
    BY <1>2, <2>1, <2>2 DEF HydrateLogs, clocks
  <2> QED BY <2>3, <2>4, RestoreStep
<1>3. ASSUME NEW h \in Hydrators, HydrateSpans(h, n) PROVE IInv'
  <2>1. want' = [want EXCEPT ![h] = Missing(n)] /\ UNCHANGED <<clocks, stores, archives, runVars>>
    BY <1>3 DEF HydrateSpans
  <2>2. Archived' = Archived
    BY <2>1 DEF Archived, archives
  <2>3. WantIsArchived'
    BY <1>1, <2>1, <2>2 DEF IInv, WantIsArchived, TypeOK, Missing
  <2>4. Safe'
    BY <2>1, <2>2, SafeStep DEF IInv, stores
  <2>5. \A r \in Runs : OldRows("logs", cutoff[r])' = OldRows("logs", cutoff[r])
    BY <2>1 DEF OldRows, stores, runVars
  <2>6. today <= today'
    BY <2>1 DEF clocks, IInv, TypeOK
  <2> QED BY <2>1, <2>3, <2>4, <2>5, <2>6, OutsideRuns DEF stores
<1>4. ASSUME NEW h \in Hydrators, CommitSpans(h) PROVE IInv'
  <2>1. PICK N : N = {Restored(x) : x \in want[h]}
    OBVIOUS
  <2>2. \A x \in want[h] : x \in Archived /\ x \in Records
    BY DEF IInv, WantIsArchived, TypeOK
  <2>3. \A row \in N : Rec(row) \in Archived
    BY <1>4, <2>1, <2>2, RestoredIsRow DEF CommitSpans
  <2>4. UNCHANGED <<today, ts, doomed, archives, runVars>> /\ hot' = hot \cup N
    BY <1>4, <2>1 DEF CommitSpans, clocks
  <2>5. \A g \in Hydrators : want'[g] \subseteq want[g]
    BY <1>4 DEF CommitSpans, IInv, TypeOK
  <2> QED BY <2>3, <2>4, <2>5, RestoreStep
<1>5. ASSUME NEW h \in Hydrators, FailSpans(h) PROVE IInv'
  <2>0. PICK N : N = {}
    OBVIOUS
  <2>1. UNCHANGED <<today, ts, doomed, archives, runVars>> /\ hot' = hot \cup N
    BY <1>5, <2>0 DEF FailSpans, clocks, stores
  <2>2. \A g \in Hydrators : want'[g] \subseteq want[g]
    BY <1>5 DEF FailSpans, IInv, TypeOK
  <2>3. \A row \in N : Rec(row) \in Archived
    BY <2>0
  <2> QED BY <2>1, <2>2, <2>3, RestoreStep
<1> QED BY <1>2, <1>3, <1>4, <1>5

LEMMA HasRead ==
    ASSUME IInv, NEW r \in Runs, NEW k \in Kinds, NEW step \in Read, pc[r] = <<k, step>>
    PROVE  /\ cutoff[r] <= today - Keep
           /\ k = "logs" => \A row \in OldRows("logs", cutoff[r]) :
                                Rec(row) \in Content(got[r]) \cup Archived
<1>1. pc[r] # Idle
  BY DEF Idle, Kinds
<1>2. k = "logs" => pc[r] \in {"logs"} \X Read
  OBVIOUS
<1> QED BY <1>1, <1>2 DEF IInv, NoneAdded

\* A step of one run leaves the others' claims alone as long as archives only grow.
LEMMA InsideRun ==
    ASSUME IInv, TypeOK', NEW r \in Runs,
           \A s \in Runs : s # r => /\ pc'[s] = pc[s] /\ cutoff'[s] = cutoff[s]
                                    /\ got'[s] = got[s] /\ name'[s] = name[s],
           UNCHANGED <<clocks, ts, want>>, hot' \subseteq hot,
           ArchivesFromFiles', \A n \in Names : file[n] \subseteq file'[n], used \subseteq used',
           OwnFile', Safe',
           \A k \in Kinds, step \in {"upload", "delete"} :
               pc'[r] = <<k, step>> => Content(got'[r]) \subseteq file'[name'[r]],
           pc'[r] # Idle =>
               /\ cutoff'[r] <= today - Keep
               /\ pc'[r] \in {"logs"} \X Read =>
                    \A row \in OldRows("logs", cutoff'[r]) :
                        Rec(row) \in Content(got'[r]) \cup Archived,
           \A row \in doomed' : Rec(row) \in Archived
    PROVE  IInv'
<1>1. Archived \subseteq Archived'
  BY ArchivedGrows DEF IInv
<1>2. ASSUME NEW s \in Runs, NEW k \in Kinds, NEW step \in {"upload", "delete"},
             pc'[s] = <<k, step>>
      PROVE  Content(got'[s]) \subseteq file'[name'[s]]
  <2>1. CASE s = r
    BY <1>2, <2>1
  <2>2. CASE s # r
    <3>1. Content(got[s]) \subseteq file[name[s]] /\ name[s] \in Names
      BY <1>2, <2>2 DEF IInv, GotIsArchived, TypeOK
    <3> QED BY <2>2, <3>1
  <2> QED BY <2>1, <2>2
<1>3. GotIsArchived'
  <2>1. \A s \in Runs : Content(got[s])' = Content(got'[s])
    BY DEF Content
  <2> QED BY <1>2, <2>1 DEF GotIsArchived
<1>4. \A limit : OldRows("logs", limit)' \subseteq OldRows("logs", limit)
  BY DEF OldRows, OfKind
<1>5. ASSUME NEW s \in Runs, pc'[s] # Idle
      PROVE  /\ cutoff'[s] <= today - Keep
             /\ pc'[s] \in {"logs"} \X Read =>
                  \A row \in OldRows("logs", cutoff'[s]) :
                      Rec(row) \in Content(got'[s]) \cup Archived
  <2>1. CASE s = r
    BY <1>5, <2>1
  <2>2. CASE s # r
    BY <1>5, <2>2 DEF IInv, NoneAdded
  <2> QED BY <2>1, <2>2
<1>6. NoneAdded'
  <2>1. \A s \in Runs : OldRows("logs", cutoff[s])' \subseteq OldRows("logs", cutoff'[s])
    BY DEF OldRows, OfKind
  <2>2. \A s \in Runs : Content(got[s])' = Content(got'[s])
    BY DEF Content
  <2>3. today' = today
    BY DEF clocks
  <2> QED BY <1>1, <1>5, <2>1, <2>2, <2>3 DEF NoneAdded, Idle
<1>7. DoomedIsArchived' /\ WantIsArchived'
  BY <1>1 DEF IInv, DoomedIsArchived, WantIsArchived
<1> QED BY <1>3, <1>6, <1>7 DEF IInv

\* Steps of a run that touch no archive and leave it elsewhere than about to write.
LEMMA OffFiles ==
    ASSUME IInv, TypeOK', NEW r \in Runs,
           \A s \in Runs : s # r => /\ pc'[s] = pc[s] /\ cutoff'[s] = cutoff[s]
                                    /\ got'[s] = got[s] /\ name'[s] = name[s],
           UNCHANGED <<clocks, ts, want, archives>>, hot' \subseteq hot,
           \A k \in Kinds : pc'[r] \notin {<<k, "write">>, <<k, "upload">>, <<k, "delete">>},
           \A row \in hot : row \in hot' \/ Rec(row) \in Archived,
           pc'[r] # Idle => cutoff'[r] <= today - Keep,
           pc'[r] = <<"logs", "open">> =>
               \A row \in OldRows("logs", cutoff'[r]) : Rec(row) \in Content(got'[r]),
           \A row \in doomed' : Rec(row) \in Archived
    PROVE  IInv'
<1>1. UNCHANGED <<file, object, used>> /\ Archived' = Archived
  BY DEF archives, Archived
<1>2. ArchivesFromFiles' /\ \A n \in Names : file[n] \subseteq file'[n]
  BY <1>1 DEF IInv, ArchivesFromFiles
<1>3. OwnFile'
  <2>1. \A s \in Runs, j \in Kinds : pc'[s] = <<j, "write">> =>
            s # r /\ pc[s] = <<j, "write">> /\ name'[s] = name[s]
    OBVIOUS
  <2> QED BY <1>1, <2>1 DEF IInv, OwnFile
<1>4. Safe'
  BY <1>1, SafeStep DEF IInv
<1>5. \A k \in Kinds, step \in {"upload", "delete"} : pc'[r] # <<k, step>>
  OBVIOUS
<1>6. pc'[r] \in {"logs"} \X Read => pc'[r] = <<"logs", "open">>
  BY DEF Kinds, Read
<1>7. pc'[r] # Idle =>
          /\ cutoff'[r] <= today - Keep
          /\ pc'[r] \in {"logs"} \X Read =>
               \A row \in OldRows("logs", cutoff'[r]) :
                   Rec(row) \in Content(got'[r]) \cup Archived
  BY <1>6
<1>8. used \subseteq used' /\ UNCHANGED <<clocks, ts, want>>
  BY <1>1
<1> QED BY <1>2, <1>3, <1>4, <1>5, <1>7, <1>8, InsideRun

LEMMA StartStep == ASSUME IInv, TypeOK', NEW r \in Runs, Start(r) PROVE IInv'
<1>1. /\ pc'[r] = <<"traces", "query">> /\ cutoff'[r] = today - Keep
      /\ \A s \in Runs : s # r => /\ pc'[s] = pc[s] /\ cutoff'[s] = cutoff[s]
                                  /\ got'[s] = got[s] /\ name'[s] = name[s]
  BY DEF Start, Goto, IInv, TypeOK
<1>2. UNCHANGED <<clocks, stores, archives, want>>
  BY DEF Start
<1>3. cutoff'[r] <= today - Keep
  BY <1>1, Constants DEF IInv, TypeOK
<1> QED BY <1>1, <1>2, <1>3, OffFiles DEF stores, IInv, DoomedIsArchived

LEMMA QueryStep ==
    ASSUME IInv, TypeOK', NEW r \in Runs, NEW k \in Kinds, Query(r, k)
    PROVE  IInv'
<1>1. /\ pc[r] = <<k, "query">> /\ pc'[r] \in {<<k, "open">>, <<"logs", "query">>, Idle}
      /\ got'[r] = OldRows(k, cutoff[r]) /\ UNCHANGED <<cutoff, name>>
      /\ \A s \in Runs : s # r => pc'[s] = pc[s] /\ got'[s] = got[s]
  BY DEF Query, After, Goto, IInv, TypeOK
<1>2. UNCHANGED <<clocks, stores, archives, want>>
  BY DEF Query
<1>3. cutoff[r] <= today - Keep
  BY <1>1 DEF IInv, NoneAdded, Idle
<1>4. pc'[r] = <<"logs", "open">> =>
          \A row \in OldRows("logs", cutoff[r]) : Rec(row) \in Content(got'[r])
  BY <1>1 DEF Content, Idle
<1>5. \A j \in Kinds : pc'[r] \notin {<<j, "write">>, <<j, "upload">>, <<j, "delete">>}
  BY <1>1 DEF Idle
<1> QED BY <1>1, <1>2, <1>3, <1>4, <1>5, OffFiles DEF stores, IInv, DoomedIsArchived

LEMMA AbortStep == ASSUME IInv, TypeOK', NEW r \in Runs, Abort(r) PROVE IInv'
<1>1. /\ pc'[r] = Idle /\ UNCHANGED <<cutoff, got, name, clocks, stores, archives, want>>
      /\ \A s \in Runs : s # r => pc'[s] = pc[s]
  BY DEF Abort, IInv, TypeOK
<1>2. \A k \in Kinds : pc'[r] \notin {<<k, "write">>, <<k, "upload">>, <<k, "delete">>, <<k, "open">>}
  BY <1>1 DEF Idle
<1> QED BY <1>1, <1>2, OffFiles DEF stores, IInv, DoomedIsArchived, Kinds

\* What a run deletes, it has archived.
LEMMA DeleteSpansStep == ASSUME IInv, TypeOK', NEW r \in Runs, DeleteSpans(r) PROVE IInv'
<1>1. /\ pc[r] = <<"traces", "delete">> /\ hot' = hot \ got[r]
      /\ pc'[r] \in {<<"logs", "query">>, Idle}
      /\ UNCHANGED <<clocks, ts, doomed, archives, want, cutoff, got, name>>
      /\ \A s \in Runs : s # r => pc'[s] = pc[s]
  BY DEF DeleteSpans, SpansToDelete, After, Goto, IInv, TypeOK
<1>2. Content(got[r]) \subseteq file[name[r]] /\ name[r] \in Names
  BY <1>1 DEF IInv, GotIsArchived, TypeOK, Kinds
<1>3. \A row \in got[r] : Rec(row) \in Archived
  BY <1>2 DEF Content, Archived
<1>4. cutoff[r] <= today - Keep
  BY <1>1 DEF IInv, NoneAdded, Idle
<1>5. \A k \in Kinds : pc'[r] \notin {<<k, "write">>, <<k, "upload">>, <<k, "delete">>, <<k, "open">>}
  BY <1>1 DEF Idle
<1> QED BY <1>1, <1>3, <1>4, <1>5, OffFiles DEF IInv, DoomedIsArchived, Kinds

LEMMA DeleteLogsStep == ASSUME IInv, TypeOK', NEW r \in Runs, DeleteLogs(r) PROVE IInv'
<1>1. /\ pc[r] = <<"logs", "delete">> /\ doomed' = doomed \cup OldRows("logs", cutoff[r])
      /\ pc'[r] = Idle
      /\ UNCHANGED <<clocks, ts, hot, archives, want, cutoff, got, name>>
      /\ \A s \in Runs : s # r => pc'[s] = pc[s]
  BY DEF DeleteLogs, LogsToDelete, After, Goto, IInv, TypeOK
<1>2. Content(got[r]) \subseteq Archived
  BY <1>1 DEF IInv, GotIsArchived, TypeOK, Kinds, Archived
<1>3. \A row \in OldRows("logs", cutoff[r]) : Rec(row) \in Archived
  BY <1>1, <1>2, HasRead DEF Read, Kinds
<1>4. \A k \in Kinds : pc'[r] \notin {<<k, "write">>, <<k, "upload">>, <<k, "delete">>, <<k, "open">>}
  BY <1>1 DEF Idle
<1> QED BY <1>1, <1>3, <1>4, OffFiles DEF IInv, DoomedIsArchived, Kinds

\* A name that no archive has had: opening it empties nothing.
LEMMA OpenStep ==
    ASSUME ~SameSecond, IInv, TypeOK', NEW r \in Runs, NEW k \in Kinds, Open(r, k)
    PROVE  IInv'
<1> DEFINE n == <<k, second>>
<1>1. n \in Names
  BY NamesHaveKinds DEF IInv
<1>2. /\ pc[r] = <<k, "open">> /\ n \notin used /\ used' = used \cup {n}
      /\ file' = [file EXCEPT ![n] = {}]
      /\ UNCHANGED <<clocks, stores, object, cutoff, got, want>>
  BY DEF Open
<1>3. /\ pc'[r] = <<k, "write">> /\ name'[r] = n
      /\ \A s \in Runs : s # r => pc'[s] = pc[s] /\ name'[s] = name[s]
  BY DEF Open, Goto, IInv, TypeOK
<1>4. file[n] = {}
  BY <1>1, <1>2 DEF IInv, ArchivesFromFiles
<1>5. file' = file
  BY <1>1, <1>2, <1>4 DEF IInv, TypeOK
<1>6. ArchivesFromFiles' /\ \A m \in Names : file[m] \subseteq file'[m]
  BY <1>2, <1>5 DEF IInv, ArchivesFromFiles
<1>7. OwnFile'
  <2>1. \A s \in Runs, j \in Kinds : s # r /\ pc[s] = <<j, "write">> => name[s] # n
    BY <1>2 DEF IInv, OwnFile
  <2> QED BY <1>2, <1>3, <1>4, <1>5, <2>1 DEF IInv, OwnFile
<1>8. Safe'
  BY <1>2, <1>5, SafeStep DEF IInv, stores, Archived
<1>9. cutoff[r] <= today - Keep
      /\ (k = "logs" => \A row \in OldRows("logs", cutoff[r]) :
                            Rec(row) \in Content(got[r]) \cup Archived)
  BY <1>2, HasRead DEF Read
<1>10. \A row \in doomed' : Rec(row) \in Archived
  BY <1>2 DEF stores, IInv, DoomedIsArchived
<1>11. pc'[r] \in {"logs"} \X Read => k = "logs"
  BY <1>3
<1> HIDE DEF n
<1> QED BY <1>2, <1>3, <1>6, <1>7, <1>8, <1>9, <1>10, <1>11, InsideRun DEF stores

LEMMA WriteStep ==
    ASSUME IInv, TypeOK', NEW r \in Runs, NEW k \in Kinds, Write(r, k)
    PROVE  IInv'
<1> DEFINE n == name[r]
<1>1. /\ pc[r] = <<k, "write">> /\ n \in used /\ n \in Names /\ file[n] = {}
      /\ \A s \in Runs, j \in Kinds : s # r /\ pc[s] = <<j, "write">> => name[s] # n
  BY DEF Write, IInv, OwnFile, TypeOK
<1>2. file' = [file EXCEPT ![n] = Content(got[r])]
      /\ UNCHANGED <<clocks, stores, object, used, cutoff, got, name, want>>
  BY DEF Write
<1>3. pc'[r] = <<k, "upload">> /\ \A s \in Runs : s # r => pc'[s] = pc[s]
  BY DEF Write, Goto, IInv, TypeOK
<1>4. file'[n] = Content(got[r]) /\ \A m \in Names : m # n => file'[m] = file[m]
  BY <1>1, <1>2 DEF IInv, TypeOK
<1>5. \A m \in Names : file[m] \subseteq file'[m]
  BY <1>1, <1>4
<1>6. ArchivesFromFiles'
  BY <1>1, <1>2, <1>4, <1>5 DEF IInv, ArchivesFromFiles
<1>7. OwnFile'
  <2> SUFFICES ASSUME NEW s \in Runs, NEW j \in Kinds, pc'[s] = <<j, "write">>
               PROVE  /\ name[s] \in used /\ file'[name[s]] = {}
                      /\ \A q \in Runs, i \in Kinds :
                             q # s /\ pc'[q] = <<i, "write">> => name[q] # name[s]
    BY <1>2 DEF OwnFile
  <2>1. s # r /\ pc[s] = <<j, "write">>
    BY <1>3
  <2>2. name[s] \in used /\ file[name[s]] = {} /\ name[s] # n /\ name[s] \in Names
    BY <1>1, <2>1 DEF IInv, OwnFile, TypeOK
  <2>3. \A q \in Runs, i \in Kinds : q # s /\ pc[q] = <<i, "write">> => name[q] # name[s]
    BY <2>1 DEF IInv, OwnFile
  <2>4. \A q \in Runs, i \in Kinds : pc'[q] = <<i, "write">> => pc[q] = <<i, "write">>
    BY <1>3
  <2> QED BY <1>4, <2>2, <2>3, <2>4
<1>8. Safe'
  <2>1. Archived \subseteq Archived'
    BY <1>5, <1>6, ArchivedGrows DEF IInv
  <2> QED BY <1>2, <2>1, SafeStep DEF IInv, stores
<1>9. cutoff[r] <= today - Keep
      /\ (k = "logs" => \A row \in OldRows("logs", cutoff[r]) :
                            Rec(row) \in Content(got[r]) \cup Archived)
  BY <1>1, HasRead DEF Read
<1>10. \A row \in doomed' : Rec(row) \in Archived
  BY <1>2 DEF stores, IInv, DoomedIsArchived
<1>11. pc'[r] \in {"logs"} \X Read => k = "logs"
  BY <1>3
<1> QED BY <1>2, <1>3, <1>4, <1>5, <1>6, <1>7, <1>8, <1>9, <1>10, <1>11, InsideRun DEF stores

LEMMA UploadStep ==
    ASSUME IInv, TypeOK', NEW r \in Runs, NEW k \in Kinds, Upload(r, k)
    PROVE  IInv'
<1>1. /\ pc[r] = <<k, "upload">> /\ name[r] \in Names
      /\ Content(got[r]) \subseteq file[name[r]]
  BY DEF Upload, IInv, GotIsArchived, TypeOK
<1>2. UNCHANGED <<clocks, stores, file, used, cutoff, got, name, want>>
  BY DEF Upload
<1>3. pc'[r] = <<k, "delete">> /\ \A s \in Runs : s # r => pc'[s] = pc[s]
  BY DEF Upload, Goto, IInv, TypeOK
<1>4. \A m \in Names : object'[m] \subseteq file[m]
  <2>1. \A m \in Names : object'[m] \in {object[m], file[m]}
    BY <1>1 DEF Upload, IInv, TypeOK
  <2> QED BY <2>1 DEF IInv, ArchivesFromFiles
<1>5. ArchivesFromFiles' /\ \A m \in Names : file[m] \subseteq file'[m]
  BY <1>2, <1>4 DEF IInv, ArchivesFromFiles
<1>6. OwnFile'
  BY <1>2, <1>3 DEF IInv, OwnFile
<1>7. Safe'
  <2>1. Archived \subseteq Archived'
    BY <1>5, ArchivedGrows DEF IInv
  <2> QED BY <1>2, <2>1, SafeStep DEF IInv, stores
<1>8. cutoff[r] <= today - Keep
      /\ (k = "logs" => \A row \in OldRows("logs", cutoff[r]) :
                            Rec(row) \in Content(got[r]) \cup Archived)
  BY <1>1, HasRead DEF Read
<1>9. \A row \in doomed' : Rec(row) \in Archived
  BY <1>2 DEF stores, IInv, DoomedIsArchived
<1>10. pc'[r] \in {"logs"} \X Read => k = "logs"
  BY <1>3
<1> QED BY <1>1, <1>2, <1>3, <1>5, <1>6, <1>7, <1>8, <1>9, <1>10, InsideRun DEF stores

LEMMA Inductive ==
    ASSUME ~SameSecond, MaxLate <= Keep
    PROVE  IInv /\ [Next]_vars => IInv'
<1> SUFFICES ASSUME IInv, [Next]_vars PROVE IInv'
  OBVIOUS
<1>1. TypeOK'
  BY TypeStep DEF IInv
<1>2. CASE UNCHANGED vars
  <2>1. UNCHANGED <<clocks, stores, archives, runVars, want>>
    BY <1>2 DEF vars
  <2>2. \A r \in Runs : OldRows("logs", cutoff[r])' = OldRows("logs", cutoff[r])
    BY <2>1 DEF OldRows, stores, runVars
  <2>3. Safe' /\ WantIsArchived'
    BY <2>1 DEF IInv, Safe, SpansKept, LogsKept, Kept, Copies, WantIsArchived, Archived,
                stores, archives
  <2>4. today <= today'
    BY <2>1 DEF clocks, IInv, TypeOK
  <2> QED BY <1>1, <2>1, <2>2, <2>3, <2>4, OutsideRuns DEF stores
<1>3. ASSUME NEW r \in Runs, Archive(r) PROVE IInv'
  BY <1>1, <1>3, StartStep, QueryStep, OpenStep, WriteStep, UploadStep, DeleteSpansStep,
     DeleteLogsStep, AbortStep DEF Archive
<1>4. CASE \E h \in Hydrators : CommitSpans(h) \/ FailSpans(h)
  <2>1. <<"traces", second>> \in Names
    BY NamesHaveKinds DEF IInv, Kinds
  <2> QED BY <1>1, <1>4, <2>1, HydrateStep
<1>5. CASE \E n \in Names : HydrateLogs(n) \/ \E h \in Hydrators : HydrateSpans(h, n)
  BY <1>1, <1>5, HydrateStep
<1> QED BY <1>1, <1>2, <1>3, <1>4, <1>5, ClockStep, IngestStep, MutateStep DEF Next

-----------------------------------------------------------------------------
\* Every span that has been ingested is in the database or in an archive, whatever
\* runs, hydrations, exceptions and crashes interleave.
THEOREM NoSpanIsLost == ASSUME ~SameSecond, MaxLate <= Keep PROVE Spec => []SpansKept
<1>1. IInv => SpansKept
  BY DEF IInv, Safe
<1> QED BY <1>1, InitHolds, Inductive, PTL DEF Spec

\* Every log that has been ingested is in ClickHouse or in an archive, although logs
\* are deleted by a condition, and by a mutation that is applied later.
THEOREM NoLogIsLost == ASSUME ~SameSecond, MaxLate <= Keep PROVE Spec => []LogsKept
<1>1. IInv => LogsKept
  BY DEF IInv, Safe
<1> QED BY <1>1, InitHolds, Inductive, PTL DEF Spec

-----------------------------------------------------------------------------
(***************************************************************************)
(* What is deleted is old, and is restored once.  Neither needs the two    *)
(* assumptions above; both need that a record keeps the timestamp it was   *)
(* ingested with, wherever it is meanwhile.                                *)
(***************************************************************************)

\* Whatever is stored, read, archived or wanted has been ingested.
Dated ==
    /\ \A row \in hot : ts[Rec(row)] # -1
    /\ \A r \in Runs : \A row \in got[r] : ts[Rec(row)] # -1
    /\ \A n \in Names : \A x \in file[n] : ts[x] # -1
    /\ \A h \in Hydrators : \A x \in want[h] : ts[x] # -1

\* The rows to be deleted are older than archive_days, those a run has read older
\* than its cutoff.
Expired ==
    /\ \A row \in doomed : ts[Rec(row)] # -1 /\ ts[Rec(row)] < today - Keep
    /\ \A r \in Runs : pc[r] # Idle => cutoff[r] <= today - Keep
    /\ \A r \in Runs, k \in Kinds, step \in Read : pc[r] = <<k, step>> =>
         \A row \in got[r] : Rec(row) \in OfKind(k) /\ ts[Rec(row)] < cutoff[r]

\* An archive of spans holds spans, one of logs holds logs.
OwnKind ==
    /\ \A n \in Names : file[n] \subseteq OfKind(n[1])
    /\ \A r \in Runs, k \in Kinds, step \in {"write", "upload", "delete"} :
         pc[r] = <<k, step>> => name[r][1] = k

DInv == TypeOK /\ Dated /\ Expired /\ OwnKind

LEMMA DatedInit == Init => DInv
<1> SUFFICES ASSUME Init PROVE DInv
  OBVIOUS
<1>1. TypeOK
  BY InitHolds DEF IInv
<1>2. \A r \in Runs : pc[r] = <<"none", "idle">>
  BY DEF Init, Idle
<1>3. Dated /\ Expired /\ OwnKind
  BY <1>2 DEF Init, Dated, Expired, OwnKind, Idle, Kinds, Read
<1> QED BY <1>1, <1>3 DEF DInv

LEMMA StaysExpired ==
    ASSUME NEW d \in Int, NEW day \in Int, NEW later \in Int, day <= later
    PROVE  (d <= day - Keep => d <= later - Keep) /\ (d < day - Keep => d < later - Keep)
BY Constants

\* A step that changes no run and no archive, and dates no record again.
LEMMA DatedOutside ==
    ASSUME DInv, TypeOK', UNCHANGED <<archives, runVars>>, today <= today',
           \A x \in Records : ts[x] # -1 => ts'[x] = ts[x],
           \A row \in hot' : row \in hot \/ ts'[Rec(row)] # -1,
           doomed' \subseteq doomed,
           \A h \in Hydrators : \A x \in want'[h] : x \in Records /\ ts[x] # -1
    PROVE  DInv'
<1>1. UNCHANGED <<file, pc, cutoff, got, name>>
  BY DEF archives, runVars
<1>2. /\ \A row \in hot : Rec(row) \in Records
      /\ \A row \in doomed : Rec(row) \in Records
      /\ \A r \in Runs : \A row \in got[r] : Rec(row) \in Records
      /\ \A n \in Names : \A x \in file[n] : x \in Records
  BY DEF DInv, TypeOK, Rows, Rec
<1>3. Dated'
  BY <1>1, <1>2 DEF DInv, Dated
<1>4. \A d \in Int : d <= today - Keep => d <= today' - Keep
  <2>1. today \in Int /\ today' \in Int
    BY DEF DInv, TypeOK
  <2> QED BY <2>1, StaysExpired
<1>5. \A row \in doomed : ts[Rec(row)] < today - Keep => ts[Rec(row)] < today' - Keep
  <2> SUFFICES ASSUME NEW row \in doomed, ts[Rec(row)] < today - Keep
               PROVE  ts[Rec(row)] < today' - Keep
    OBVIOUS
  <2>1. ts[Rec(row)] \in Int /\ today \in Int /\ today' \in Int
    BY <1>2 DEF DInv, TypeOK
  <2> QED BY <2>1, StaysExpired
<1>6. \A r \in Runs : cutoff[r] \in Int
  BY DEF DInv, TypeOK
<1>7. \A row \in doomed' : ts'[Rec(row)] # -1 /\ ts'[Rec(row)] < today' - Keep
  BY <1>2, <1>5 DEF DInv, Expired
<1>8. \A r \in Runs, k \in Kinds, step \in Read : pc[r] = <<k, step>> =>
          \A row \in got[r] : Rec(row) \in OfKind(k) /\ ts'[Rec(row)] < cutoff[r]
  BY <1>2 DEF DInv, Dated, Expired
<1>9. Expired'
  BY <1>1, <1>4, <1>6, <1>7, <1>8 DEF DInv, Expired, Idle, OfKind
<1>10. OwnKind'
  BY <1>1 DEF DInv, OwnKind, OfKind
<1> QED BY <1>3, <1>9, <1>10 DEF DInv

LEMMA DatedClock ==
    ASSUME DInv, TypeOK', NextDay \/ NextSecond \/ Mutate \/ UNCHANGED vars PROVE DInv'
<1>1. /\ UNCHANGED <<ts, archives, runVars, want>>
      /\ hot' \subseteq hot /\ doomed' \subseteq doomed
      /\ today' = today \/ today' = today + 1
  BY DEF NextDay, NextSecond, Mutate, vars, clocks, stores
<1>2. today <= today'
  BY <1>1 DEF DInv, TypeOK
<1>3. \A h \in Hydrators : \A x \in want'[h] : x \in Records /\ ts[x] # -1
  BY <1>1 DEF DInv, Dated, TypeOK
<1> QED BY <1>1, <1>2, <1>3, DatedOutside

LEMMA DatedIngest ==
    ASSUME DInv, TypeOK', NEW x \in Records, NEW t \in 0 .. MaxDay, Ingest(x, t)
    PROVE  DInv'
<1>1. /\ ts[x] = -1 /\ ts' = [ts EXCEPT ![x] = t] /\ hot' = hot \cup {<<x, 1>>}
      /\ UNCHANGED <<today, doomed, archives, runVars, want>>
  BY DEF Ingest, clocks
<1>2. ts'[x] # -1 /\ \A y \in Records : y # x => ts'[y] = ts[y]
  BY <1>1, Constants DEF DInv, TypeOK
<1>3. \A row \in hot' : row \in hot \/ ts'[Rec(row)] # -1
  BY <1>1, <1>2 DEF Rec
<1>4. \A h \in Hydrators : \A y \in want'[h] : y \in Records /\ ts[y] # -1
  BY <1>1 DEF DInv, Dated, TypeOK
<1>5. today <= today'
  BY <1>1 DEF DInv, TypeOK
<1> QED BY <1>1, <1>2, <1>3, <1>4, <1>5, DatedOutside

LEMMA DatedHydrate ==
    ASSUME DInv, TypeOK', NEW n \in Names,
           HydrateLogs(n) \/ \E h \in Hydrators : HydrateSpans(h, n) \/ CommitSpans(h) \/ FailSpans(h)
    PROVE  DInv'
<1>1. /\ UNCHANGED <<today, ts, doomed, archives, runVars>>
  BY DEF HydrateLogs, HydrateSpans, CommitSpans, FailSpans, clocks, stores
<1>2. /\ \A x \in file[n] : x \in Records /\ ts[x] # -1
      /\ \A h \in Hydrators : \A x \in want[h] : x \in Records /\ ts[x] # -1
  BY DEF DInv, TypeOK, Dated
<1>3. ASSUME NEW S, \A x \in S : x \in Records /\ ts[x] # -1 /\ Room(x) # {},
             hot' = hot \cup {Restored(x) : x \in S}
      PROVE  \A row \in hot' : row \in hot \/ ts'[Rec(row)] # -1
  BY <1>1, <1>3, RestoredIsRow
<1>4. \A row \in hot' : row \in hot \/ ts'[Rec(row)] # -1
  <2>1. CASE HydrateLogs(n)
    <3>1. PICK S \in SUBSET file[n] : hot' = hot \cup {Restored(x) : x \in S}
      BY <2>1 DEF HydrateLogs
    <3>2. \A x \in S : x \in Records /\ ts[x] # -1 /\ Room(x) # {}
      BY <1>2, <2>1, <3>1 DEF HydrateLogs
    <3> QED BY <1>3, <3>1, <3>2
  <2>2. ASSUME NEW h \in Hydrators, CommitSpans(h)
        PROVE  \A row \in hot' : row \in hot \/ ts'[Rec(row)] # -1
    BY <1>2, <1>3, <2>2 DEF CommitSpans
  <2>3. CASE \E h \in Hydrators : HydrateSpans(h, n) \/ FailSpans(h)
    BY <2>3 DEF HydrateSpans, FailSpans, stores
  <2> QED BY <2>1, <2>2, <2>3
<1>5. \A h \in Hydrators : want'[h] \subseteq want[h] \cup file[n]
  <2>1. CASE HydrateLogs(n)
    BY <2>1 DEF HydrateLogs
  <2>2. ASSUME NEW g \in Hydrators, HydrateSpans(g, n)
        PROVE  \A h \in Hydrators : want'[h] \subseteq want[h] \cup file[n]
    BY <2>2 DEF HydrateSpans, Missing, DInv, TypeOK
  <2>3. ASSUME NEW g \in Hydrators, CommitSpans(g) \/ FailSpans(g)
        PROVE  \A h \in Hydrators : want'[h] \subseteq want[h] \cup file[n]
    BY <2>3 DEF CommitSpans, FailSpans, DInv, TypeOK
  <2> QED BY <2>1, <2>2, <2>3
<1>6. today <= today'
  BY <1>1 DEF DInv, TypeOK
<1> QED BY <1>1, <1>2, <1>4, <1>5, <1>6, DatedOutside

\* A step of run r, with what it leaves in its store, its archive and its reading.
LEMMA DatedInside ==
    ASSUME DInv, TypeOK', NEW r \in Runs,
           \A s \in Runs : s # r => /\ pc'[s] = pc[s] /\ cutoff'[s] = cutoff[s]
                                    /\ got'[s] = got[s] /\ name'[s] = name[s],
           UNCHANGED <<today, ts, want>>, hot' \subseteq hot,
           \A n \in Names : \A x \in file'[n] : x \in OfKind(n[1]) /\ ts[x] # -1,
           \A row \in doomed' :
               row \in doomed \/ (ts[Rec(row)] # -1 /\ ts[Rec(row)] < today - Keep),
           pc'[r] # Idle => cutoff'[r] <= today - Keep,
           \A row \in got'[r] : ts[Rec(row)] # -1,
           \A k \in Kinds, step \in Read : pc'[r] = <<k, step>> =>
               \A row \in got'[r] : Rec(row) \in OfKind(k) /\ ts[Rec(row)] < cutoff'[r],
           \A k \in Kinds, step \in {"write", "upload", "delete"} :
               pc'[r] = <<k, step>> => name'[r][1] = k
    PROVE  DInv'
<1>1. Dated'
  <2>1. \A s \in Runs : \A row \in got'[s] : ts[Rec(row)] # -1
    BY DEF DInv, Dated
  <2> QED BY <2>1 DEF DInv, Dated
<1>2. Expired'
  <2>1. \A row \in doomed' : ts[Rec(row)] # -1 /\ ts[Rec(row)] < today - Keep
    BY DEF DInv, Expired
  <2>2. \A s \in Runs : pc'[s] # Idle => cutoff'[s] <= today - Keep
    BY DEF DInv, Expired
  <2>3. \A s \in Runs, k \in Kinds, step \in Read : pc'[s] = <<k, step>> =>
            \A row \in got'[s] : Rec(row) \in OfKind(k) /\ ts[Rec(row)] < cutoff'[s]
    BY DEF DInv, Expired
  <2> QED BY <2>1, <2>2, <2>3 DEF Expired, Idle, OfKind
<1>3. OwnKind'
  <2>1. \A s \in Runs, k \in Kinds, step \in {"write", "upload", "delete"} :
            pc'[s] = <<k, step>> => name'[s][1] = k
    BY DEF DInv, OwnKind
  <2> QED BY <2>1 DEF OwnKind, OfKind
<1> QED BY <1>1, <1>2, <1>3 DEF DInv

\* Steps that write no archive: got keeps its old rows.
LEMMA DatedArchive == ASSUME DInv, TypeOK', NEW r \in Runs, Archive(r) PROVE DInv'
<1> USE DEF Goto, Kinds, Read
<1>1. /\ UNCHANGED <<today, ts, want>> /\ hot' \subseteq hot
      /\ \A s \in Runs : s # r => /\ pc'[s] = pc[s] /\ cutoff'[s] = cutoff[s]
                                  /\ got'[s] = got[s] /\ name'[s] = name[s]
  BY DEF Archive, Start, DeleteSpans, DeleteLogs, Abort, Query, Open, Write, Upload, After,
         DInv, TypeOK, clocks, stores, runVars
<1>2. \A n \in Names : \A x \in file[n] : x \in OfKind(n[1]) /\ ts[x] # -1
  BY DEF DInv, Dated, OwnKind
<1>3. /\ pc[r] # Idle => cutoff[r] <= today - Keep
      /\ \A row \in got[r] : ts[Rec(row)] # -1
  BY DEF DInv, Dated, Expired
<1>4. CASE Start(r)
  <2>1. /\ pc'[r] = <<"traces", "query">> /\ cutoff'[r] = today - Keep
        /\ UNCHANGED <<file, doomed, got>>
    BY <1>4 DEF Start, stores, archives, DInv, TypeOK
  <2>2. cutoff'[r] <= today - Keep
    BY <2>1, Constants DEF DInv, TypeOK
  <2> QED BY <1>1, <1>2, <1>3, <2>1, <2>2, DatedInside
<1>5. CASE Abort(r)
  <2>1. pc'[r] = <<"none", "idle">> /\ UNCHANGED <<file, doomed, got>>
    BY <1>5 DEF Abort, stores, archives, DInv, TypeOK, Idle
  <2> QED BY <1>1, <1>2, <1>3, <2>1, DatedInside DEF Idle
<1>6. CASE DeleteSpans(r)
  <2>1. /\ pc'[r] \in {<<"logs", "query">>, Idle} /\ pc[r] # Idle
        /\ UNCHANGED <<file, doomed, got, cutoff>>
    BY <1>6 DEF DeleteSpans, After, stores, archives, DInv, TypeOK, Idle
  <2> QED BY <1>1, <1>2, <1>3, <2>1, DatedInside DEF Idle
<1>7. CASE DeleteLogs(r)
  <2>1. /\ pc'[r] = Idle /\ pc[r] # Idle /\ UNCHANGED <<file, got, cutoff>>
        /\ doomed' = doomed \cup OldRows("logs", cutoff[r])
    BY <1>7 DEF DeleteLogs, LogsToDelete, After, stores, archives, DInv, TypeOK, Idle
  <2>2. \A row \in OldRows("logs", cutoff[r]) : ts[Rec(row)] # -1 /\ ts[Rec(row)] < today - Keep
    <3> SUFFICES ASSUME NEW row \in OldRows("logs", cutoff[r])
                 PROVE  ts[Rec(row)] # -1 /\ ts[Rec(row)] < today - Keep
      OBVIOUS
    <3>1. row \in hot /\ ts[Rec(row)] < cutoff[r]
      BY DEF OldRows
    <3>2. ts[Rec(row)] # -1 /\ Rec(row) \in Records
      BY <3>1 DEF DInv, Dated, TypeOK, Rows, Rec
    <3>3. ts[Rec(row)] \in Int /\ cutoff[r] \in Int /\ today \in Int
      BY <3>2 DEF DInv, TypeOK
    <3> QED BY <1>3, <2>1, <3>1, <3>2, <3>3, Constants
  <2> QED BY <1>1, <1>2, <1>3, <2>1, <2>2, DatedInside DEF Idle
<1>8. ASSUME NEW k \in {"traces", "logs"}, Query(r, k) PROVE DInv'
  <2>1. /\ pc'[r] \in {<<k, "open">>, <<"logs", "query">>, Idle} /\ pc[r] # Idle
        /\ UNCHANGED <<file, doomed, cutoff>> /\ got'[r] = OldRows(k, cutoff[r])
    BY <1>8 DEF Query, After, stores, archives, DInv, TypeOK, Idle
  <2>2. \A row \in got'[r] :
            ts[Rec(row)] # -1 /\ Rec(row) \in OfKind(k) /\ ts[Rec(row)] < cutoff[r]
    BY <2>1 DEF OldRows, DInv, Dated
  <2> QED BY <1>1, <1>2, <1>3, <2>1, <2>2, DatedInside DEF Idle
<1>9. ASSUME NEW k \in {"traces", "logs"}, Open(r, k) \/ Write(r, k) \/ Upload(r, k)
      PROVE  DInv'
  <2>1. /\ \E step \in Read : pc[r] = <<k, step>>
        /\ \E step \in Read : pc'[r] = <<k, step>>
        /\ UNCHANGED <<doomed, cutoff, got>>
        /\ name'[r][1] = k
    BY <1>9 DEF Open, Write, Upload, stores, DInv, TypeOK, OwnKind
  <2>2. \A row \in got[r] : Rec(row) \in OfKind(k) /\ ts[Rec(row)] < cutoff[r]
    BY <2>1 DEF DInv, Expired
  <2>3. \A n \in Names : \A x \in file'[n] : x \in OfKind(n[1]) /\ ts[x] # -1
    <3>1. CASE Open(r, k)
      BY <1>2, <3>1 DEF Open, DInv, TypeOK
    <3>2. CASE Write(r, k)
      <4>1. name[r][1] = k /\ file' = [file EXCEPT ![name[r]] = Content(got[r])]
        BY <3>2 DEF Write, DInv, OwnKind
      <4>2. \A x \in Content(got[r]) : x \in OfKind(k) /\ ts[x] # -1
        BY <1>3, <2>2 DEF Content
      <4> QED BY <1>2, <4>1, <4>2 DEF DInv, TypeOK
    <3>3. CASE Upload(r, k)
      BY <1>2, <3>3 DEF Upload
    <3> QED BY <1>9, <3>1, <3>2, <3>3
  <2>4. pc[r] # Idle
    BY <2>1 DEF Idle
  <2>5. \A j \in {"traces", "logs"}, step \in Read : pc'[r] = <<j, step>> => j = k
    BY <2>1
  <2> QED BY <1>1, <1>3, <2>1, <2>2, <2>3, <2>4, <2>5, DatedInside
<1> QED BY <1>4, <1>5, <1>6, <1>7, <1>8, <1>9 DEF Archive

LEMMA DatedStep == DInv /\ [Next]_vars => DInv'
<1> SUFFICES ASSUME DInv, [Next]_vars PROVE DInv'
  OBVIOUS
<1>1. TypeOK'
  BY TypeStep DEF DInv
<1>2. CASE \E h \in Hydrators : CommitSpans(h) \/ FailSpans(h)
  <2>1. <<"traces", second>> \in Names
    BY NamesHaveKinds DEF DInv, Kinds
  <2> QED BY <1>1, <1>2, <2>1, DatedHydrate
<1> QED BY <1>1, <1>2, DatedClock, DatedIngest, DatedArchive, DatedHydrate DEF Next

\* Only rows older than archive_days are ever deleted, although a run deletes by the
\* cutoff it began with, and ClickHouse when it gets to it.
THEOREM OnlyOldIsDeleted == Spec => RecentKept
<1>1. DInv /\ [Next]_vars => [\A row \in hot \ hot' : ts[Rec(row)] < today - Keep]_vars
  <2> SUFFICES ASSUME DInv, Next, NEW row \in hot, row \notin hot'
               PROVE  ts[Rec(row)] < today - Keep
    OBVIOUS
  <2>1. CASE Mutate
    BY <2>1 DEF Mutate, DInv, Expired
  <2>2. ASSUME NEW r \in Runs, DeleteSpans(r) PROVE ts[Rec(row)] < today - Keep
    <3>1. pc[r] = <<"traces", "delete">> /\ row \in got[r]
      BY <2>2 DEF DeleteSpans, SpansToDelete
    <3>2. ts[Rec(row)] < cutoff[r] /\ cutoff[r] <= today - Keep
      BY <3>1 DEF DInv, Expired, Kinds, Read, Idle
    <3>3. ts[Rec(row)] \in Int /\ cutoff[r] \in Int /\ today \in Int
      BY DEF DInv, TypeOK, Rows, Rec
    <3> QED BY <3>2, <3>3, Constants
  <2>3. hot' # hot
    OBVIOUS
  <2> QED
    BY <2>1, <2>2, <2>3
    DEF Next, Archive, NextDay, NextSecond, Ingest, Start, Query, Open, Write, Upload, DeleteLogs,
        Abort, HydrateSpans, CommitSpans, FailSpans, HydrateLogs, stores
<1> QED BY <1>1, DatedInit, DatedStep, PTL DEF Spec, RecentKept

\* What a hydration has found missing stays missing until it is restored, if no
\* other hydration is under way.
WantIsGone == \A h \in Hydrators : want[h] \subseteq Spans /\ \A x \in want[h] : Copies(x) = {}

OInv == DInv /\ WantIsGone /\ SpanRestoredOnce

LEMMA OnceLost ==
    ASSUME WantIsGone, SpanRestoredOnce, \A x \in Spans : Copies(x)' \subseteq Copies(x),
           \A h \in Hydrators : want'[h] \subseteq want[h]
    PROVE  WantIsGone' /\ SpanRestoredOnce'
BY DEF WantIsGone, SpanRestoredOnce

\* The one hydration puts back what has no row, once.
LEMMA OnceRestored ==
    ASSUME OInv, TypeOK', NEW h \in Hydrators, \A g \in Hydrators : g = h, CommitSpans(h)
    PROVE  WantIsGone' /\ SpanRestoredOnce'
<1>1. /\ hot' = hot \cup {Restored(x) : x \in want[h]}
      /\ \A x \in want[h] : Room(x) # {}
      /\ \A g \in Hydrators : want'[g] = {}
  BY DEF CommitSpans, OInv, DInv, TypeOK
<1>2. \A x \in want[h] : x \in Records /\ Copies(x) = {}
  BY DEF OInv, WantIsGone, DInv, TypeOK
<1>3. \A x \in want[h] : Rec(Restored(x)) = x
  BY <1>1, <1>2, RestoredIsRow
<1>4. WantIsGone'
  BY <1>1 DEF WantIsGone
<1>5. ASSUME NEW x \in Spans, NEW row \in Copies(x)', NEW other \in Copies(x)'
      PROVE  row = other
  <2>1. /\ Rec(row) = x /\ (row \in hot \/ \E y \in want[h] : row = Restored(y))
        /\ Rec(other) = x /\ (other \in hot \/ \E y \in want[h] : other = Restored(y))
    BY <1>1, <1>5 DEF Copies
  <2>2. CASE x \in want[h]
    <3>1. row \notin hot /\ other \notin hot
      BY <1>2, <2>1, <2>2 DEF Copies
    <3> QED BY <1>3, <2>1, <3>1
  <2>3. CASE x \notin want[h]
    <3>1. row \in Copies(x) /\ other \in Copies(x)
      BY <1>3, <2>1, <2>3 DEF Copies
    <3> QED BY <3>1 DEF OInv, SpanRestoredOnce
  <2> QED BY <2>2, <2>3
<1>6. SpanRestoredOnce'
  BY <1>5 DEF SpanRestoredOnce
<1> QED BY <1>4, <1>6

LEMMA OnceStep ==
    ASSUME \A g, h \in Hydrators : g = h
    PROVE  OInv /\ [Next]_vars => OInv'
<1> SUFFICES ASSUME OInv, [Next]_vars PROVE OInv'
  OBVIOUS
<1>1. DInv' /\ TypeOK'
  BY DatedStep DEF OInv, DInv
<1>2. CASE hot' \subseteq hot /\ UNCHANGED want
  <2>1. \A x \in Spans : Copies(x)' \subseteq Copies(x)
    BY <1>2 DEF Copies
  <2> QED BY <1>1, <1>2, <2>1, OnceLost DEF OInv
<1>3. ASSUME NEW y \in Records, NEW t \in 0 .. MaxDay, Ingest(y, t) PROVE OInv'
  <2>1. /\ ts[y] = -1 /\ hot' = hot \cup {<<y, 1>>} /\ UNCHANGED want
    BY <1>3 DEF Ingest
  <2>2. Copies(y) = {} /\ \A h \in Hydrators : y \notin want[h]
    BY <2>1 DEF OInv, DInv, Dated, Copies
  <2>3. \A x \in Spans : x # y => Copies(x)' = Copies(x)
    BY <2>1 DEF Copies, Rec
  <2>4. Copies(y)' \subseteq {<<y, 1>>}
    BY <2>1, <2>2 DEF Copies
  <2>5. WantIsGone'
    BY <2>1, <2>2, <2>3 DEF OInv, WantIsGone
  <2>6. SpanRestoredOnce'
    BY <2>3, <2>4 DEF OInv, SpanRestoredOnce
  <2> QED BY <1>1, <2>5, <2>6 DEF OInv
<1>4. ASSUME NEW h \in Hydrators, NEW n \in Names, HydrateSpans(h, n) PROVE OInv'
  <2>1. /\ n[1] = "traces" /\ UNCHANGED hot /\ \A g \in Hydrators : want'[g] = Missing(n)
    BY <1>4 DEF HydrateSpans, stores, OInv, DInv, TypeOK
  <2>2. \A x : Copies(x)' = Copies(x)
    BY <2>1 DEF Copies
  <2>3. Missing(n) \subseteq Spans /\ \A x \in Missing(n) : Copies(x) = {}
    BY <2>1 DEF Missing, OInv, DInv, OwnKind, OfKind
  <2>4. WantIsGone' /\ SpanRestoredOnce'
    BY <2>1, <2>2, <2>3 DEF OInv, WantIsGone, SpanRestoredOnce
  <2> QED BY <1>1, <2>4 DEF OInv
<1>5. ASSUME NEW h \in Hydrators, FailSpans(h) PROVE OInv'
  <2>1. UNCHANGED hot /\ \A g \in Hydrators : want'[g] \subseteq want[g]
    BY <1>5 DEF FailSpans, stores, OInv, DInv, TypeOK
  <2>2. \A x \in Spans : Copies(x)' \subseteq Copies(x)
    BY <2>1 DEF Copies
  <2> QED BY <1>1, <2>1, <2>2, OnceLost DEF OInv
<1>6. ASSUME NEW n \in Names, HydrateLogs(n) PROVE OInv'
  <2>1. PICK S \in SUBSET file[n] : hot' = hot \cup {Restored(x) : x \in S}
    BY <1>6 DEF HydrateLogs
  <2>2. n[1] = "logs" /\ UNCHANGED want /\ \A x \in file[n] : Room(x) # {}
    BY <1>6 DEF HydrateLogs
  <2>3. file[n] \subseteq Logs
    BY <2>2 DEF OInv, DInv, OwnKind, OfKind
  <2>4. \A x \in S : Rec(Restored(x)) = x /\ x \notin Spans
    BY <2>1, <2>2, <2>3, RestoredIsRow, Constants DEF Records
  <2>5. \A x \in Spans : Copies(x)' \subseteq Copies(x)
    BY <2>1, <2>4 DEF Copies
  <2> QED BY <1>1, <2>2, <2>5, OnceLost DEF OInv
<1>7. ASSUME NEW h \in Hydrators, CommitSpans(h) PROVE OInv'
  BY <1>1, <1>7, OnceRestored DEF OInv
<1>8. CASE NextDay \/ NextSecond \/ Mutate \/ UNCHANGED vars \/ \E r \in Runs : Archive(r)
  <2>1. hot' \subseteq hot /\ UNCHANGED want
    BY <1>8
    DEF NextDay, NextSecond, Mutate, Archive, Start, DeleteSpans, DeleteLogs, Abort, Query, Open,
        Write, Upload, vars, stores
  <2> QED BY <1>2, <2>1
<1> QED BY <1>3, <1>4, <1>5, <1>6, <1>7, <1>8 DEF Next

\* Hydrating never makes a second row of a span, whatever archivals delete and read
\* meanwhile, if hydrations come one at a time: nothing keeps span_id unique.
THEOREM SpansAreRestoredOnce ==
    ASSUME \A g, h \in Hydrators : g = h
    PROVE  Spec => []SpanRestoredOnce
<1>1. Init => OInv
  BY DatedInit DEF Init, OInv, WantIsGone, SpanRestoredOnce, Copies
<1>2. OInv => SpanRestoredOnce
  BY DEF OInv
<1> QED BY <1>1, <1>2, OnceStep, PTL DEF Spec
=============================================================================

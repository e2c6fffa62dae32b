---------------------------- MODULE AnalysisPipeline ----------------------------
(***************************************************************************)
(* From log lines to clusters on one host: the agent of                    *)
(* src/denoiser/cli/main.py watches a file and runs analyze on it, which   *)
(* reads, redacts and normalises its lines, groups them by template and    *)
(* clusters the templates.                                                 *)
(*                                                                         *)
(* A line is a sequence of tokens [kind, text].  The embedding and the     *)
(* clustering algorithms are outside: any labelling they may give.         *)
(* A definition X_Y is X with a plausible mistake Y; nothing uses it.      *)
(***************************************************************************)
EXTENDS Integers, Sequences, FiniteSets, SequencesExt

CONSTANTS
    LogLines,       \* lines that may be appended; <<>> is a blank one
    SampleLimit,    \* records kept per template; 100 in the code
    Labels_,        \* cluster ids the algorithms use
    MaxLogLines,    \* bound: lines ever appended
    MaxResults      \* bound: results of a command

ASSUME PipelineAssumption ==
    /\ \A line \in LogLines : DOMAIN line = 1 .. Len(line)
    /\ SampleLimit \in Nat /\ MaxLogLines \in Nat /\ MaxResults \in Nat
    /\ Labels_ # {} /\ Labels_ \subseteq Nat

VARIABLES
    logFile,     \* the lines of the file
    lastSize,    \* last_size of the agent
    lookedSize,  \* current_size of its turn
    read,        \* the lines the analysis has read; <<>> when none is under way
    agent,       \* "starting", "waiting", "reading", "analysing", "reported", "dead", or
                 \* "absent": a command is run instead
    clusters,    \* the clusters it reports
    analysed,    \* history: lines that the last analysis read
    truncated,   \* history: the file was rotated away
    exit         \* of the last command: [labels, level, failed]
pipelineVars == <<logFile, lastSize, lookedSize, read, agent, clusters, analysed, truncated, exit>>

\* Redaction, then normalisation: secrets and dynamic values become their kind, so that
\* lines that differ in them share a template.
Secrets == {"JWT", "EMAIL", "SSN"}
Dynamic == {"UUID", "IP_ADDRESS", "NUMBER"}
Redact(line) ==
    [i \in 1 .. Len(line) |->
        IF line[i].kind \in Secrets THEN [kind |-> "word", text |-> line[i].kind] ELSE line[i]]
Normalize(line) ==
    [i \in 1 .. Len(line) |->
        IF line[i].kind \in Dynamic THEN [kind |-> "word", text |-> line[i].kind] ELSE line[i]]
Template(line) == Normalize(Redact(line))

\* Deduplicator.add over the lines that are not blank: every record counts, the first
\* SampleLimit of a template are kept.
ReadLines(file) == {n \in 1 .. Len(file) : file[n] # <<>>}
Templates(file) == {Template(file[n]) : n \in ReadLines(file)}
Counted(file) ==
    [t \in Templates(file) |-> Cardinality({n \in ReadLines(file) : Template(file[n]) = t})]
Samples(file) ==
    [t \in Templates(file) |->
        IF Counted(file)[t] < SampleLimit THEN Counted(file)[t] ELSE SampleLimit]

\* One template is one cluster; more may have a noise bucket: fewer than 50 have none,
\* but when the algorithm for them fails the other one is taken.
Noise_ == -1
Labellings(file) ==
    LET ts == Templates(file)
        ids == IF Cardinality(ts) < 2 THEN {CHOOSE l \in Labels_ : TRUE}
               ELSE Labels_ \cup {Noise_}
    IN [ts -> ids]

\* A cluster has the lines of all its templates, of which only samples are at hand.
SizeOf_Samples(file, ts) == SumFunctionOnSet(Samples(file), ts)
SizeOf(file, ts) == SumFunctionOnSet(Counted(file), ts)
Clustered(file, labels) ==
    {[id |-> l, templates |-> {t \in Templates(file) : labels[t] = l},
      size |-> SizeOf(file, {t \in Templates(file) : labels[t] = l})] : l \in Range(labels)}
-----------------------------------------------------------------------------
PipelineInit ==
    /\ logFile = <<>> /\ lastSize = 0 /\ lookedSize = 0 /\ read = <<>> /\ agent = "starting"
    /\ clusters = {} /\ analysed = 0 /\ truncated = FALSE
    /\ exit = [labels |-> <<>>, level |-> "known", failed |-> FALSE]

\* A report, and a command, are taken as one step with the sleep, or the end, after them.
Appended(line) ==
    /\ Len(logFile) < MaxLogLines /\ agent \notin {"absent", "reported"} /\ logFile' = Append(logFile, line)
    /\ UNCHANGED <<lastSize, lookedSize, read, agent, clusters, analysed, truncated, exit>>
TruncateFile ==
    /\ Len(logFile) = MaxLogLines /\ ~truncated /\ agent # "reported"
    /\ logFile' = <<>> /\ truncated' = TRUE
    /\ UNCHANGED <<lastSize, lookedSize, read, agent, clusters, analysed, exit>>

\* What stands in the file when the agent starts counts as seen.
StartAgent ==
    /\ agent = "starting" /\ agent' = "waiting" /\ lastSize' = Len(logFile)
    /\ UNCHANGED <<logFile, lookedSize, read, clusters, analysed, truncated, exit>>
LookAtFile ==
    /\ agent = "waiting" /\ Len(logFile) > lastSize
    /\ lookedSize' = Len(logFile) /\ agent' = "reading"
    /\ UNCHANGED <<logFile, lastSize, read, clusters, analysed, truncated, exit>>
ReadFile ==
    /\ agent = "reading" /\ agent' = "analysing" /\ read' = logFile
    /\ UNCHANGED <<logFile, lastSize, lookedSize, clusters, analysed, truncated, exit>>

\* The whole file was read, as it was by then; without a line there is no cluster.  The
\* size that was looked at before is remembered.
Remembered_Now == Len(logFile)
Remembered == lookedSize
FinishAnalysis ==
    /\ agent = "analysing"
    /\ \E labels \in Labellings(read) : clusters' = Clustered(read, labels)
    /\ analysed' = Len(read)
    /\ agent' = "reported" /\ lastSize' = Remembered
    /\ UNCHANGED <<logFile, lookedSize, read, truncated, exit>>
Sleep ==
    /\ agent = "reported" /\ agent' = "waiting"
    /\ clusters' = {} /\ read' = <<>> /\ lookedSize' = 0
    /\ UNCHANGED <<logFile, lastSize, analysed, truncated, exit>>
\* An exception, of the file or of an algorithm, ends the agent.
FailAnalysis_ ==
    /\ agent \in {"reading", "analysing"} /\ agent' = "dead"
    /\ UNCHANGED <<logFile, lastSize, lookedSize, read, clusters, analysed, truncated, exit>>

\* The exit code of analyze: the highest label seen, kept as it goes, against a level.
Levels == <<"known", "rare_known", "new_pattern", "high_risk_anomaly">>
Rank(l) == CHOOSE n \in 1 .. 4 : Levels[n] = l
Replaces(highest, l) ==
    \/ highest = "none" \/ l = "high_risk_anomaly"
    \/ l = "new_pattern" /\ highest # "high_risk_anomaly"
Highest(labels) == FoldLeft(LAMBDA h, l : IF Replaces(h, l) THEN l ELSE h, "none", labels)
RunCommand(labels, level) ==
    /\ agent = "starting" /\ Len(logFile) = 1 /\ agent' = "absent"
    /\ exit' = [labels |-> labels, level |-> level,
                failed |-> Highest(labels) # "none" /\ Rank(Highest(labels)) >= Rank(level)]
    /\ UNCHANGED <<logFile, lastSize, lookedSize, read, clusters, analysed, truncated>>

AgentStep == StartAgent \/ LookAtFile \/ ReadFile \/ FinishAnalysis \/ Sleep
PipelineNext ==
    \/ \E line \in LogLines : Appended(line)
    \/ TruncateFile \/ AgentStep \/ FailAnalysis_
    \/ \E labels \in SeqOf(Range(Levels), MaxResults), level \in Range(Levels) : RunCommand(labels, level)
PipelineSpec == PipelineInit /\ [][PipelineNext]_pipelineVars
-----------------------------------------------------------------------------
\* No line is lost on the way to the clusters, though only samples of a template are
\* kept: the clusters share out the templates, and their sizes add up to the lines read.
ClustersAccountForLines ==
    agent = "reported" =>
        /\ UNION {c.templates : c \in clusters} = Templates(read)
        /\ SumFunctionOnSet([c \in clusters |-> c.size], clusters) = Cardinality(ReadLines(read))

\* A run that is to fail on new patterns, or on high risks, fails exactly when one was
\* found, wherever it stands among the results.  For rare ones that is not so.
FailsOnWhatWasFound ==
    exit.level \in {"new_pattern", "high_risk_anomaly"} =>
        (exit.failed <=> \E n \in 1 .. Len(exit.labels) : Rank(exit.labels[n]) >= Rank(exit.level))

\* While the agent lives and the file only grows, all of it is analysed in the end, even
\* a line that came while the analysis before it was running.
AgentCatchesUp ==
    agent # "starting" /\ lastSize < Len(logFile)
        ~> analysed >= Len(logFile) \/ truncated \/ agent \in {"dead", "absent"}

\* A report, and the exit code of a command, tell what was in the lines: the two together.
ReportIsFaithful == ClustersAccountForLines /\ FailsOnWhatWasFound
=============================================================================

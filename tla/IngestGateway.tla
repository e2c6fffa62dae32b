---------------------------- MODULE IngestGateway ----------------------------
(***************************************************************************)
(* The HTTP endpoints by which telemetry enters, and what each has kept    *)
(* when it answers: /ingest of src/denoiser/api/main.py, /v1/logs and      *)
(* /v1/traces of src/denoiser/api/otlp.py, the OTLP endpoint of            *)
(* src/denoiser/api/tracing.py with src/denoiser/tracing/otlp_collector.py.*)
(*                                                                         *)
(* A client sends a batch again when it is refused or not answered.  An    *)
(* API process runs one event loop: between the look at the size of        *)
(* live_stream.log and the end of the append there is no await, so the     *)
(* batches of one process do not interleave there, those of two processes  *)
(* over one directory would.                                               *)
(* A definition X_Y is X with a plausible mistake Y; nothing uses it.      *)
(***************************************************************************)
EXTENDS Naturals, FiniteSets

CONSTANTS
    Batches,      \* batches the clients have to send
    Size,         \* entries of a batch sent to /ingest
    Apis,         \* API processes
    DirOf,        \* DirOf[a]: the data directory of process a
    RotateAt,     \* batches in live_stream.log from which it is rotated; 100 MB in the code
    MaxAttempts,  \* bound: times a batch is sent
    MaxSeconds    \* bound: the clock

Endpoints == {"/ingest", "/v1/logs", "/v1/traces", "/traces/v1/traces"}
Dirs == {DirOf[a] : a \in Apis}
Seconds == 0 .. MaxSeconds

ASSUME GatewayAssumption ==
    /\ {Size, MaxAttempts} \subseteq Nat \ {0} /\ RotateAt \in Nat /\ RotateAt > 1
    /\ MaxSeconds \in Nat /\ Apis # {}

VARIABLES
    producer,   \* producer[a]: a's Kafka producer was started
    sent,       \* sent[b]: [phase, kind, api, attempt, next] of b's last attempt
    live,       \* live[d]: attempts whose lines are in d's live_stream.log
    rotated,    \* rotated[d][s]: the same for live_stream_{s}.log
    appended,   \* appended[d]: appends to d during the current second
    topic,      \* topic[b][n]: copies of entry n in its Kafka topic
    inserted,   \* inserted[b]: direct inserts into ClickHouse
    spans,      \* spans[b]: commits of b's spans to the relational database
    second,
    written     \* history: written[d]: attempts ever appended to d

gatewayVars ==
    <<producer, sent, live, rotated, appended, topic, inserted, spans, second, written>>
storeVars == <<topic, inserted, spans>>
fileVars == <<live, rotated, appended, written>>

Entries(b) == 1 .. (IF sent[b].kind = "/ingest" THEN Size ELSE 1)
Line(b) == <<b, sent[b].attempt>>
At_(b, p) == sent[b].phase = p
To(b, p) == sent' = [sent EXCEPT ![b].phase = p]
Dir(b) == DirOf[sent[b].api]
UsesKafka(b) == sent[b].kind \in {"/ingest", "/traces/v1/traces"} /\ producer[sent[b].api]

GatewayInit ==
    /\ producer \in [Apis -> BOOLEAN]
    /\ sent = [b \in Batches |-> [phase |-> "unsent", kind |-> "/ingest",
                                  api |-> CHOOSE a \in Apis : TRUE, attempt |-> 0, next |-> 1]]
    /\ live = [d \in Dirs |-> {}]
    /\ rotated = [d \in Dirs |-> [s \in Seconds |-> {}]]
    /\ appended = [d \in Dirs |-> 0]
    /\ topic = [b \in Batches |-> [n \in 1 .. Size |-> 0]]
    /\ inserted = [b \in Batches |-> 0]
    /\ spans = [b \in Batches |-> 0]
    /\ second = 0
    /\ written = [d \in Dirs |-> {}]
-----------------------------------------------------------------------------
\* The client sends b, for the first time or after an error or a broken connection.
\* The process looks at the size of its stream file, when the endpoint writes one.
InFile(a) == \E b \in Batches : sent[b].api = a /\ sent[b].phase \in {"rotating", "appending"}
Appending == {"/ingest", "/v1/logs"}
Receive(b, a, kind) ==
    /\ sent[b].phase \in {"unsent", "refused"} /\ sent[b].attempt < MaxAttempts
    /\ sent[b].phase = "refused" => kind = sent[b].kind
    /\ ~InFile(a)
    /\ LET big == kind = "/ingest" /\ Cardinality(live[DirOf[a]]) >= RotateAt IN
       sent' = [sent EXCEPT ![b] =
           [phase |-> IF kind \notin Appending THEN "storing"
                      ELSE IF big THEN "rotating" ELSE "appending",
            kind |-> kind, api |-> a, attempt |-> sent[b].attempt + 1, next |-> 1]]
    /\ UNCHANGED <<producer, fileVars, storeVars, second>>

\* rename replaces a file of that name.  Without a file there it raises: 400.
Rotate(b) ==
    /\ At_(b, "rotating")
    /\ IF live[Dir(b)] # {}
       THEN /\ rotated' = [rotated EXCEPT ![Dir(b)][second] = live[Dir(b)]]
            /\ live' = [live EXCEPT ![Dir(b)] = {}]
            /\ To(b, "appending")
       ELSE To(b, "refused") /\ UNCHANGED <<live, rotated>>
    /\ UNCHANGED <<producer, appended, written, storeVars, second>>

\* Assumption: a second is too short for the file to reach its limit.
Append_(b) ==
    /\ At_(b, "appending") /\ appended[Dir(b)] + 1 < RotateAt
    /\ live' = [live EXCEPT ![Dir(b)] = @ \cup {Line(b)}]
    /\ written' = [written EXCEPT ![Dir(b)] = @ \cup {Line(b)}]
    /\ appended' = [appended EXCEPT ![Dir(b)] = @ + 1]
    /\ To(b, "storing")
    /\ UNCHANGED <<producer, rotated, storeVars, second>>

\* One entry is sent and awaited.
SendEntry(b) ==
    /\ At_(b, "storing") /\ UsesKafka(b) /\ sent[b].next \in Entries(b)
    /\ topic' = [topic EXCEPT ![b][sent[b].next] = @ + 1]
    /\ sent' = [sent EXCEPT ![b].next = @ + 1]
    /\ UNCHANGED <<producer, fileVars, inserted, spans, second>>

\* The send raises, the entry having reached the topic or not: 400, and the entries
\* before it stay where they are.
FailSend(b, reached) ==
    /\ At_(b, "storing") /\ UsesKafka(b) /\ sent[b].next \in Entries(b)
    /\ topic' = [topic EXCEPT ![b][sent[b].next] = @ + (IF reached THEN 1 ELSE 0)]
    /\ To(b, "refused")
    /\ UNCHANGED <<producer, fileVars, inserted, spans, second>>

AllSent_SkipLast(b) == sent[b].next >= Size
AllSent(b) == sent[b].next \notin Entries(b)
AnswerSent(b) ==
    /\ At_(b, "storing") /\ UsesKafka(b) /\ AllSent(b) /\ To(b, "success")
    /\ UNCHANGED <<producer, fileVars, storeVars, second>>

\* Without a producer: one insert, which may be refused, or have no client to go
\* through.  /ingest ignores its result, /v1/logs reports it beside "success",
\* process_otlp_traces turns it into an exception.
RefusalIsError(b) == sent[b].kind = "/traces/v1/traces"
InsertDirect(b, ok) ==
    /\ At_(b, "storing") /\ sent[b].kind # "/v1/traces" /\ ~UsesKafka(b)
    /\ inserted' = [inserted EXCEPT ![b] = @ + (IF ok THEN 1 ELSE 0)]
    /\ To(b, IF ~ok /\ RefusalIsError(b) THEN "refused" ELSE "success")
    /\ UNCHANGED <<producer, fileVars, topic, spans, second>>

\* /v1/traces commits the spans first, then inserts them into ClickHouse.
CommitSpans(b, ok) ==
    /\ At_(b, "storing") /\ sent[b].kind = "/v1/traces"
    /\ spans' = [spans EXCEPT ![b] = @ + (IF ok THEN 1 ELSE 0)]
    /\ To(b, IF ok THEN "inserting" ELSE "refused")
    /\ UNCHANGED <<producer, fileVars, topic, inserted, second>>
InsertSpans(b, ok) ==
    /\ At_(b, "inserting")
    /\ inserted' = [inserted EXCEPT ![b] = @ + (IF ok THEN 1 ELSE 0)]
    /\ To(b, "success")
    /\ UNCHANGED <<producer, fileVars, topic, spans, second>>

\* The process dies and comes back, with or without Kafka: its clients are not
\* answered.
Underway(b, a) == sent[b].api = a /\ sent[b].phase \in {"rotating", "appending", "storing", "inserting"}
RestartApi(a, withKafka) ==
    /\ \E b \in Batches : Underway(b, a)
    /\ producer' = [producer EXCEPT ![a] = withKafka]
    /\ sent' = [b \in Batches |->
                  IF Underway(b, a) THEN [sent[b] EXCEPT !.phase = "refused"] ELSE sent[b]]
    /\ UNCHANGED <<fileVars, storeVars, second>>

TickSecond ==
    /\ second < MaxSeconds
    /\ second' = second + 1
    /\ appended' = [d \in Dirs |-> 0]
    /\ UNCHANGED <<producer, sent, live, rotated, written, storeVars>>

GatewayNext ==
    \/ TickSecond
    \/ \E a \in Apis, k \in BOOLEAN : RestartApi(a, k)
    \/ \E b \in Batches, a \in Apis, kind \in Endpoints : Receive(b, a, kind)
    \/ \E b \in Batches : Rotate(b) \/ Append_(b) \/ SendEntry(b) \/ AnswerSent(b)
    \/ \E b \in Batches, ok \in BOOLEAN :
         FailSend(b, ok) \/ InsertDirect(b, ok) \/ CommitSpans(b, ok) \/ InsertSpans(b, ok)

GatewaySpec == GatewayInit /\ [][GatewayNext]_gatewayVars
-----------------------------------------------------------------------------
Filed(b) == \E d \in Dirs, n \in 1 .. MaxAttempts : <<b, n>> \in written[d]

\* What "success" is worth.  A batch of /ingest or /v1/logs is in the stream file,
\* whatever Kafka and ClickHouse have said; a batch answered by way of Kafka is in
\* its topic, every entry of it; spans are in the database, the topic or ClickHouse.
AcknowledgedIsKept ==
    \A b \in Batches : At_(b, "success") =>
        /\ sent[b].kind \in Appending => Filed(b)
        /\ AllSent(b) => \A n \in Entries(b) : topic[b][n] > 0
        /\ sent[b].kind = "/v1/traces" => spans[b] > 0
        /\ sent[b].kind = "/traces/v1/traces" => topic[b][1] + inserted[b] > 0

\* An entry is in its topic once per attempt at most, and the entries there are a
\* prefix of the batch: a client that repeats a refused batch duplicates what had
\* arrived, and nothing else is duplicated.
RetriesDuplicatePrefix ==
    \A b \in Batches :
        /\ \A n \in Entries(b) : topic[b][n] <= sent[b].attempt
        /\ \A n \in Entries(b) : n + 1 \in Entries(b) => topic[b][n + 1] <= topic[b][n]

\* With a directory to each process, rotation never costs a line: what was ever
\* appended is in the stream file or in a rotated one.
LinesKept ==
    (\A a, c \in Apis : DirOf[a] = DirOf[c] => a = c) =>
        \A d \in Dirs : written[d] = live[d] \cup UNION {rotated[d][s] : s \in Seconds}

\* What a client may conclude from its answers: the three together.
AnswersHold == AcknowledgedIsKept /\ RetriesDuplicatePrefix /\ LinesKept
=============================================================================

---------------------------- MODULE PlatformProofs ----------------------------
(***************************************************************************)
(* Proofs about the parts of the platform around the pipeline, for any     *)
(* number of processes, batches, operators, requests and tenants: the      *)
(* ingestion endpoints of IngestGateway, the documents and the widgets of  *)
(* TenantDocuments, the operators of AccessControl, the metering of        *)
(* UsageMeter and the window of RateLimiter.  They share no state; each    *)
(* has an invariant of its own.                                            *)
(***************************************************************************)
EXTENDS IngestGateway, RateLimiter, UsageMeter, AccessControl, TenantDocuments,
        FoldLemmas, SequenceTheorems, TLAPS

-----------------------------------------------------------------------------
(***************************************************************************)
(* The endpoints: what their answers are worth.  The invariant has a part  *)
(* for each batch (its entries in the topic, what the other stores have of *)
(* it) and a part for each directory (no rotated file is ever replaced).   *)
(***************************************************************************)
Phases == {"unsent", "refused", "success", "rotating", "appending", "storing", "inserting"}
Sent == [phase : Phases, kind : Endpoints, api : Apis, attempt : 0 .. MaxAttempts,
         next : 1 .. Size + 1]
Lines == Batches \X (1 .. MaxAttempts)

GatewayTypeOK ==
    /\ producer \in [Apis -> BOOLEAN]
    /\ sent \in [Batches -> Sent]
    /\ live \in [Dirs -> SUBSET Lines]
    /\ rotated \in [Dirs -> [Seconds -> SUBSET Lines]]
    /\ appended \in [Dirs -> Nat]
    /\ topic \in [Batches -> [1 .. Size -> Nat]]
    /\ inserted \in [Batches -> Nat] /\ spans \in [Batches -> Nat]
    /\ second \in Seconds
    /\ written \in [Dirs -> SUBSET Lines]

\* Copies of the entries: as many as attempts, one more of those this attempt has sent.
Running(b) == sent[b].phase \in {"rotating", "appending", "storing", "inserting"}
TopicOrder(b) ==
    /\ \A n \in 1 .. Size : topic[b][n] <= sent[b].attempt
    /\ \A m, n \in 1 .. Size : m <= n => topic[b][n] <= topic[b][m]
    /\ \A n \in 1 .. Size : n < sent[b].next => topic[b][n] > 0
    /\ Running(b) =>
         /\ \A n \in 1 .. Size : n >= sent[b].next => topic[b][n] < sent[b].attempt
         /\ \A m, n \in 1 .. Size :
              m < sent[b].next /\ n >= sent[b].next => topic[b][n] < topic[b][m]
    /\ At_(b, "rotating") \/ At_(b, "appending") => sent[b].next = 1

\* What is kept of a batch by the time of each phase.
StoreOrder(b) ==
    /\ At_(b, "inserting") => sent[b].kind = "/v1/traces" /\ spans[b] > 0
    /\ At_(b, "success") /\ sent[b].kind = "/v1/traces" => spans[b] > 0
    /\ At_(b, "success") /\ sent[b].kind = "/traces/v1/traces" => topic[b][1] + inserted[b] > 0
    /\ (At_(b, "storing") \/ At_(b, "success")) /\ sent[b].kind \in Appending =>
         Line(b) \in written[Dir(b)]

\* A file rotated this second is the last of this second: too little is appended for
\* another one, and the batch that has rotated it was alone.
InFiles(b) == At_(b, "rotating") \/ At_(b, "appending")
FileOrder(d) ==
    /\ written[d] = live[d] \cup UNION {rotated[d][s] : s \in Seconds}
    /\ IsFiniteSet(live[d])
    /\ \A s \in Seconds : s > second => rotated[d][s] = {}
    /\ appended[d] < RotateAt
    /\ rotated[d][second] # {} =>
         /\ Cardinality(live[d]) <= appended[d]
         /\ \A b \in Batches : At_(b, "rotating") => Dir(b) # d
OneInFile == \A b, c \in Batches : InFiles(b) /\ InFiles(c) /\ sent[b].api = sent[c].api => b = c
Separate == \A a, c \in Apis : DirOf[a] = DirOf[c] => a = c

BatchInv == \A b \in Batches : TopicOrder(b) /\ StoreOrder(b)
FileInv == OneInFile /\ (Separate => \A d \in Dirs : FileOrder(d))
GatewayInv == GatewayTypeOK /\ BatchInv /\ FileInv

-----------------------------------------------------------------------------
LEMMA Bounds ==
    /\ Size \in Nat /\ Size >= 1 /\ MaxAttempts \in Nat /\ MaxAttempts >= 1
    /\ RotateAt \in Nat /\ RotateAt > 1 /\ MaxSeconds \in Nat
    /\ Apis # {} /\ Seconds \subseteq Nat
BY GatewayAssumption DEF Seconds

LEMMA BatchRows ==
    ASSUME GatewayTypeOK, NEW b \in Batches
    PROVE  /\ sent[b] \in Sent /\ sent[b].phase \in Phases /\ sent[b].kind \in Endpoints
           /\ sent[b].api \in Apis /\ sent[b].attempt \in 0 .. MaxAttempts
           /\ sent[b].next \in 1 .. Size + 1 /\ Dir(b) \in Dirs
           /\ topic[b] \in [1 .. Size -> Nat] /\ inserted[b] \in Nat /\ spans[b] \in Nat
<1>1. sent[b] \in Sent
  BY DEF GatewayTypeOK
<1>2. sent[b].api \in Apis
  BY <1>1 DEF Sent
<1>3. Dir(b) \in Dirs
  BY <1>2 DEF Dir, Dirs
<1>4. topic[b] \in [1 .. Size -> Nat] /\ inserted[b] \in Nat /\ spans[b] \in Nat
  BY DEF GatewayTypeOK
<1> QED BY <1>1, <1>2, <1>3, <1>4 DEF Sent

LEMMA Numbers ==
    ASSUME GatewayTypeOK, NEW b \in Batches
    PROVE  /\ topic[b] \in [1 .. Size -> Nat] /\ sent[b].next \in Nat /\ sent[b].attempt \in Nat
           /\ \A n \in 1 .. Size : topic[b][n] \in Nat /\ n \in Nat
<1>1. /\ topic[b] \in [1 .. Size -> Nat] /\ sent[b].attempt \in 0 .. MaxAttempts
      /\ sent[b].next \in 1 .. Size + 1
  BY BatchRows
<1>2. sent[b].attempt \in Nat /\ sent[b].next \in Nat
  BY <1>1, Bounds
<1>3. \A n \in 1 .. Size : n \in Nat
  BY Bounds
<1>4. \A n \in 1 .. Size : topic[b][n] \in Nat
  BY <1>1
<1> QED BY <1>1, <1>2, <1>3, <1>4

LEMMA EntriesBound == ASSUME NEW b \in Batches PROVE Entries(b) \subseteq 1 .. Size
BY Bounds DEF Entries

\* A step keeps what is known of the batches it is not about.
LEMMA OtherBatches ==
    ASSUME GatewayTypeOK, NEW b \in Batches, TopicOrder(b), StoreOrder(b),
           sent'[b] = sent[b], topic'[b] = topic[b], inserted'[b] = inserted[b],
           spans'[b] = spans[b], \A d \in Dirs : written[d] \subseteq written'[d]
    PROVE  TopicOrder(b)' /\ StoreOrder(b)'
<1>1. Dir(b) \in Dirs /\ Dir(b)' = Dir(b) /\ Line(b)' = Line(b)
  BY BatchRows DEF Dir, Line
<1>2. TopicOrder(b)'
  BY DEF TopicOrder, Running, At_
<1>3. StoreOrder(b)'
  BY <1>1 DEF StoreOrder, At_
<1> QED BY <1>2, <1>3

\* A batch that is refused leaves what it has sent, an entry more or not.
LEMMA Refused ==
    ASSUME GatewayTypeOK, NEW b \in Batches, TopicOrder(b),
           sent'[b] = [sent[b] EXCEPT !.phase = "refused"],
           NEW k \in {0, 1}, topic'[b] \in [1 .. Size -> Nat],
           \/ topic'[b] = topic[b]
           \/ /\ Running(b) /\ sent[b].next \in 1 .. Size
              /\ topic'[b] = [topic[b] EXCEPT ![sent[b].next] = @ + k]
    PROVE  TopicOrder(b)' /\ StoreOrder(b)'
<1>1. /\ sent'[b].phase = "refused" /\ sent'[b].attempt = sent[b].attempt
      /\ sent'[b].next = sent[b].next
  BY BatchRows DEF Sent
<1>2. StoreOrder(b)'
  BY <1>1 DEF StoreOrder, At_
<1>3. TopicOrder(b)'
  <2>1. CASE topic'[b] = topic[b]
    BY <1>1, <2>1 DEF TopicOrder, Running, At_
  <2>2. CASE Running(b) /\ sent[b].next \in 1 .. Size
             /\ topic'[b] = [topic[b] EXCEPT ![sent[b].next] = @ + k]
    <3>1. /\ topic[b] \in [1 .. Size -> Nat] /\ sent[b].next \in Nat /\ sent[b].attempt \in Nat
          /\ \A n \in 1 .. Size : topic[b][n] \in Nat /\ n \in Nat
      BY Numbers
    <3>2. \A n \in 1 .. Size : IF n = sent[b].next THEN topic'[b][n] = topic[b][n] + k
                                                    ELSE topic'[b][n] = topic[b][n]
      BY <2>2, <3>1
    <3>3. /\ \A n \in 1 .. Size : topic[b][n] <= sent[b].attempt
          /\ \A m, n \in 1 .. Size : m <= n => topic[b][n] <= topic[b][m]
          /\ \A n \in 1 .. Size : n < sent[b].next => topic[b][n] > 0
          /\ \A n \in 1 .. Size : n >= sent[b].next => topic[b][n] < sent[b].attempt
          /\ \A m, n \in 1 .. Size :
               m < sent[b].next /\ n >= sent[b].next => topic[b][n] < topic[b][m]
      BY <2>2 DEF TopicOrder
    <3>4. \A n \in 1 .. Size : topic'[b][n] <= sent[b].attempt
      BY <3>1, <3>2, <3>3
    <3>5. ASSUME NEW m \in 1 .. Size, NEW n \in 1 .. Size, m <= n
          PROVE  topic'[b][n] <= topic'[b][m]
      <4>1. /\ topic[b][n] <= topic[b][m] /\ topic[b][m] \in Nat /\ topic[b][n] \in Nat
            /\ m \in Nat /\ n \in Nat
        BY <3>1, <3>3, <3>5
      <4>2. CASE n = sent[b].next /\ m # n
        <5>1. topic[b][n] < topic[b][m]
          <6>1. m < sent[b].next /\ n >= sent[b].next
            BY <3>5, <4>1, <4>2
          <6> QED BY <3>3, <6>1
        <5>2. topic'[b][n] = topic[b][n] + k /\ topic'[b][m] = topic[b][m]
          BY <3>2, <4>2
        <5>3. topic[b][n] + k <= topic[b][m]
          BY <4>1, <5>1
        <5> QED BY <5>2, <5>3
      <4>3. CASE ~ (n = sent[b].next /\ m # n)
        BY <3>2, <4>1, <4>3
      <4> QED BY <4>2, <4>3
    <3>6. \A n \in 1 .. Size : n < sent[b].next => topic'[b][n] > 0
      BY <3>1, <3>2, <3>3
    <3> QED BY <1>1, <3>4, <3>5, <3>6 DEF TopicOrder, Running, At_
  <2> QED BY <2>1, <2>2
<1> QED BY <1>2, <1>3

\* What a step keeps of the files when it touches none of them and lets no batch in.
LEMMA FilesAlone ==
    ASSUME FileInv, GatewayTypeOK, UNCHANGED <<live, rotated, appended, written, second>>,
           \A b \in Batches :
               InFiles(b)' => sent'[b].phase = sent[b].phase /\ sent'[b].api = sent[b].api
    PROVE  FileInv'
<1>1. \A b \in Batches : InFiles(b)' => InFiles(b)
  BY DEF InFiles, At_
<1>2. OneInFile'
  <2> SUFFICES ASSUME NEW b \in Batches, NEW c \in Batches, InFiles(b)', InFiles(c)',
                      sent'[b].api = sent'[c].api
               PROVE  b = c
    BY DEF OneInFile
  <2> QED BY <1>1 DEF FileInv, OneInFile
<1>3. ASSUME Separate, NEW d \in Dirs PROVE FileOrder(d)'
  <2>1. FileOrder(d)
    BY <1>3 DEF FileInv
  <2>2. \A b \in Batches : At_(b, "rotating")' => At_(b, "rotating") /\ Dir(b)' = Dir(b)
    BY DEF InFiles, At_, Dir
  <2> QED BY <2>1, <2>2 DEF FileOrder
<1> QED BY <1>2, <1>3 DEF FileInv, Separate

-----------------------------------------------------------------------------
LEMMA GatewayInitially == GatewayInit => GatewayInv
<1> SUFFICES ASSUME GatewayInit PROVE GatewayInv
  OBVIOUS
<1> DEFINE any == CHOOSE a \in Apis : TRUE
<1>1. any \in Apis
  BY Bounds
<1>2. \A b \in Batches : sent[b] = [phase |-> "unsent", kind |-> "/ingest", api |-> any,
                                    attempt |-> 0, next |-> 1]
  BY DEF GatewayInit
<1>3. sent \in [Batches -> Sent]
  <2> HIDE DEF any
  <2>1. [phase |-> "unsent", kind |-> "/ingest", api |-> any, attempt |-> 0, next |-> 1] \in Sent
    BY <1>1, Bounds DEF Sent, Phases, Endpoints
  <2> USE DEF any
  <2> QED BY <2>1 DEF GatewayInit
<1> HIDE DEF any
<1>4. 0 \in Seconds
  BY Bounds DEF Seconds
<1>5. GatewayTypeOK
  BY <1>3, <1>4 DEF GatewayInit, GatewayTypeOK
<1>6. ASSUME NEW b \in Batches PROVE TopicOrder(b) /\ StoreOrder(b)
  <2>1. \A n \in 1 .. Size : topic[b][n] = 0
    BY DEF GatewayInit
  <2>2. sent[b].phase = "unsent" /\ sent[b].attempt = 0 /\ sent[b].next = 1
    BY <1>2
  <2> QED BY <2>1, <2>2, Bounds DEF TopicOrder, StoreOrder, Running, At_
<1>7. OneInFile
  BY <1>2 DEF OneInFile, InFiles, At_
<1>8. ASSUME NEW d \in Dirs PROVE FileOrder(d)
  <2>1. /\ written[d] = {} /\ live[d] = {} /\ appended[d] = 0
        /\ \A s \in Seconds : rotated[d][s] = {}
    BY DEF GatewayInit
  <2>2. UNION {rotated[d][s] : s \in Seconds} = {}
    BY <2>1
  <2>3. second \in Seconds
    BY <1>4 DEF GatewayInit
  <2> QED BY <2>1, <2>2, <2>3, Bounds, FS_EmptySet DEF FileOrder
<1> QED BY <1>5, <1>6, <1>7, <1>8 DEF GatewayInv, BatchInv, FileInv

-----------------------------------------------------------------------------
\* The client's step, and those of the stream file.

LEMMA Receives ==
    ASSUME GatewayInv, NEW b \in Batches, NEW a \in Apis, NEW kind \in Endpoints,
           Receive(b, a, kind)
    PROVE  GatewayInv'
<1> DEFINE big == kind = "/ingest" /\ Cardinality(live[DirOf[a]]) >= RotateAt
           p == IF kind \notin Appending THEN "storing"
                ELSE IF big THEN "rotating" ELSE "appending"
           e == [phase |-> p, kind |-> kind, api |-> a, attempt |-> sent[b].attempt + 1, next |-> 1]
<1>1. /\ sent' = [sent EXCEPT ![b] = e] /\ ~InFile(a)
      /\ sent[b].phase \in {"unsent", "refused"} /\ sent[b].attempt < MaxAttempts
      /\ UNCHANGED <<producer, live, rotated, appended, written, topic, inserted, spans, second>>
  BY DEF Receive, fileVars, storeVars
<1>2. p \in {"storing", "rotating", "appending"} /\ (p = "storing" => kind \notin Appending)
      /\ (p = "rotating" => Cardinality(live[DirOf[a]]) >= RotateAt)
  OBVIOUS
<1> HIDE DEF p, big
<1>3. GatewayTypeOK /\ sent[b].attempt \in Nat
  BY Numbers DEF GatewayInv
<1>4. e \in Sent /\ e.phase = p /\ e.kind = kind /\ e.api = a
      /\ e.attempt = sent[b].attempt + 1 /\ e.next = 1
  BY <1>1, <1>2, <1>3, Bounds DEF Sent, Phases
<1> HIDE DEF e
<1>5. /\ sent' \in [Batches -> Sent] /\ sent'[b] = e
      /\ \A c \in Batches : c # b => sent'[c] = sent[c]
  BY <1>1, <1>3, <1>4 DEF GatewayTypeOK
<1>6. GatewayTypeOK'
  BY <1>1, <1>3, <1>5 DEF GatewayTypeOK
<1>7. TopicOrder(b)'
  <2>1. /\ \A n \in 1 .. Size : topic[b][n] <= sent[b].attempt /\ topic[b][n] \in Nat /\ n \in Nat
        /\ \A m, n \in 1 .. Size : m <= n => topic[b][n] <= topic[b][m]
    BY <1>3, Numbers DEF GatewayInv, BatchInv, TopicOrder
  <2>2. /\ \A n \in 1 .. Size : topic'[b][n] < sent'[b].attempt
        /\ \A n \in 1 .. Size : topic'[b][n] <= sent'[b].attempt
    BY <1>1, <1>3, <1>4, <1>5, <2>1
  <2>3. \A n \in 1 .. Size : ~ (n < sent'[b].next)
    BY <1>4, <1>5, <2>1
  <2> QED BY <1>1, <1>4, <1>5, <2>1, <2>2, <2>3 DEF TopicOrder
<1>8. StoreOrder(b)'
  BY <1>2, <1>4, <1>5 DEF StoreOrder, At_
<1>9. ASSUME NEW c \in Batches, c # b PROVE TopicOrder(c)' /\ StoreOrder(c)'
  BY <1>1, <1>3, <1>5, <1>9, OtherBatches DEF GatewayInv, BatchInv
<1>10. OneInFile'
  <2>1. \A c \in Batches : c # b /\ InFiles(c)' => InFiles(c) /\ sent'[c].api = sent[c].api
                                                  /\ sent[c].api # a
    BY <1>1, <1>5 DEF InFile, InFiles, At_
  <2>2. sent'[b].api = a
    BY <1>4, <1>5
  <2> QED BY <2>1, <2>2 DEF OneInFile, GatewayInv, FileInv
<1>11. ASSUME Separate, NEW d \in Dirs PROVE FileOrder(d)'
  <2>1. FileOrder(d)
    BY <1>11 DEF GatewayInv, FileInv
  <2>2. ASSUME rotated[d][second] # {}, NEW c \in Batches, At_(c, "rotating")'
        PROVE  Dir(c)' # d
    <3>1. CASE c = b
      <4>1. Dir(c)' = DirOf[a] /\ p = "rotating"
        BY <1>4, <1>5, <2>2, <3>1 DEF Dir, At_
      <4>2. Cardinality(live[d]) <= appended[d] /\ appended[d] < RotateAt
        BY <2>1, <2>2 DEF FileOrder
      <4>3. Cardinality(live[d]) \in Nat /\ appended[d] \in Nat
        BY <1>3, <2>1, FS_CardinalityType DEF FileOrder, GatewayTypeOK
      <4> QED BY <1>2, <4>1, <4>2, <4>3, Bounds
    <3>2. CASE c # b
      BY <1>5, <2>1, <2>2, <3>2 DEF FileOrder, At_, Dir
    <3> QED BY <3>1, <3>2
  <2> QED BY <1>1, <2>1, <2>2 DEF FileOrder
<1> QED BY <1>6, <1>7, <1>8, <1>9, <1>10, <1>11 DEF GatewayInv, BatchInv, FileInv, Separate

\* A batch goes on to phase p.
LEMMA Goes ==
    ASSUME GatewayTypeOK, NEW b \in Batches, NEW p \in Phases, To(b, p)
    PROVE  /\ sent' \in [Batches -> Sent]
           /\ sent'[b] = [sent[b] EXCEPT !.phase = p]
           /\ sent'[b].phase = p /\ sent'[b].kind = sent[b].kind /\ sent'[b].api = sent[b].api
           /\ sent'[b].attempt = sent[b].attempt /\ sent'[b].next = sent[b].next
           /\ Dir(b)' = Dir(b) /\ Line(b)' = Line(b)
           /\ \A c \in Batches : c # b => sent'[c] = sent[c]
<1>1. sent' = [sent EXCEPT ![b].phase = p] /\ sent \in [Batches -> Sent]
  BY DEF To, GatewayTypeOK
<1>2. /\ sent'[b] = [sent[b] EXCEPT !.phase = p] /\ sent[b] \in Sent
      /\ \A c \in Batches : c # b => sent'[c] = sent[c]
  BY <1>1
<1>3. [sent[b] EXCEPT !.phase = p] \in Sent
  BY <1>2 DEF Sent
<1>4. sent' \in [Batches -> Sent]
  BY <1>1, <1>2, <1>3
<1>5. /\ sent'[b].phase = p /\ sent'[b].kind = sent[b].kind /\ sent'[b].api = sent[b].api
      /\ sent'[b].attempt = sent[b].attempt /\ sent'[b].next = sent[b].next
  BY <1>2 DEF Sent
<1> QED BY <1>2, <1>4, <1>5 DEF Dir, Line

\* The entries of a batch that is past the file, and answered or not.
LEMMA TopicKept ==
    ASSUME GatewayTypeOK, NEW b \in Batches, TopicOrder(b), Running(b), topic'[b] = topic[b],
           sent'[b].attempt = sent[b].attempt, sent'[b].next = sent[b].next,
           (At_(b, "appending") \/ At_(b, "rotating"))' => InFiles(b)
    PROVE  TopicOrder(b)'
BY DEF TopicOrder, InFiles, At_, Running

LEMMA Rotates == ASSUME GatewayInv, NEW b \in Batches, Rotate(b) PROVE GatewayInv'
<1> DEFINE d == Dir(b)
<1>1. /\ At_(b, "rotating") /\ Running(b) /\ InFiles(b)
      /\ UNCHANGED <<producer, appended, written, topic, inserted, spans, second>>
  BY DEF Rotate, storeVars, At_, Running, InFiles
<1>2. GatewayTypeOK /\ TopicOrder(b) /\ StoreOrder(b) /\ FileInv /\ d \in Dirs /\ second \in Seconds
  BY BatchRows DEF GatewayInv, BatchInv, GatewayTypeOK
<1>3. ASSUME NEW p \in {"appending", "refused"}, To(b, p), live' \in [Dirs -> SUBSET Lines],
             rotated' \in [Dirs -> [Seconds -> SUBSET Lines]]
      PROVE  GatewayTypeOK' /\ BatchInv'
  <2>1. p \in Phases
    BY <1>3 DEF Phases
  <2>2. GatewayTypeOK'
    BY <1>1, <1>2, <1>3, <2>1, Goes DEF GatewayTypeOK
  <2>3. TopicOrder(b)'
    <3>1. CASE p = "appending"
      BY <1>1, <1>2, <1>3, <2>1, <3>1, Goes, TopicKept
    <3>2. CASE p = "refused"
      <4>1. topic'[b] = topic[b] /\ topic'[b] \in [1 .. Size -> Nat]
        BY <1>1, <1>2, BatchRows
      <4>2. sent'[b] = [sent[b] EXCEPT !.phase = "refused"]
        BY <1>2, <1>3, <2>1, <3>2, Goes
      <4> QED BY <1>2, <4>1, <4>2, Refused
    <3> QED BY <3>1, <3>2
  <2>4. StoreOrder(b)'
    <3>1. sent'[b].phase \in {"appending", "refused"}
      BY <1>2, <1>3, <2>1, Goes
    <3> QED BY <3>1 DEF StoreOrder, At_
  <2>5. ASSUME NEW c \in Batches, c # b PROVE TopicOrder(c)' /\ StoreOrder(c)'
    BY <1>1, <1>2, <1>3, <2>1, <2>5, Goes, OtherBatches DEF GatewayInv, BatchInv
  <2> QED BY <2>2, <2>3, <2>4, <2>5 DEF BatchInv
<1>4. CASE live[d] = {}
  <2>1. To(b, "refused") /\ UNCHANGED <<live, rotated>>
    BY <1>4 DEF Rotate
  <2>2. sent'[b].phase = "refused" /\ \A c \in Batches : c # b => sent'[c] = sent[c]
    BY <1>2, <2>1, Goes DEF Phases
  <2>3. FileInv'
    BY <1>1, <1>2, <2>1, <2>2, FilesAlone DEF InFiles, At_
  <2> QED BY <1>2, <1>3, <2>1, <2>3 DEF GatewayInv, GatewayTypeOK
<1>5. CASE live[d] # {}
  <2>1. /\ To(b, "appending") /\ live' = [live EXCEPT ![d] = {}]
        /\ rotated' = [rotated EXCEPT ![d][second] = live[d]]
    BY <1>5 DEF Rotate
  <2>2. /\ sent'[b].phase = "appending" /\ sent'[b].api = sent[b].api
        /\ \A c \in Batches : c # b => sent'[c] = sent[c]
    BY <1>2, <2>1, Goes DEF Phases
  <2>3. live' \in [Dirs -> SUBSET Lines] /\ rotated' \in [Dirs -> [Seconds -> SUBSET Lines]]
    BY <1>2, <2>1 DEF GatewayTypeOK
  <2>4. OneInFile'
    <3>1. \A c \in Batches : InFiles(c)' => InFiles(c) /\ sent'[c].api = sent[c].api
      BY <1>1, <2>2 DEF InFiles, At_
    <3> QED BY <1>2, <3>1 DEF FileInv, OneInFile
  <2>5. ASSUME Separate, NEW f \in Dirs PROVE FileOrder(f)'
    <3>1. FileOrder(f) /\ FileOrder(d)
      BY <1>2, <2>5 DEF FileInv
    <3>2. CASE f = d
      <4>1. rotated[d][second] = {}
        BY <1>1, <3>1 DEF FileOrder
      <4>2. /\ live'[d] = {} /\ rotated'[d][second] = live[d]
            /\ \A s \in Seconds : s # second => rotated'[d][s] = rotated[d][s]
        BY <1>2, <2>1 DEF GatewayTypeOK
      <4>3. written'[d] = live'[d] \cup UNION {rotated'[d][s] : s \in Seconds}
        <5>1. UNION {rotated'[d][s] : s \in Seconds}
                 = live[d] \cup UNION {rotated[d][s] : s \in Seconds}
          BY <1>2, <4>1, <4>2
        <5> QED BY <1>1, <3>1, <4>2, <5>1 DEF FileOrder
      <4>4. IsFiniteSet(live'[d]) /\ Cardinality(live'[d]) <= appended'[d]
        BY <1>1, <1>2, <4>2, FS_EmptySet DEF GatewayTypeOK
      <4>5. \A s \in Seconds : s > second' => rotated'[d][s] = {}
        BY <1>1, <1>2, <3>1, <4>2, Bounds DEF FileOrder
      <4>6. ASSUME NEW c \in Batches, At_(c, "rotating")' PROVE Dir(c)' # d
        <5>1. c # b /\ At_(c, "rotating") /\ InFiles(c) /\ Dir(c)' = Dir(c)
          BY <2>2, <4>6 DEF At_, InFiles, Dir
        <5>2. sent[c].api # sent[b].api
          BY <1>1, <1>2, <5>1 DEF FileInv, OneInFile
        <5>3. sent[c].api \in Apis /\ sent[b].api \in Apis
          BY <1>2, BatchRows
        <5> QED BY <2>5, <5>1, <5>2, <5>3 DEF Dir, Separate
      <4> QED BY <1>1, <3>1, <3>2, <4>3, <4>4, <4>5, <4>6 DEF FileOrder
    <3>3. CASE f # d
      <4>1. live'[f] = live[f] /\ rotated'[f] = rotated[f]
        BY <1>2, <2>1, <3>3 DEF GatewayTypeOK
      <4>2. \A c \in Batches : At_(c, "rotating")' => At_(c, "rotating") /\ Dir(c)' = Dir(c)
        BY <2>2 DEF At_, Dir
      <4> QED BY <1>1, <3>1, <4>1, <4>2 DEF FileOrder
    <3> QED BY <3>2, <3>3
  <2> QED BY <1>3, <2>1, <2>3, <2>4, <2>5 DEF GatewayInv, FileInv, Separate
<1> QED BY <1>4, <1>5

LEMMA Appends == ASSUME GatewayInv, NEW b \in Batches, Append_(b) PROVE GatewayInv'
<1> DEFINE d == Dir(b)
<1>1. /\ At_(b, "appending") /\ Running(b) /\ InFiles(b) /\ To(b, "storing")
      /\ live' = [live EXCEPT ![d] = live[d] \cup {Line(b)}]
      /\ written' = [written EXCEPT ![d] = written[d] \cup {Line(b)}]
      /\ appended' = [appended EXCEPT ![d] = appended[d] + 1] /\ appended[d] + 1 < RotateAt
      /\ UNCHANGED <<producer, rotated, topic, inserted, spans, second>>
  BY DEF Append_, storeVars, At_, Running, InFiles
<1>2. GatewayTypeOK /\ TopicOrder(b) /\ StoreOrder(b) /\ FileInv /\ d \in Dirs /\ second \in Seconds
  BY BatchRows DEF GatewayInv, BatchInv, GatewayTypeOK
<1>3. /\ sent' \in [Batches -> Sent] /\ sent'[b].phase = "storing" /\ sent'[b].kind = sent[b].kind
      /\ sent'[b].api = sent[b].api /\ sent'[b].attempt = sent[b].attempt
      /\ sent'[b].next = sent[b].next /\ Dir(b)' = d /\ Line(b)' = Line(b)
      /\ \A c \in Batches : c # b => sent'[c] = sent[c]
  BY <1>1, <1>2, Goes DEF Phases
<1>4. Line(b) \in Lines
  <2>1. 1 <= sent[b].attempt
    <3>1. 1 \in 1 .. Size /\ sent[b].next = 1
      BY <1>1, <1>2, Bounds DEF TopicOrder, At_
    <3>2. topic[b][1] < sent[b].attempt /\ topic[b][1] \in Nat /\ sent[b].attempt \in Nat
      BY <1>1, <1>2, <3>1, Numbers DEF TopicOrder
    <3> QED BY <3>2
  <2>2. sent[b].attempt \in 0 .. MaxAttempts
    BY <1>2, BatchRows
  <2> QED BY <2>1, <2>2, Bounds DEF Line, Lines
<1>5. /\ live \in [Dirs -> SUBSET Lines] /\ written \in [Dirs -> SUBSET Lines]
      /\ appended \in [Dirs -> Nat]
  BY <1>2 DEF GatewayTypeOK
<1> HIDE DEF d
<1>6. /\ live' \in [Dirs -> SUBSET Lines] /\ live'[d] = live[d] \cup {Line(b)}
      /\ written' \in [Dirs -> SUBSET Lines] /\ written'[d] = written[d] \cup {Line(b)}
      /\ \A f \in Dirs : f # d => live'[f] = live[f] /\ written'[f] = written[f]
  BY <1>1, <1>2, <1>4, <1>5
<1>7. /\ appended' \in [Dirs -> Nat] /\ appended'[d] = appended[d] + 1
      /\ \A f \in Dirs : f # d => appended'[f] = appended[f]
  BY <1>1, <1>2, <1>5
<1>8. GatewayTypeOK'
  BY <1>1, <1>2, <1>3, <1>6, <1>7 DEF GatewayTypeOK
<1>9. TopicOrder(b)' /\ StoreOrder(b)'
  <2>1. TopicOrder(b)'
    BY <1>1, <1>2, <1>3, TopicKept DEF At_
  <2>2. StoreOrder(b)'
    BY <1>3, <1>6 DEF StoreOrder, At_
  <2> QED BY <2>1, <2>2
<1>10. ASSUME NEW c \in Batches, c # b PROVE TopicOrder(c)' /\ StoreOrder(c)'
  <2>1. \A f \in Dirs : written[f] \subseteq written'[f]
    BY <1>6
  <2> QED BY <1>1, <1>2, <1>3, <1>10, <2>1, OtherBatches DEF GatewayInv, BatchInv
<1>11. OneInFile'
  <2>1. \A c \in Batches : InFiles(c)' => InFiles(c) /\ sent'[c].api = sent[c].api
    BY <1>3 DEF InFiles, At_
  <2> QED BY <1>2, <2>1 DEF FileInv, OneInFile
<1>12. ASSUME Separate, NEW f \in Dirs PROVE FileOrder(f)'
  <2>1. FileOrder(f)
    BY <1>2, <1>12 DEF FileInv
  <2>2. \A c \in Batches : At_(c, "rotating")' => At_(c, "rotating") /\ Dir(c)' = Dir(c)
    BY <1>3 DEF At_, Dir
  <2>3. CASE f # d
    BY <1>1, <1>6, <1>7, <2>1, <2>2, <2>3 DEF FileOrder
  <2>4. CASE f = d
    <3>1. IsFiniteSet(live'[d]) /\ Cardinality(live'[d]) \in Nat /\ Cardinality(live[d]) \in Nat
          /\ Cardinality(live'[d]) <= Cardinality(live[d]) + 1
      <4>1. IsFiniteSet(live[d])
        BY <2>1, <2>4 DEF FileOrder
      <4> DEFINE S == live[d]
                 x == Line(b)
      <4>2. IsFiniteSet(S) /\ live'[d] = S \cup {x}
        BY <1>6, <4>1
      <4> HIDE DEF S, x
      <4>3. IsFiniteSet(S \cup {x})
            /\ (Cardinality(S \cup {x}) = Cardinality(S)
                  \/ Cardinality(S \cup {x}) = Cardinality(S) + 1)
        BY <4>2, FS_AddElement
      <4>4. Cardinality(S) \in Nat /\ Cardinality(S \cup {x}) \in Nat
        BY <4>2, <4>3, FS_CardinalityType
      <4>5. Cardinality(S \cup {x}) <= Cardinality(S) + 1
        BY <4>3, <4>4
      <4> QED BY <4>2, <4>3, <4>4, <4>5 DEF S
    <3>2. written'[d] = live'[d] \cup UNION {rotated'[d][s] : s \in Seconds}
      BY <1>1, <1>6, <2>1, <2>4 DEF FileOrder
    <3>3. appended'[d] < RotateAt
      BY <1>1, <1>7
    <3>4. rotated[d][second] # {} => Cardinality(live'[d]) <= appended'[d]
      <4>1. appended[d] \in Nat
        BY <1>2, <1>5
      <4> QED BY <1>7, <2>1, <2>4, <3>1, <4>1 DEF FileOrder
    <3> QED BY <1>1, <2>1, <2>2, <2>4, <3>1, <3>2, <3>3, <3>4 DEF FileOrder
  <2> QED BY <2>3, <2>4
<1> QED BY <1>8, <1>9, <1>10, <1>11, <1>12 DEF GatewayInv, BatchInv, FileInv, Separate

-----------------------------------------------------------------------------
\* The steps past the file: they leave the files and the other batches alone.

LEMMA Stores ==
    ASSUME GatewayInv, NEW b \in Batches,
           UNCHANGED <<producer, live, rotated, appended, written, second>>,
           sent' \in [Batches -> Sent], topic' \in [Batches -> [1 .. Size -> Nat]],
           inserted' \in [Batches -> Nat], spans' \in [Batches -> Nat],
           \A c \in Batches \ {b} : /\ sent'[c] = sent[c] /\ topic'[c] = topic[c]
                                    /\ inserted'[c] = inserted[c] /\ spans'[c] = spans[c],
           sent'[b].phase \in {"storing", "inserting", "success", "refused"},
           TopicOrder(b)', StoreOrder(b)'
    PROVE  GatewayInv'
<1>1. GatewayTypeOK'
  BY DEF GatewayInv, GatewayTypeOK
<1>2. BatchInv'
  <2>1. ASSUME NEW c \in Batches, c # b PROVE TopicOrder(c)' /\ StoreOrder(c)'
    BY <2>1, OtherBatches DEF GatewayInv, BatchInv
  <2> QED BY <2>1 DEF BatchInv
<1>3. FileInv'
  BY FilesAlone DEF GatewayInv, InFiles, At_
<1> QED BY <1>1, <1>2, <1>3 DEF GatewayInv

\* The three facts every one of them starts from.
LEMMA Here ==
    ASSUME GatewayInv, NEW b \in Batches
    PROVE  GatewayTypeOK /\ TopicOrder(b) /\ StoreOrder(b)
BY DEF GatewayInv, BatchInv

LEMMA SendsEntry == ASSUME GatewayInv, NEW b \in Batches, SendEntry(b) PROVE GatewayInv'
<1> DEFINE n == sent[b].next
           e == [sent[b] EXCEPT !.next = n + 1]
<1>1. /\ At_(b, "storing") /\ Running(b) /\ n \in Entries(b)
      /\ topic' = [topic EXCEPT ![b] = [topic[b] EXCEPT ![n] = topic[b][n] + 1]]
      /\ sent' = [sent EXCEPT ![b] = e]
      /\ UNCHANGED <<producer, live, rotated, appended, written, inserted, spans, second>>
  BY Here DEF SendEntry, fileVars, At_, Running, GatewayTypeOK
<1>2. GatewayTypeOK /\ TopicOrder(b) /\ StoreOrder(b)
  BY Here
<1>3. n \in 1 .. Size /\ n \in Nat
  BY <1>1, <1>2, EntriesBound, Numbers
<1>4. /\ e \in Sent /\ e.phase = sent[b].phase /\ e.kind = sent[b].kind /\ e.api = sent[b].api
      /\ e.attempt = sent[b].attempt /\ e.next = n + 1
  <2>1. n + 1 \in 1 .. Size + 1
    BY <1>3, Bounds
  <2> QED BY <1>2, <2>1, BatchRows DEF Sent
<1>5. /\ topic[b] \in [1 .. Size -> Nat] /\ sent[b].attempt \in Nat
      /\ \A m \in 1 .. Size : topic[b][m] \in Nat /\ m \in Nat
  BY <1>2, Numbers
<1> HIDE DEF e, n
<1>6. /\ sent' \in [Batches -> Sent] /\ sent'[b] = e
      /\ \A c \in Batches \ {b} : sent'[c] = sent[c]
  BY <1>1, <1>2, <1>4 DEF GatewayTypeOK
<1>7. [topic[b] EXCEPT ![n] = topic[b][n] + 1] \in [1 .. Size -> Nat]
  BY <1>3, <1>5
<1>8. /\ topic' \in [Batches -> [1 .. Size -> Nat]]
      /\ topic'[b] = [topic[b] EXCEPT ![n] = topic[b][n] + 1]
      /\ \A c \in Batches \ {b} : topic'[c] = topic[c]
  BY <1>1, <1>2, <1>7 DEF GatewayTypeOK
<1>9. topic'[b][n] = topic[b][n] + 1 /\ \A m \in 1 .. Size : m # n => topic'[b][m] = topic[b][m]
  BY <1>3, <1>5, <1>8
<1>10. TopicOrder(b)'
  <2>1. /\ \A m \in 1 .. Size : topic[b][m] <= sent[b].attempt
        /\ \A l, m \in 1 .. Size : l <= m => topic[b][m] <= topic[b][l]
        /\ \A m \in 1 .. Size : m < n => topic[b][m] > 0
        /\ \A m \in 1 .. Size : m >= n => topic[b][m] < sent[b].attempt
        /\ \A l, m \in 1 .. Size : l < n /\ m >= n => topic[b][m] < topic[b][l]
    BY <1>1, <1>2 DEF TopicOrder, n
  <2>2. ASSUME NEW m \in 1 .. Size
        PROVE  /\ topic'[b][m] <= sent[b].attempt /\ (m < n + 1 => topic'[b][m] > 0)
               /\ (m >= n + 1 => topic'[b][m] < sent[b].attempt)
    <3>1. CASE m = n
      <4>1. topic[b][n] < sent[b].attempt /\ topic[b][n] \in Nat
        BY <1>3, <1>5, <2>1
      <4> QED BY <1>3, <1>5, <1>9, <3>1, <4>1
    <3>2. CASE m # n
      BY <1>3, <1>5, <1>9, <2>1, <3>2
    <3> QED BY <3>1, <3>2
  <2>3. ASSUME NEW l \in 1 .. Size, NEW m \in 1 .. Size
        PROVE  /\ l <= m => topic'[b][m] <= topic'[b][l]
               /\ l < n + 1 /\ m >= n + 1 => topic'[b][m] < topic'[b][l]
    <3>1. /\ l \in Nat /\ m \in Nat /\ topic[b][l] \in Nat /\ topic[b][m] \in Nat
          /\ (l <= m => topic[b][m] <= topic[b][l])
          /\ (l < n /\ m >= n => topic[b][m] < topic[b][l])
      BY <1>5, <2>1
    <3>2. (l = n => topic'[b][l] = topic[b][l] + 1) /\ (l # n => topic'[b][l] = topic[b][l])
      BY <1>9
    <3>3. (m = n => topic'[b][m] = topic[b][m] + 1) /\ (m # n => topic'[b][m] = topic[b][m])
      BY <1>9
    <3> QED BY <1>3, <3>1, <3>2, <3>3
  <2>4. sent'[b].attempt = sent[b].attempt /\ sent'[b].next = n + 1 /\ sent'[b].phase = "storing"
    BY <1>1, <1>4, <1>6 DEF At_
  <2> QED BY <2>2, <2>3, <2>4 DEF TopicOrder, At_
<1>11. StoreOrder(b)'
  BY <1>1, <1>2, <1>4, <1>6 DEF StoreOrder, At_, Line, Dir
<1>12. sent'[b].phase \in {"storing", "inserting", "success", "refused"}
  BY <1>1, <1>4, <1>6 DEF At_
<1>13. inserted' \in [Batches -> Nat] /\ spans' \in [Batches -> Nat]
  BY <1>1, <1>2 DEF GatewayTypeOK
<1> QED BY <1>1, <1>6, <1>8, <1>10, <1>11, <1>12, <1>13, Stores

LEMMA FailsToSend ==
    ASSUME GatewayInv, NEW b \in Batches, NEW reached \in BOOLEAN, FailSend(b, reached)
    PROVE  GatewayInv'
<1> DEFINE n == sent[b].next
           k == IF reached THEN 1 ELSE 0
<1>1. /\ At_(b, "storing") /\ Running(b) /\ n \in Entries(b) /\ To(b, "refused")
      /\ topic' = [topic EXCEPT ![b] = [topic[b] EXCEPT ![n] = topic[b][n] + k]]
      /\ UNCHANGED <<producer, live, rotated, appended, written, inserted, spans, second>>
  BY Here DEF FailSend, fileVars, At_, Running, GatewayTypeOK
<1>2. GatewayTypeOK /\ TopicOrder(b) /\ k \in {0, 1} /\ n \in 1 .. Size
      /\ topic[b] \in [1 .. Size -> Nat]
  BY <1>1, Here, EntriesBound, BatchRows
<1> HIDE DEF k
<1>3. [topic[b] EXCEPT ![n] = topic[b][n] + k] \in [1 .. Size -> Nat]
  <2> HIDE DEF n
  <2>1. topic[b][n] \in Nat
    BY <1>2
  <2>2. topic[b][n] + k \in Nat
    BY <1>2, <2>1
  <2> QED BY <1>2, <2>2
<1>4. /\ topic' \in [Batches -> [1 .. Size -> Nat]]
      /\ topic'[b] = [topic[b] EXCEPT ![n] = topic[b][n] + k]
      /\ \A c \in Batches \ {b} : topic'[c] = topic[c]
  BY <1>1, <1>2, <1>3 DEF GatewayTypeOK
<1>5. /\ sent' \in [Batches -> Sent] /\ sent'[b].phase = "refused"
      /\ sent'[b] = [sent[b] EXCEPT !.phase = "refused"]
      /\ \A c \in Batches \ {b} : sent'[c] = sent[c]
  BY <1>1, <1>2, Goes DEF Phases
<1>6. TopicOrder(b)' /\ StoreOrder(b)'
  <2>1. topic'[b] \in [1 .. Size -> Nat]
    BY <1>4
  <2> QED BY <1>1, <1>2, <1>4, <1>5, <2>1, Refused
<1>7. inserted' \in [Batches -> Nat] /\ spans' \in [Batches -> Nat]
  BY <1>1, <1>2 DEF GatewayTypeOK
<1> QED BY <1>1, <1>4, <1>5, <1>6, <1>7, Stores

\* The other steps leave the topic alone; what they add to ClickHouse and to the
\* database is for their own batch.
LEMMA StoresElsewhere ==
    ASSUME GatewayInv, NEW b \in Batches, NEW p \in {"inserting", "success", "refused"}, To(b, p),
           Running(b), ~InFiles(b),
           UNCHANGED <<producer, live, rotated, appended, written, topic, second>>,
           NEW i \in {0, 1}, inserted' = [inserted EXCEPT ![b] = inserted[b] + i],
           NEW s \in {0, 1}, spans' = [spans EXCEPT ![b] = spans[b] + s],
           p = "inserting" => sent[b].kind = "/v1/traces" /\ s = 1,
           p = "success" =>
               /\ sent[b].kind = "/v1/traces" => At_(b, "inserting")
               /\ sent[b].kind = "/traces/v1/traces" => topic[b][1] + inserted[b] + i > 0
               /\ sent[b].kind \in Appending => At_(b, "storing")
    PROVE  GatewayInv'
<1>1. GatewayTypeOK /\ TopicOrder(b) /\ StoreOrder(b) /\ p \in Phases
  BY Here DEF Phases
<1>2. /\ sent' \in [Batches -> Sent] /\ sent'[b].phase = p
      /\ sent'[b].kind = sent[b].kind /\ sent'[b].api = sent[b].api
      /\ sent'[b].attempt = sent[b].attempt /\ sent'[b].next = sent[b].next
      /\ Dir(b)' = Dir(b) /\ Line(b)' = Line(b)
      /\ \A c \in Batches \ {b} : sent'[c] = sent[c]
  BY <1>1, Goes
<1>3. /\ inserted[b] \in Nat /\ spans[b] \in Nat
      /\ inserted \in [Batches -> Nat] /\ spans \in [Batches -> Nat]
      /\ topic \in [Batches -> [1 .. Size -> Nat]]
  BY <1>1 DEF GatewayTypeOK
<1>4. /\ inserted' \in [Batches -> Nat] /\ inserted'[b] = inserted[b] + i
      /\ spans' \in [Batches -> Nat] /\ spans'[b] = spans[b] + s
      /\ \A c \in Batches \ {b} : inserted'[c] = inserted[c] /\ spans'[c] = spans[c]
  BY <1>3
<1>5. TopicOrder(b)'
  BY <1>1, <1>2, TopicKept DEF At_
<1>6. StoreOrder(b)'
  <2>1. p = "inserting" => sent'[b].kind = "/v1/traces" /\ spans'[b] > 0
    BY <1>2, <1>3, <1>4
  <2>2. p = "success" /\ sent'[b].kind = "/v1/traces" => spans'[b] > 0
    <3>1. ASSUME p = "success", sent'[b].kind = "/v1/traces" PROVE spans[b] > 0
      BY <1>1, <1>2, <3>1 DEF StoreOrder
    <3> QED BY <1>3, <1>4, <3>1
  <2>3. p = "success" /\ sent'[b].kind = "/traces/v1/traces" => topic'[b][1] + inserted'[b] > 0
    <3>1. topic[b][1] \in Nat
      BY <1>3, Bounds
    <3> QED BY <1>2, <1>3, <1>4, <3>1
  <2>4. p = "success" /\ sent'[b].kind \in Appending => Line(b)' \in written'[Dir(b)']
    BY <1>1, <1>2 DEF StoreOrder
  <2>5. p # "storing"
    OBVIOUS
  <2> QED BY <1>2, <2>1, <2>2, <2>3, <2>4, <2>5 DEF StoreOrder, At_
<1>7. topic' \in [Batches -> [1 .. Size -> Nat]]
      /\ \A c \in Batches \ {b} : topic'[c] = topic[c]
  BY <1>3
<1>8. sent'[b].phase \in {"storing", "inserting", "success", "refused"}
  BY <1>2
<1> QED BY <1>2, <1>4, <1>5, <1>6, <1>7, <1>8, Stores

LEMMA Answers ==
    ASSUME GatewayInv, NEW b \in Batches, NEW ok \in BOOLEAN,
           AnswerSent(b) \/ InsertDirect(b, ok) \/ CommitSpans(b, ok) \/ InsertSpans(b, ok)
    PROVE  GatewayInv'
<1> DEFINE k == IF ok THEN 1 ELSE 0
<1>1. GatewayTypeOK /\ TopicOrder(b) /\ StoreOrder(b)
  BY Here
<1>2. /\ inserted \in [Batches -> Nat] /\ spans \in [Batches -> Nat]
      /\ topic[b][1] \in Nat /\ inserted[b] \in Nat /\ spans[b] \in Nat
  BY <1>1, BatchRows, Bounds DEF GatewayTypeOK
<1>3. /\ inserted = [inserted EXCEPT ![b] = inserted[b] + 0]
      /\ spans = [spans EXCEPT ![b] = spans[b] + 0]
  BY <1>2
<1>4. k \in {0, 1} /\ (k = 0 <=> ~ok)
  OBVIOUS
<1>5. CASE AnswerSent(b)
  <2>1. /\ To(b, "success") /\ Running(b) /\ ~InFiles(b) /\ At_(b, "storing")
        /\ UsesKafka(b) /\ AllSent(b)
        /\ UNCHANGED <<producer, live, rotated, appended, written, topic, inserted, spans, second>>
    BY <1>5 DEF AnswerSent, fileVars, storeVars, At_, Running, InFiles
  <2>2. sent[b].kind = "/traces/v1/traces" => topic[b][1] > 0
    <3>1. SUFFICES ASSUME sent[b].kind = "/traces/v1/traces" PROVE topic[b][1] > 0
      OBVIOUS
    <3>2. Entries(b) = 1 .. 1
      BY <3>1 DEF Entries
    <3>3. sent[b].next \notin 1 .. 1 /\ sent[b].next \in 1 .. Size + 1
      BY <1>1, <2>1, <3>2, BatchRows DEF AllSent
    <3>4. 1 < sent[b].next /\ 1 \in 1 .. Size
      BY <3>3, Bounds
    <3> QED BY <1>1, <3>4 DEF TopicOrder
  <2>3. sent[b].kind # "/v1/traces"
    BY <2>1 DEF UsesKafka
  <2>4. sent[b].kind = "/traces/v1/traces" => topic[b][1] + inserted[b] + 0 > 0
    BY <1>2, <2>2
  <2>5. /\ inserted' = [inserted EXCEPT ![b] = inserted[b] + 0]
        /\ spans' = [spans EXCEPT ![b] = spans[b] + 0]
    BY <1>3, <2>1
  <2> QED BY <2>1, <2>3, <2>4, <2>5, StoresElsewhere
<1>6. CASE InsertDirect(b, ok)
  <2> DEFINE p == IF ~ok /\ RefusalIsError(b) THEN "refused" ELSE "success"
  <2>1. /\ To(b, p) /\ Running(b) /\ ~InFiles(b) /\ At_(b, "storing")
        /\ sent[b].kind # "/v1/traces" /\ inserted' = [inserted EXCEPT ![b] = inserted[b] + k]
        /\ UNCHANGED <<producer, live, rotated, appended, written, topic, spans, second>>
    BY <1>6 DEF InsertDirect, fileVars, At_, Running, InFiles
  <2>2. p \in {"inserting", "success", "refused"} /\ p # "inserting"
        /\ (p = "success" /\ sent[b].kind = "/traces/v1/traces" => ok)
    BY DEF RefusalIsError
  <2> HIDE DEF p, k
  <2>3. p = "success" /\ sent[b].kind = "/traces/v1/traces" => topic[b][1] + inserted[b] + k > 0
    BY <1>2, <1>4, <2>2
  <2>4. spans' = [spans EXCEPT ![b] = spans[b] + 0]
    BY <1>3, <2>1
  <2> QED BY <1>4, <2>1, <2>2, <2>3, <2>4, StoresElsewhere
<1>7. CASE CommitSpans(b, ok)
  <2> DEFINE p == IF ok THEN "inserting" ELSE "refused"
  <2>1. /\ To(b, p) /\ Running(b) /\ ~InFiles(b)
        /\ sent[b].kind = "/v1/traces" /\ spans' = [spans EXCEPT ![b] = spans[b] + k]
        /\ UNCHANGED <<producer, live, rotated, appended, written, topic, inserted, second>>
    BY <1>7 DEF CommitSpans, fileVars, At_, Running, InFiles
  <2>2. p \in {"inserting", "success", "refused"} /\ p # "success" /\ (p = "inserting" => k = 1)
    OBVIOUS
  <2> HIDE DEF p, k
  <2>3. inserted' = [inserted EXCEPT ![b] = inserted[b] + 0]
    BY <1>3, <2>1
  <2> QED BY <1>4, <2>1, <2>2, <2>3, StoresElsewhere
<1>8. CASE InsertSpans(b, ok)
  <2>1. /\ To(b, "success") /\ Running(b) /\ ~InFiles(b) /\ At_(b, "inserting")
        /\ inserted' = [inserted EXCEPT ![b] = inserted[b] + k]
        /\ UNCHANGED <<producer, live, rotated, appended, written, topic, spans, second>>
    BY <1>8 DEF InsertSpans, fileVars, At_, Running, InFiles
  <2>2. sent[b].kind = "/v1/traces" /\ sent[b].kind \notin Appending
    BY <1>1, <2>1 DEF StoreOrder, Appending
  <2> HIDE DEF k
  <2>3. spans' = [spans EXCEPT ![b] = spans[b] + 0]
    BY <1>3, <2>1
  <2> QED BY <1>4, <2>1, <2>2, <2>3, StoresElsewhere
<1> QED BY <1>5, <1>6, <1>7, <1>8

-----------------------------------------------------------------------------
\* The death of a process, and the clock.

LEMMA Restarts ==
    ASSUME GatewayInv, NEW a \in Apis, NEW k \in BOOLEAN, RestartApi(a, k)
    PROVE  GatewayInv'
<1>1. /\ producer' = [producer EXCEPT ![a] = k]
      /\ sent' = [b \in Batches |->
                     IF Underway(b, a) THEN [sent[b] EXCEPT !.phase = "refused"] ELSE sent[b]]
      /\ UNCHANGED <<live, rotated, appended, written, topic, inserted, spans, second>>
  BY DEF RestartApi, fileVars, storeVars
<1>2. GatewayTypeOK
  BY DEF GatewayInv
<1>3. ASSUME NEW b \in Batches
      PROVE  /\ sent'[b] \in Sent
             /\ \/ sent'[b] = sent[b]
                \/ sent'[b] = [sent[b] EXCEPT !.phase = "refused"] /\ sent'[b].phase = "refused"
  <2>1. sent[b] \in Sent
    BY <1>2 DEF GatewayTypeOK
  <2>2. /\ [sent[b] EXCEPT !.phase = "refused"] \in Sent
        /\ [sent[b] EXCEPT !.phase = "refused"].phase = "refused"
    BY <2>1 DEF Sent, Phases
  <2> QED BY <1>1, <2>1, <2>2
<1>4. GatewayTypeOK'
  <2>1. sent' \in [Batches -> Sent]
    BY <1>1, <1>3
  <2> QED BY <1>1, <1>2, <2>1 DEF GatewayTypeOK
<1>5. ASSUME NEW b \in Batches PROVE TopicOrder(b)' /\ StoreOrder(b)'
  <2>1. TopicOrder(b) /\ StoreOrder(b)
    BY Here
  <2>2. CASE sent'[b] = sent[b]
    BY <1>1, <1>2, <2>1, <2>2, OtherBatches
  <2>3. CASE sent'[b] = [sent[b] EXCEPT !.phase = "refused"]
    <3>1. topic'[b] = topic[b] /\ topic'[b] \in [1 .. Size -> Nat]
      BY <1>1, <1>2, BatchRows
    <3> QED BY <1>2, <2>1, <2>3, <3>1, Refused
  <2> QED BY <1>3, <2>2, <2>3
<1>6. FileInv'
  <2>1. \A b \in Batches :
          InFiles(b)' => sent'[b].phase = sent[b].phase /\ sent'[b].api = sent[b].api
    BY <1>3 DEF InFiles, At_
  <2> QED BY <1>1, <1>2, <2>1, FilesAlone DEF GatewayInv
<1> QED BY <1>4, <1>5, <1>6 DEF GatewayInv, BatchInv

LEMMA Ticks == ASSUME GatewayInv, TickSecond PROVE GatewayInv'
<1>1. /\ second < MaxSeconds /\ second' = second + 1 /\ appended' = [d \in Dirs |-> 0]
      /\ UNCHANGED <<producer, sent, live, rotated, written, topic, inserted, spans>>
  BY DEF TickSecond, storeVars
<1>2. GatewayTypeOK
  BY DEF GatewayInv
<1>3. second \in Nat /\ second' \in Seconds
  BY <1>1, <1>2, Bounds DEF GatewayTypeOK, Seconds
<1>4. GatewayTypeOK'
  BY <1>1, <1>2, <1>3 DEF GatewayTypeOK
<1>5. BatchInv'
  <2>1. ASSUME NEW b \in Batches PROVE TopicOrder(b)' /\ StoreOrder(b)'
    BY <1>1, <1>2, Here, OtherBatches
  <2> QED BY <2>1 DEF BatchInv
<1>6. OneInFile'
  BY <1>1 DEF GatewayInv, FileInv, OneInFile, InFiles, At_
<1>7. ASSUME Separate, NEW d \in Dirs PROVE FileOrder(d)'
  <2>1. FileOrder(d)
    BY <1>7 DEF GatewayInv, FileInv
  <2>2. rotated'[d][second'] = {} /\ \A s \in Seconds : s > second' => rotated'[d][s] = {}
    BY <1>1, <1>3, <2>1, Bounds DEF FileOrder
  <2>3. appended'[d] < RotateAt
    BY <1>1, Bounds
  <2> QED BY <1>1, <2>1, <2>2, <2>3 DEF FileOrder
<1> QED BY <1>4, <1>5, <1>6, <1>7 DEF GatewayInv, FileInv, Separate

LEMMA GatewayPreserved == GatewayInv /\ [GatewayNext]_gatewayVars => GatewayInv'
<1> SUFFICES ASSUME GatewayInv, [GatewayNext]_gatewayVars PROVE GatewayInv'
  OBVIOUS
<1>1. CASE UNCHANGED gatewayVars
  <2>1. UNCHANGED <<producer, sent, live, rotated, appended, topic, inserted, spans, second, written>>
    BY <1>1 DEF gatewayVars
  <2>2. GatewayTypeOK' /\ GatewayTypeOK
    BY <2>1 DEF GatewayInv, GatewayTypeOK
  <2>3. BatchInv'
    <3>1. ASSUME NEW b \in Batches PROVE TopicOrder(b)' /\ StoreOrder(b)'
      BY <2>1, <2>2, Here, OtherBatches
    <3> QED BY <3>1 DEF BatchInv
  <2>4. FileInv'
    BY <2>1, <2>2, FilesAlone DEF GatewayInv
  <2> QED BY <2>2, <2>3, <2>4 DEF GatewayInv
<1>2. CASE TickSecond
  BY <1>2, Ticks
<1>3. CASE \E a \in Apis, k \in BOOLEAN : RestartApi(a, k)
  BY <1>3, Restarts
<1>4. CASE \E b \in Batches, a \in Apis, kind \in Endpoints : Receive(b, a, kind)
  BY <1>4, Receives
<1>5. CASE \E b \in Batches : Rotate(b) \/ Append_(b) \/ SendEntry(b) \/ AnswerSent(b)
  BY <1>5, Rotates, Appends, SendsEntry, Answers
<1>6. CASE \E b \in Batches, ok \in BOOLEAN :
             FailSend(b, ok) \/ InsertDirect(b, ok) \/ CommitSpans(b, ok) \/ InsertSpans(b, ok)
  BY <1>6, FailsToSend, Answers
<1> QED BY <1>1, <1>2, <1>3, <1>4, <1>5, <1>6 DEF GatewayNext

\* Success means kept; a repeated batch duplicates at most the prefix that had arrived; and
\* with a directory to each process a rotation costs no line.
THEOREM AnswersAreKept == GatewaySpec => []AnswersHold
<1>1. GatewayInv => AnswersHold
  <2> SUFFICES ASSUME GatewayInv PROVE AnswersHold
    OBVIOUS
  <2>1. AcknowledgedIsKept
    <3> SUFFICES ASSUME NEW b \in Batches, At_(b, "success")
                 PROVE  /\ sent[b].kind \in Appending => Filed(b)
                        /\ AllSent(b) => \A n \in Entries(b) : topic[b][n] > 0
                        /\ sent[b].kind = "/v1/traces" => spans[b] > 0
                        /\ sent[b].kind = "/traces/v1/traces" => topic[b][1] + inserted[b] > 0
      BY DEF AcknowledgedIsKept
    <3>1. GatewayTypeOK /\ TopicOrder(b) /\ StoreOrder(b)
      BY Here
    <3>2. ASSUME sent[b].kind \in Appending PROVE Filed(b)
      <4>1. Dir(b) \in Dirs /\ Line(b) \in written[Dir(b)]
        BY <3>1, <3>2, BatchRows DEF StoreOrder
      <4>2. Line(b) \in Lines
        BY <3>1, <4>1 DEF GatewayTypeOK
      <4>3. sent[b].attempt \in 1 .. MaxAttempts
        BY <4>2 DEF Line, Lines
      <4> QED BY <4>1, <4>3 DEF Filed, Line
    <3>3. ASSUME AllSent(b), NEW n \in Entries(b) PROVE topic[b][n] > 0
      <4>1. n \in 1 .. Size /\ sent[b].next \in 1 .. Size + 1
        BY <3>1, EntriesBound, BatchRows
      <4>2. n < sent[b].next
        BY <3>3, <4>1, Bounds DEF AllSent, Entries
      <4> QED BY <3>1, <4>1, <4>2 DEF TopicOrder
    <3> QED BY <3>1, <3>2, <3>3 DEF StoreOrder
  <2>2. RetriesDuplicatePrefix
    <3> SUFFICES ASSUME NEW b \in Batches, NEW n \in Entries(b)
                 PROVE  /\ topic[b][n] <= sent[b].attempt
                        /\ n + 1 \in Entries(b) => topic[b][n + 1] <= topic[b][n]
      BY DEF RetriesDuplicatePrefix
    <3>1. n \in 1 .. Size /\ (n + 1 \in Entries(b) => n + 1 \in 1 .. Size)
      BY EntriesBound
    <3>2. n <= n + 1
      BY <3>1, Bounds
    <3> QED BY <3>1, <3>2, Here DEF TopicOrder
  <2>3. LinesKept
    BY DEF LinesKept, GatewayInv, FileInv, Separate, FileOrder
  <2> QED BY <2>1, <2>2, <2>3 DEF AnswersHold
<1> QED BY GatewayInitially, GatewayPreserved, <1>1, PTL DEF GatewaySpec

-----------------------------------------------------------------------------
(***************************************************************************)
(* Documents.  last says what each field of a document holds.              *)
(***************************************************************************)
Keys == {"id", "kind", "tenant", "name", "body"}
Values == Texts \cup {0}

\* Documents have ids of their own, given in order; last says what each field holds.
DocTypeOK ==
    /\ made \in Nat /\ last \in Seq([Fields -> Values]) /\ Len(last) = made
    /\ DOMAIN edit = Edits
    /\ \A x \in Edits : edit[x].on => edit[x].sets \in GivenFields
Holds(d) ==
    /\ DOMAIN d = Keys /\ d.id \in 1 .. made
    /\ \A f \in Fields : d[f] = last[d.id][f]
OwnIds == \A d, e \in docs : d.id = e.id => d = e
DocInv == DocTypeOK /\ OwnIds /\ \A d \in docs : Holds(d)

-----------------------------------------------------------------------------
LEMMA DocInitially == DocInit => DocInv
<1> SUFFICES ASSUME DocInit PROVE DocInv
  OBVIOUS
<1>1. docs = {} /\ made = 0 /\ last = <<>>
  BY DEF DocInit
<1>2. DOMAIN edit = Edits /\ \A x \in Edits : ~edit[x].on
  BY DEF DocInit
<1>3. last \in Seq([Fields -> Values]) /\ Len(last) = 0
  BY <1>1
<1> QED BY <1>1, <1>2, <1>3 DEF DocInv, DocTypeOK, OwnIds

\* A new document has an id that none has had, and an entry of its own in last.
LEMMA Creates ==
    ASSUME DocInv, NEW kind, NEW u, CreateDocument(kind, u)
    PROVE  DocInv'
<1> DEFINE n == [id |-> made + 1, kind |-> kind, tenant |-> u, name |-> 0, body |-> 0]
           l == [f \in Fields |-> 0]
<1>1. made' = made + 1 /\ docs' = docs \cup {n} /\ last' = Append(last, l) /\ edit' = edit
  BY DEF CreateDocument
<1>2. made \in Nat /\ last \in Seq([Fields -> Values]) /\ Len(last) = made
      /\ OwnIds /\ \A d \in docs : Holds(d)
  BY DEF DocInv, DocTypeOK
<1>3. l \in [Fields -> Values] /\ \A f \in Fields : l[f] = 0
  BY DEF Values
<1>4. DOMAIN n = Keys /\ n.id = made + 1 /\ \A f \in Fields : n[f] = 0
  BY DEF Keys, Fields
<1> HIDE DEF n, l
<1>5. /\ last' \in Seq([Fields -> Values]) /\ Len(last') = made + 1 /\ last'[made + 1] = l
      /\ \A i \in 1 .. made : last'[i] = last[i]
  BY <1>1, <1>2, <1>3, AppendProperties
<1>6. DocTypeOK'
  BY <1>1, <1>2, <1>5 DEF DocInv, DocTypeOK, GivenFields
<1>7. \A d \in docs : d.id \in 1 .. made /\ d.id # made + 1
  BY <1>2 DEF Holds
<1>8. OwnIds'
  BY <1>1, <1>2, <1>4, <1>7 DEF OwnIds
<1>9. ASSUME NEW d \in docs' PROVE Holds(d)'
  <2>1. CASE d \in docs
    BY <1>1, <1>2, <1>5, <1>7, <2>1 DEF Holds
  <2>2. CASE d = n
    <3>1. d.id = made + 1 /\ made + 1 \in 1 .. made'
      BY <1>1, <1>2, <1>4, <2>2
    <3> QED BY <1>3, <1>4, <1>5, <2>2, <3>1 DEF Holds
  <2> QED BY <1>1, <1>9, <2>1, <2>2
<1> QED BY <1>6, <1>8, <1>9 DEF DocInv

LEMMA Begins ==
    ASSUME DocInv, NEW x \in Edits, NEW d, NEW u, NEW sets \in GivenFields, BeginUpdate(x, d, u, sets)
    PROVE  DocInv'
<1>1. /\ edit' = [edit EXCEPT ![x] = [on |-> TRUE, seen |-> d, sets |-> sets]]
      /\ UNCHANGED <<docs, made, last>>
  BY DEF BeginUpdate
<1>2. DOMAIN edit' = Edits /\ \A y \in Edits : edit'[y].on => edit'[y].sets \in GivenFields
  <2>1. DOMAIN edit = Edits /\ \A y \in Edits : edit[y].on => edit[y].sets \in GivenFields
    BY DEF DocInv, DocTypeOK
  <2>2. /\ DOMAIN edit' = Edits /\ edit'[x] = [on |-> TRUE, seen |-> d, sets |-> sets]
        /\ \A y \in Edits : y # x => edit'[y] = edit[y]
    BY <1>1, <2>1
  <2> QED BY <2>1, <2>2
<1> QED BY <1>1, <1>2 DEF DocInv, DocTypeOK, OwnIds, Holds, GivenFields

LEMMA Deletes ==
    ASSUME DocInv, NEW d, NEW kind, NEW u, DeleteDocument(d, kind, u)
    PROVE  DocInv'
BY DEF DeleteDocument, DocInv, DocTypeOK, OwnIds, Holds, GivenFields

\* The fields an update changes, and no other, get its values: in the row as it is by
\* then, not as the update has seen it.
LEMMA Commits ==
    ASSUME DocInv, NEW x \in Edits, CommitUpdate(x)
    PROVE  DocInv'
<1> DEFINE id == edit[x].seen.id
           present == {d \in docs : d.id = id}
           l == [f \in Fields |-> IF f \in Changed(x) THEN edit[x].sets[f] ELSE last[id][f]]
<1>1. /\ edit' = [edit EXCEPT ![x] = [on |-> FALSE]] /\ edit[x].on
      /\ docs' = (docs \ present) \cup {Written_(x, d) : d \in present}
      /\ last' = IF present = {} THEN last ELSE [last EXCEPT ![id] = l]
      /\ made' = made
  BY DEF CommitUpdate
<1>2. made \in Nat /\ last \in Seq([Fields -> Values]) /\ Len(last) = made
      /\ OwnIds /\ \A d \in docs : Holds(d)
  BY DEF DocInv, DocTypeOK
<1>3. edit[x].sets \in GivenFields
  BY <1>1 DEF DocInv, DocTypeOK
<1>4. PICK fs \in SUBSET Fields : edit[x].sets \in [fs -> Texts]
  BY <1>3 DEF GivenFields
<1>5. Changed(x) \subseteq Fields /\ \A f \in Changed(x) : edit[x].sets[f] \in Texts
  BY <1>4 DEF Changed
<1>6. DOMAIN edit' = Edits /\ \A y \in Edits : edit'[y].on => edit'[y].sets \in GivenFields
  <2>1. DOMAIN edit = Edits /\ \A y \in Edits : edit[y].on => edit[y].sets \in GivenFields
    BY DEF DocInv, DocTypeOK
  <2>2. DOMAIN edit' = Edits /\ edit'[x] = [on |-> FALSE]
        /\ \A y \in Edits : y # x => edit'[y] = edit[y]
    BY <1>1, <2>1
  <2> QED BY <2>1, <2>2
<1>7. ASSUME NEW d \in present
      PROVE  LET w == Written_(x, d) IN
             /\ DOMAIN w = Keys /\ w.id = id /\ \A f \in Fields : w[f] = l[f]
             /\ id \in 1 .. made
  <2>1. DOMAIN d = Keys /\ d.id = id /\ id \in 1 .. made /\ \A f \in Fields : d[f] = last[id][f]
    BY <1>2 DEF Holds
  <2>2. Written_(x, d) = [f \in Keys |-> IF f \in Changed(x) THEN edit[x].sets[f] ELSE d[f]]
    BY <2>1 DEF Written_
  <2>3. Fields \subseteq Keys /\ "id" \in Keys /\ "id" \notin Changed(x)
    BY <1>5 DEF Fields, Keys
  <2>4. Written_(x, d)["id"] = d["id"]
    BY <2>2, <2>3
  <2>5. \A f \in Fields : Written_(x, d)[f] = l[f]
    BY <2>1, <2>2, <2>3
  <2> QED BY <2>1, <2>2, <2>4, <2>5
<1>8. CASE present = {}
  <2>1. docs' = docs /\ last' = last
    BY <1>1, <1>8
  <2>2. DocTypeOK'
    BY <1>1, <1>2, <1>6, <2>1 DEF DocTypeOK, GivenFields
  <2>3. OwnIds' /\ \A d \in docs' : Holds(d)'
    BY <1>1, <1>2, <2>1 DEF OwnIds, Holds
  <2> QED BY <2>2, <2>3 DEF DocInv
<1>9. CASE present # {}
  <2>1. id \in 1 .. made
    BY <1>7, <1>9
  <2>2. l \in [Fields -> Values]
    <3>1. last[id] \in [Fields -> Values]
      BY <1>2, <2>1
    <3> QED BY <1>5, <3>1 DEF Values
  <2>3. last' = [last EXCEPT ![id] = l] /\ last \in Seq([Fields -> Values]) /\ id \in 1 .. Len(last)
    BY <1>1, <1>2, <1>9, <2>1
  <2> HIDE DEF l, id, present
  <2>4. /\ last' \in Seq([Fields -> Values]) /\ Len(last') = made /\ last'[id] = l
        /\ \A i \in 1 .. made : i # id => last'[i] = last[i]
    BY <1>2, <2>3, <2>2, ExceptSeq
  <2> USE DEF id, present
  <2>5. ASSUME NEW d \in docs' PROVE Holds(d)'
    <3>1. CASE d \in docs \ present
      <4>1. Holds(d) /\ d.id # id
        BY <1>2, <3>1
      <4> QED BY <1>1, <2>4, <4>1 DEF Holds
    <3>2. CASE d \in {Written_(x, e) : e \in present}
      <4>1. DOMAIN d = Keys /\ d.id = id /\ \A f \in Fields : d[f] = l[f]
        BY <1>7, <3>2
      <4> QED BY <1>1, <2>1, <2>4, <4>1 DEF Holds
    <3> QED BY <1>1, <2>5, <3>1, <3>2
  <2>6. OwnIds'
    <3>1. PICK p \in present : present = {p}
      BY <1>2, <1>9 DEF OwnIds
    <3>2. docs' = (docs \ present) \cup {Written_(x, p)} /\ Written_(x, p).id = id
      BY <1>1, <1>7, <3>1
    <3>3. \A d \in docs \ present : d.id # id
      OBVIOUS
    <3> QED BY <1>2, <3>2, <3>3 DEF OwnIds
  <2> QED BY <1>1, <1>6, <2>4, <2>5, <2>6 DEF DocInv, DocTypeOK, GivenFields
<1> QED BY <1>8, <1>9

\* The widgets and the incidents leave the documents alone.
LEMMA WidgetsAlone ==
    ASSUME DocInv, UNCHANGED <<docs, edit, made, last>>
    PROVE  DocInv'
BY DEF DocInv, DocTypeOK, OwnIds, Holds, GivenFields

LEMMA DocPreserved == DocInv /\ [DocNext]_docVars => DocInv'
<1> SUFFICES ASSUME DocInv, [DocNext]_docVars PROVE DocInv'
  OBVIOUS
<1>1. CASE UNCHANGED docVars
  BY <1>1, WidgetsAlone DEF docVars
<1>2. ASSUME NEW u \in Owners, Create(u) PROVE DocInv'
  BY <1>2, Creates DEF Create, CreateDashboard, CreateNotebook, CreateMonitor, CreateMetricRule,
     CreateIntegration, CreateDeployment, CreateSlo, CreateSavedQuery
<1>3. ASSUME NEW d \in docs, NEW u \in Owners, Delete(d, u) PROVE DocInv'
  BY <1>3, Deletes DEF Delete, DeleteDashboard, DeleteNotebook, DeleteMonitor, DeleteMetricRule,
     DeleteIntegration, DeleteSlo, DeleteSavedQuery
<1>4. ASSUME NEW d \in docs, NEW u \in Owners, NEW x \in Edits, NEW sets \in GivenFields,
             UpdateDashboard(x, d, u, sets) \/ UpdateNotebook(x, d, u, sets)
               \/ UpdateMonitor(x, d, u, sets)
      PROVE  DocInv'
  BY <1>4, Begins DEF UpdateDashboard, UpdateNotebook, UpdateMonitor
<1>5. ASSUME NEW d \in docs, NEW u \in Owners, NEW x \in Edits, NEW until \in Texts,
             MuteMonitor(x, d, u, until)
      PROVE  DocInv'
  <2> DEFINE sets == [f \in {"body"} |-> until]
  <2>1. {"body"} \in (SUBSET Fields) \ {{}}
    BY DEF Fields
  <2>2. sets \in [{"body"} -> Texts]
    OBVIOUS
  <2> HIDE DEF sets
  <2>3. sets \in GivenFields
    BY <2>1, <2>2 DEF GivenFields
  <2>4. BeginUpdate(x, d, u, sets)
    BY <1>5 DEF MuteMonitor, sets
  <2> QED BY <2>3, <2>4, Begins
<1>6. ASSUME NEW x \in Edits, CommitUpdate(x) PROVE DocInv'
  BY <1>6, Commits
<1>7. CASE \/ LaterDay \/ ShowPie \/ ShowHeatmap \/ CountAll \/ ShowGauge
           \/ \E score \in 0 .. MaxScore : OpenOne(score)
           \/ \E i \in incidents : ResolveOne(i)
           \/ ShowSeries({}) \/ \E since \in 0 .. now_ : ShowSeries({since})
  <2>1. UNCHANGED <<docs, edit, made, last>>
    BY <1>7 DEF LaterDay, OpenOne, ResolveOne, ShowSeries, ShowPie, ShowHeatmap, CountAll, ShowGauge
  <2> QED BY <2>1, WidgetsAlone
<1> QED BY <1>1, <1>2, <1>3, <1>4, <1>5, <1>6, <1>7 DEF DocNext

\* For each kind the query of the list and the test of the other endpoints agree.
LEMMA ListsAgree == ListsWhatPasses
<1> SUFFICES ASSUME NEW kind \in Kinds, NEW u \in Owners, NEW d \in docs, d.kind = kind
             PROVE  d \in Listed(kind, u) <=> Passes(d, u)
  BY DEF ListsWhatPasses, Listed
<1> QED BY DEF Listed, Passes, Scoped, ScopedList, ScopedPass, NotebookList, NotebookPass,
           RuleList, RulePass, MonitorList, MonitorPass

\* A document says what its operators wrote last, field by field, to those who may read it.
THEOREM EditsAreKept == DocSpec => []DocumentsAreTheirs
<1>1. DocInv => DocumentsAreTheirs
  BY ListsAgree DEF DocInv, Holds, NoEditUndone, DocumentsAreTheirs
<1> QED BY DocInitially, DocPreserved, <1>1, PTL DEF DocSpec

-----------------------------------------------------------------------------
(***************************************************************************)
(* The window.  What a judge has let through and a request that still      *)
(* waits can meet, the judge remembers: a request that was judged before   *)
(* dropped only what is older than the window by now.                      *)
(***************************************************************************)
Let(m) == {u \in Times : admitted[m][u] = 1}
Listed_(p) == {u \in Times : memory[p][u] = 1}
Seen(m, t) == {u \in Let(m) : u <= t /\ Fresh(u, t + Skew)}

RateTypeOK ==
    /\ clock \in Times /\ expiry \in Nat /\ zset \subseteq Times
    /\ waiting \subseteq asked /\ asked \subseteq 0 .. clock
    /\ memory \in [Processes -> [Times -> {0, 1}]]
    /\ admitted \in [Judges -> [Times -> {0, 1}]]
OnTime == \A t \in waiting : clock <= t + Skew
JudgedOnce ==
    /\ \A m \in Judges : Let(m) \subseteq asked \ waiting
    /\ \A p \in Processes : Listed_(p) \subseteq asked \ waiting
Remembers ==
    /\ \A u \in Let("redis") : u + Window <= expiry /\ (Fresh(u, clock) => u \in zset)
    /\ \A p \in Processes : \A u \in Let(p) : Fresh(u, clock) => u \in Listed_(p)
Bounded == \A m \in Judges, t \in Times : Cardinality(Seen(m, t)) <= MaxRequests
RateInv == RateTypeOK /\ OnTime /\ JudgedOnce /\ Remembers /\ Bounded

LEMMA RateNumbers ==
    /\ MaxRequests \in Nat /\ Window \in Nat /\ Skew \in Nat /\ MaxTime \in Nat
    /\ 0 < MaxRequests /\ 0 < Window /\ Times \subseteq Nat /\ IsFiniteSet(Times)
    /\ "redis" \in Judges /\ \A p \in Processes : p \in Judges /\ p # "redis"
<1>1. IsFiniteSet(0 .. MaxTime)
  BY RateAssumption, FS_Interval
<1> QED BY <1>1, RateAssumption DEF Times, Judges

LEMMA SubsetOfTimes ==
    ASSUME NEW S \in SUBSET Times
    PROVE  IsFiniteSet(S) /\ Cardinality(S) \in Nat
BY RateNumbers, FS_Subset, FS_CardinalityType

\* The count of the model is the size of the set.
LEMMA CountIsSize ==
    ASSUME NEW f \in [Times -> {0, 1}]
    PROVE  Count(f) = Cardinality({u \in Times : f[u] = 1})
<1> DEFINE C == {u \in Times : f[u] = 1}
<1>1. \A u \in Times : f[u] = IF u \in C THEN 1 ELSE 0
  OBVIOUS
<1>2. Times \cap C = C
  OBVIOUS
<1> HIDE DEF C
<1>3. SumFunctionOnSet(f, Times) = Cardinality(Times \cap C)
  BY <1>1, RateNumbers, SumCounts
<1> QED BY <1>2, <1>3 DEF Count, C

LEMMA RateInitially == RateInit => RateInv
<1> SUFFICES ASSUME RateInit PROVE RateInv
  OBVIOUS
<1> USE RateNumbers
<1>1. RateTypeOK
  BY DEF RateInit, RateTypeOK, Times
<1>2. /\ \A m \in Judges : Let(m) = {}
      /\ \A p \in Processes : Listed_(p) = {}
  BY DEF RateInit, Let, Listed_
<1>3. OnTime /\ JudgedOnce /\ Remembers
  BY <1>2 DEF RateInit, OnTime, JudgedOnce, Remembers
<1>4. \A m \in Judges, t \in Times : Seen(m, t) = {}
  BY <1>2 DEF Seen
<1>5. Bounded
  BY <1>4, FS_EmptySet DEF Bounded
<1> QED BY <1>1, <1>3, <1>5 DEF RateInv

LEMMA TickKeeps ==
    ASSUME RateInv, Tick
    PROVE  RateInv'
<1> USE RateNumbers
<1>1. /\ clock' = clock + 1 /\ clock < MaxTime /\ \A t \in waiting : clock < t + Skew
      /\ UNCHANGED <<zset, expiry, memory, waiting, admitted, asked>>
  BY DEF Tick
<1>2. RateTypeOK /\ OnTime /\ JudgedOnce /\ Remembers /\ Bounded
  BY DEF RateInv
<1>3. clock \in Nat /\ clock <= MaxTime /\ asked \subseteq Nat /\ waiting \subseteq Nat
  BY <1>2 DEF RateTypeOK, Times
<1>4. RateTypeOK'
  BY <1>1, <1>2, <1>3 DEF RateTypeOK, Times
<1>5. OnTime'
  BY <1>1, <1>3 DEF OnTime
<1>6. \A u \in Times : Fresh(u, clock') => Fresh(u, clock)
  BY <1>1, <1>3 DEF Fresh
<1>7. JudgedOnce' /\ Bounded'
  BY <1>1, <1>2 DEF JudgedOnce, Bounded, Seen, Let, Listed_
<1>8. Remembers'
  BY <1>1, <1>2, <1>6 DEF Remembers, Let, Listed_
<1> QED BY <1>4, <1>5, <1>7, <1>8 DEF RateInv

LEMMA ArriveKeeps ==
    ASSUME RateInv, Arrive
    PROVE  RateInv'
<1> USE RateNumbers
<1>1. /\ clock \notin asked /\ waiting' = waiting \cup {clock} /\ asked' = asked \cup {clock}
      /\ UNCHANGED <<clock, zset, expiry, memory, admitted>>
  BY DEF Arrive
<1>2. RateTypeOK /\ OnTime /\ JudgedOnce /\ Remembers /\ Bounded
  BY DEF RateInv
<1>3. clock \in Nat
  BY <1>2 DEF RateTypeOK
<1>4. RateTypeOK' /\ OnTime'
  BY <1>1, <1>2, <1>3 DEF RateTypeOK, OnTime
<1>5. JudgedOnce'
  BY <1>1, <1>2 DEF JudgedOnce, Let, Listed_
<1>6. Remembers' /\ Bounded'
  BY <1>1, <1>2 DEF Remembers, Bounded, Seen, Let, Listed_
<1> QED BY <1>4, <1>5, <1>6 DEF RateInv

\* What is let through is one request more, of the time judged.
LEMMA LetsOneMore ==
    ASSUME RateTypeOK, JudgedOnce, NEW m \in Judges, NEW t \in waiting,
           admitted' = [admitted EXCEPT ![m][t] = @ + 1]
    PROVE  /\ admitted' \in [Judges -> [Times -> {0, 1}]]
           /\ Let(m)' = Let(m) \cup {t}
           /\ \A k \in Judges : k # m => Let(k)' = Let(k)
<1> USE RateNumbers
<1>1. t \in Times /\ admitted[m] \in [Times -> {0, 1}] /\ DOMAIN admitted = Judges
  BY DEF RateTypeOK, Times
<1>2. admitted[m][t] = 0
  BY <1>1 DEF JudgedOnce, Let
<1>3. admitted' = [admitted EXCEPT ![m] = [admitted[m] EXCEPT ![t] = 1]]
  BY <1>2
<1>4. /\ \A k \in Judges : k # m => admitted'[k] = admitted[k]
      /\ admitted'[m] = [admitted[m] EXCEPT ![t] = 1]
  BY <1>1, <1>3
<1>5. admitted' \in [Judges -> [Times -> {0, 1}]]
  BY <1>1, <1>3 DEF RateTypeOK
<1> QED BY <1>1, <1>4, <1>5 DEF Let

\* A judge that counted all it could meet, and found room, has room in every window.
LEMMA BoundKept ==
    ASSUME RateTypeOK, OnTime, Bounded, NEW m \in Judges, NEW t \in waiting,
           Let(m)' = Let(m) \cup {t}, \A k \in Judges : k # m => Let(k)' = Let(k),
           NEW counted \in SUBSET Times,
           \A u \in Let(m) \cup {t} : u = t \/ Fresh(u, clock) => u \in counted,
           Cardinality(counted) <= MaxRequests
    PROVE  Bounded'
<1> USE RateNumbers
<1> SUFFICES ASSUME NEW k \in Judges, NEW e \in Times
             PROVE  Cardinality(Seen(k, e)') <= MaxRequests
  BY DEF Bounded
<1>1. CASE Seen(k, e)' = Seen(k, e)
  BY <1>1 DEF Bounded
<1>2. CASE Seen(k, e)' # Seen(k, e)
  <2>1. k = m /\ t \in Times /\ t <= e
    BY <1>2 DEF Seen, RateTypeOK, Times
  <2>2. clock \in Nat /\ clock <= t + Skew /\ t \in Nat /\ e \in Nat
    BY <2>1 DEF OnTime, RateTypeOK
  <2>3. Seen(k, e)' \subseteq counted
    <3> SUFFICES ASSUME NEW u \in Seen(k, e)' PROVE u \in counted
      OBVIOUS
    <3>1. u \in Let(m) \cup {t} /\ u \in Nat /\ u + Window > e + Skew
      BY <2>1 DEF Seen, Fresh, Let
    <3>2. u + Window > clock
      BY <2>1, <2>2, <3>1
    <3> QED BY <3>1, <3>2 DEF Fresh
  <2>4. Cardinality(Seen(k, e)') <= Cardinality(counted)
    BY <2>3, SubsetOfTimes, FS_Subset
  <2>5. Seen(k, e)' \in SUBSET Times
    BY <2>3
  <2> QED BY <2>4, <2>5, SubsetOfTimes
<1> QED BY <1>1, <1>2

LEMMA RedisKeeps ==
    ASSUME RateInv, NEW t \in waiting, JudgeInRedis(t)
    PROVE  RateInv'
<1> USE RateNumbers
<1> DEFINE current == IF expiry > clock THEN zset ELSE {}
           after == Kept(t, current \cup {t})
<1>1. /\ zset' = after /\ expiry' = clock + Window /\ waiting' = waiting \ {t}
      /\ admitted' = IF Admits(Cardinality(after))
                     THEN [admitted EXCEPT !["redis"][t] = @ + 1] ELSE admitted
      /\ UNCHANGED <<clock, memory, asked>>
  BY DEF JudgeInRedis
<1>2. RateTypeOK /\ OnTime /\ JudgedOnce /\ Remembers /\ Bounded
  BY DEF RateInv
<1>3. /\ clock \in Times /\ clock \in Nat /\ expiry \in Nat /\ zset \subseteq Times
      /\ t \in Times /\ t \in Nat /\ t <= clock /\ asked \subseteq 0 .. clock /\ t \in asked
  BY <1>2 DEF RateTypeOK, Times
<1>4. after \in SUBSET Times /\ t \in after
  <2>1. current \subseteq Times
    BY <1>3
  <2>2. t + Window > t
    BY <1>3
  <2> HIDE DEF current
  <2> QED BY <1>3, <2>1, <2>2 DEF Kept, Fresh
<1>5. \A u \in Let("redis") \cup {t} : u = t \/ Fresh(u, clock) => u \in after
  <2> SUFFICES ASSUME NEW u \in Let("redis"), Fresh(u, clock) PROVE u \in after
    BY <1>4
  <2>1. u \in zset /\ u + Window <= expiry /\ u \in Nat
    BY <1>2 DEF Remembers, Let
  <2>2. expiry > clock /\ Fresh(u, t)
    BY <1>3, <2>1 DEF Fresh
  <2> QED BY <2>1, <2>2 DEF Kept
<1> HIDE DEF after
<1>6. /\ admitted' \in [Judges -> [Times -> {0, 1}]]
      /\ Let("redis")' \subseteq Let("redis") \cup {t}
      /\ \A k \in Judges : k # "redis" => Let(k)' = Let(k)
      /\ Bounded'
  <2>1. CASE Admits(Cardinality(after))
    <3>1. admitted' = [admitted EXCEPT !["redis"][t] = @ + 1] /\ Cardinality(after) <= MaxRequests
      BY <1>1, <2>1 DEF Admits
    <3>2. /\ admitted' \in [Judges -> [Times -> {0, 1}]]
          /\ Let("redis")' = Let("redis") \cup {t}
          /\ \A k \in Judges : k # "redis" => Let(k)' = Let(k)
      BY <1>2, <3>1, LetsOneMore
    <3> QED BY <1>2, <1>4, <1>5, <3>1, <3>2, BoundKept
  <2>2. CASE ~Admits(Cardinality(after))
    <3>1. admitted' = admitted
      BY <1>1, <2>2
    <3> QED BY <1>2, <3>1 DEF RateTypeOK, Let, Bounded, Seen
  <2> QED BY <2>1, <2>2
<1>7. RateTypeOK'
  BY <1>1, <1>2, <1>3, <1>4, <1>6 DEF RateTypeOK
<1>8. OnTime'
  BY <1>1, <1>2 DEF OnTime
<1>9. \A p \in Processes : Let(p)' = Let(p) /\ Listed_(p)' = Listed_(p)
  BY <1>1, <1>6 DEF Listed_
<1>10. JudgedOnce'
  <2>1. \A m \in Judges : Let(m)' \subseteq asked \ (waiting \ {t})
    <3> TAKE m \in Judges
    <3>1. Let(m)' \subseteq Let(m) \cup {t} /\ Let(m) \subseteq asked \ waiting
      BY <1>2, <1>6 DEF JudgedOnce
    <3> QED BY <1>3, <3>1
  <2>2. \A p \in Processes : Listed_(p)' \subseteq asked \ (waiting \ {t})
    BY <1>2, <1>9 DEF JudgedOnce
  <2> QED BY <1>1, <2>1, <2>2 DEF JudgedOnce
<1>11. Remembers'
  <2>1. \A u \in Let("redis")' : u + Window <= clock + Window /\ (Fresh(u, clock) => u \in after)
    <3> TAKE u \in Let("redis")'
    <3>1. u \in Let("redis") \cup {t}
      BY <1>6
    <3>2. u \in 0 .. clock
      BY <1>2, <1>3, <3>1 DEF JudgedOnce
    <3> QED BY <1>3, <1>5, <3>1, <3>2
  <2> QED BY <1>1, <1>2, <1>9, <2>1 DEF Remembers
<1> QED BY <1>6, <1>7, <1>8, <1>10, <1>11 DEF RateInv

LEMMA MemoryKeeps ==
    ASSUME RateInv, NEW t \in waiting, NEW p \in Processes, JudgeInMemory(p, t)
    PROVE  RateInv'
<1> USE RateNumbers
<1> DEFINE recent == [u \in Times |-> IF Fresh(u, t) THEN memory[p][u] ELSE 0]
           room == {u \in Times : recent[u] = 1}
           ok == Count(recent) < MaxRequests
<1>1. /\ memory' = [memory EXCEPT ![p] = IF ok THEN [recent EXCEPT ![t] = @ + 1] ELSE recent]
      /\ admitted' = IF ok THEN [admitted EXCEPT ![p][t] = @ + 1] ELSE admitted
      /\ waiting' = waiting \ {t}
      /\ UNCHANGED <<clock, zset, expiry, asked>>
  BY DEF JudgeInMemory
<1>2. RateTypeOK /\ OnTime /\ JudgedOnce /\ Remembers /\ Bounded
  BY DEF RateInv
<1>3. /\ clock \in Times /\ clock \in Nat /\ t \in Times /\ t \in Nat /\ t <= clock
      /\ t \in asked /\ p \in Judges /\ p # "redis"
      /\ memory \in [Processes -> [Times -> {0, 1}]]
  BY <1>2 DEF RateTypeOK, Times
<1>4. recent \in [Times -> {0, 1}] /\ room \in SUBSET Times
  BY <1>3
<1>5. recent[t] = 0 /\ t \notin room /\ room \subseteq Listed_(p)
  <2>1. memory[p][t] = 0
    BY <1>2, <1>3 DEF JudgedOnce, Listed_
  <2> QED BY <1>3, <2>1 DEF Listed_
<1>6. \A u \in Let(p) : Fresh(u, clock) => u \in room
  <2> SUFFICES ASSUME NEW u \in Let(p), Fresh(u, clock) PROVE u \in room
    OBVIOUS
  <2>1. u \in Listed_(p) /\ u \in Times
    BY <1>2 DEF Remembers, Let
  <2>2. Fresh(u, t)
    BY <1>3, <2>1 DEF Fresh
  <2> QED BY <2>1, <2>2 DEF Listed_
<1>7. Count(recent) = Cardinality(room)
  BY <1>4, CountIsSize
<1> HIDE DEF recent, room
<1>8. /\ memory' \in [Processes -> [Times -> {0, 1}]]
      /\ Listed_(p)' = IF ok THEN room \cup {t} ELSE room
      /\ \A k \in Processes : k # p => Listed_(k)' = Listed_(k)
  <2>1. CASE ok
    <3>1. memory' = [memory EXCEPT ![p] = [recent EXCEPT ![t] = 1]]
      BY <1>1, <1>5, <2>1
    <3>2. [recent EXCEPT ![t] = 1] \in [Times -> {0, 1}]
      BY <1>4
    <3>3. memory'[p] = [recent EXCEPT ![t] = 1] /\ \A k \in Processes : k # p => memory'[k] = memory[k]
      BY <1>3, <3>1
    <3> QED BY <1>3, <1>4, <2>1, <3>1, <3>2, <3>3 DEF Listed_, room
  <2>2. CASE ~ok
    <3>1. memory' = [memory EXCEPT ![p] = recent]
      BY <1>1, <2>2
    <3>2. memory'[p] = recent /\ \A k \in Processes : k # p => memory'[k] = memory[k]
      BY <1>3, <3>1
    <3> QED BY <1>3, <1>4, <2>2, <3>1, <3>2 DEF Listed_, room
  <2> QED BY <2>1, <2>2
<1>9. /\ admitted' \in [Judges -> [Times -> {0, 1}]]
      /\ Let(p)' = IF ok THEN Let(p) \cup {t} ELSE Let(p)
      /\ \A k \in Judges : k # p => Let(k)' = Let(k)
      /\ Bounded'
  <2>1. CASE ok
    <3>1. admitted' = [admitted EXCEPT ![p][t] = @ + 1] /\ Cardinality(room) < MaxRequests
      BY <1>1, <1>7, <2>1
    <3>2. /\ admitted' \in [Judges -> [Times -> {0, 1}]]
          /\ Let(p)' = Let(p) \cup {t}
          /\ \A k \in Judges : k # p => Let(k)' = Let(k)
      BY <1>2, <1>3, <3>1, LetsOneMore
    <3> DEFINE counted == room \cup {t}
    <3>3. Cardinality(counted) = Cardinality(room) + 1
      BY <1>4, <1>5, SubsetOfTimes, FS_AddElement
    <3>4. Cardinality(room) \in Nat
      BY <1>4, SubsetOfTimes
    <3>5. counted \in SUBSET Times /\ Cardinality(counted) <= MaxRequests
      BY <1>3, <1>4, <3>1, <3>3, <3>4
    <3>6. \A u \in Let(p) \cup {t} : u = t \/ Fresh(u, clock) => u \in counted
      BY <1>6
    <3> HIDE DEF counted
    <3>7. Bounded'
      BY <1>2, <1>3, <3>2, <3>5, <3>6, BoundKept
    <3> QED BY <2>1, <3>2, <3>7
  <2>2. CASE ~ok
    <3>1. admitted' = admitted
      BY <1>1, <2>2
    <3> QED BY <1>2, <2>2, <3>1 DEF RateTypeOK, Let, Bounded, Seen
  <2> QED BY <2>1, <2>2
<1> HIDE DEF ok
<1>10. RateTypeOK'
  BY <1>1, <1>2, <1>8, <1>9 DEF RateTypeOK
<1>11. OnTime'
  BY <1>1, <1>2 DEF OnTime
<1>12. JudgedOnce'
  <2>1. \A m \in Judges : Let(m)' \subseteq asked \ (waiting \ {t})
    <3> TAKE m \in Judges
    <3>1. Let(m)' \subseteq Let(m) \cup {t} /\ Let(m) \subseteq asked \ waiting
      BY <1>2, <1>9 DEF JudgedOnce
    <3> QED BY <1>3, <3>1
  <2>2. \A k \in Processes : Listed_(k)' \subseteq asked \ (waiting \ {t})
    <3> TAKE k \in Processes
    <3>1. Listed_(k)' \subseteq Listed_(k) \cup {t} /\ Listed_(k) \subseteq asked \ waiting
      BY <1>2, <1>5, <1>8 DEF JudgedOnce
    <3> QED BY <1>3, <3>1
  <2> QED BY <1>1, <2>1, <2>2 DEF JudgedOnce
<1>13. Remembers'
  <2>1. Let("redis")' = Let("redis")
    BY <1>3, <1>9
  <2>2. \A k \in Processes : \A u \in Let(k)' : Fresh(u, clock) => u \in Listed_(k)'
    <3> TAKE k \in Processes
    <3> TAKE u \in Let(k)'
    <3>1. CASE k = p
      BY <1>6, <1>8, <1>9, <3>1
    <3>2. CASE k # p
      BY <1>2, <1>8, <1>9, <3>2 DEF Remembers
    <3> QED BY <3>1, <3>2
  <2> QED BY <1>1, <1>2, <2>1, <2>2 DEF Remembers
<1> QED BY <1>9, <1>10, <1>11, <1>12, <1>13 DEF RateInv

LEMMA RatePreserved == RateInv /\ [RateNext]_rateVars => RateInv'
<1> SUFFICES ASSUME RateInv, [RateNext]_rateVars PROVE RateInv'
  OBVIOUS
<1>1. CASE UNCHANGED rateVars
  <2>1. UNCHANGED <<clock, zset, expiry, memory, waiting, admitted, asked, outages>>
    BY <1>1 DEF rateVars
  <2> QED BY <2>1 DEF RateInv, RateTypeOK, OnTime, JudgedOnce, Remembers, Bounded, Seen, Let, Listed_
<1>2. CASE Tick \/ Arrive
  BY <1>2, TickKeeps, ArriveKeeps
<1>3. ASSUME NEW t \in waiting, JudgeInRedis(t) \/ \E p \in Processes : JudgeInMemory(p, t)
      PROVE  RateInv'
  BY <1>3, RedisKeeps, MemoryKeeps
<1> QED BY <1>1, <1>2, <1>3 DEF RateNext

\* However late requests reach Redis, up to Skew, and whenever it fails to answer, no judge
\* lets through more than the limit in a window of the length that it can see.
THEOREM LimitHolds == RateSpec => []WindowRespected
<1>1. RateInv => WindowRespected
  <2> SUFFICES ASSUME RateInv, NEW m \in Judges, NEW t \in Times
               PROVE  InWindow(m, t) <= MaxRequests
    BY DEF WindowRespected
  <2> DEFINE f == [u \in Times |-> IF u <= t /\ Fresh(u, t + Skew) THEN admitted[m][u] ELSE 0]
  <2>1. f \in [Times -> {0, 1}] /\ {u \in Times : f[u] = 1} = Seen(m, t)
    BY DEF RateInv, RateTypeOK, Seen, Let
  <2> HIDE DEF f
  <2>2. Count(f) <= MaxRequests
    BY <2>1, CountIsSize DEF RateInv, Bounded
  <2> QED BY <2>2 DEF InWindow, f
<1> QED BY RateInitially, RatePreserved, <1>1, PTL DEF RateSpec

-----------------------------------------------------------------------------
(***************************************************************************)
(* Metering.  A run whose day nobody shares is alone with the meters of    *)
(* the day: what it read of them when it came to a tenant is still so when *)
(* it commits.                                                             *)
(***************************************************************************)
Row_ == [tenant : DOMAIN Tier, at : Nat, kind : {"log", "trace"}, n : Nat]
Meter_ == [tenant : DOMAIN Tier, day : Nat, count : Nat]
Write_ == [row : Nat, tenant : DOMAIN Tier, count : Nat]
Job_ == [on : BOOLEAN, day : Nat, next : Nat \ {0}, writes : SUBSET Write_]

MeterTypeOK ==
    /\ half \in Nat /\ stored \subseteq ever /\ ever \subseteq Row_ /\ IsFiniteSet(ever)
    /\ metered \in Seq(Meter_) /\ job \in [Workers -> Job_]
    /\ \A w \in Workers : IsFiniteSet(job[w].writes)
Alone ==
    \A w \in Workers : job[w].on =>
        \/ job[w].day \in shared
        \/ job[w].day = DayOf(half) /\ \A v \in Workers : job[v].on => v = w
MeterOf(n, t, day) == metered[n].tenant = t /\ metered[n].day = day
\* What a run means to write: meters that are there, one for each tenant it has passed.
Fits(x, day, next, writes) ==
    /\ x.row <= Len(metered) /\ (x.row # 0 => MeterOf(x.row, x.tenant, day))
    /\ \E i \in 1 .. Len(Tenants) : i < next /\ x.tenant = Tenants[i]
    /\ \A y \in writes : x.tenant = y.tenant => x = y
    /\ day \notin shared =>
         /\ x.count <= Cardinality(LogsOf(x.tenant, day))
         /\ x.row = 0 => \A n \in 1 .. Len(metered) : ~MeterOf(n, x.tenant, day)
Sound(w) ==
    job[w].on => \A x \in job[w].writes : Fits(x, job[w].day, job[w].next, job[w].writes)
MeterInv ==
    MeterTypeOK /\ Alone /\ (\A w \in Workers : Sound(w)) /\ MetersAreTheTenants

LEMMA DayIsNat == \A h \in Nat : DayOf(h) \in Nat
  BY DEF DayOf

LEMMA LogsFinite ==
    ASSUME MeterTypeOK, NEW t, NEW day
    PROVE  IsFiniteSet(LogsOf(t, day)) /\ Cardinality(LogsOf(t, day)) \in Nat
<1>1. LogsOf(t, day) \subseteq ever
  BY DEF LogsOf
<1> QED BY <1>1, FS_Subset, FS_CardinalityType DEF MeterTypeOK

LEMMA LogsGrow ==
    ASSUME MeterTypeOK, MeterTypeOK', ever \subseteq ever', NEW t, NEW day
    PROVE  /\ Cardinality(LogsOf(t, day)) <= Cardinality(LogsOf(t, day)')
           /\ Cardinality(LogsOf(t, day)) \in Nat /\ Cardinality(LogsOf(t, day)') \in Nat
<1>1. LogsOf(t, day) \subseteq LogsOf(t, day)'
  BY DEF LogsOf
<1>2. IsFiniteSet(LogsOf(t, day)')
  <2>1. LogsOf(t, day)' \subseteq ever'
    BY DEF LogsOf
  <2> QED BY <2>1, FS_Subset DEF MeterTypeOK
<1>3. Cardinality(LogsOf(t, day)') \in Nat
  BY <1>2, FS_CardinalityType
<1> QED BY <1>1, <1>2, <1>3, FS_Subset, LogsFinite

LEMMA MeterInitially == MeterInit => MeterInv
<1> SUFFICES ASSUME MeterInit PROVE MeterInv
  OBVIOUS
<1>1. /\ half = 0 /\ stored = {} /\ metered = <<>> /\ job = [w \in Workers |-> Idle] /\ ever = {}
  BY DEF MeterInit
<1>2. Idle \in Job_ /\ Idle.writes = {} /\ Idle.on = FALSE
  BY DEF Idle, Job_
<1>3. IsFiniteSet({})
  BY FS_EmptySet
<1>4. metered \in Seq(Meter_) /\ Len(metered) = 0
  BY <1>1
<1>5. \A w \in Workers : job[w] = Idle
  BY <1>1
<1>6. MeterTypeOK
  BY <1>1, <1>2, <1>3, <1>4, <1>5 DEF MeterTypeOK
<1> QED BY <1>2, <1>4, <1>5, <1>6 DEF MeterInv, Alone, Sound, MetersAreTheTenants

-----------------------------------------------------------------------------
\* Rows that come and days that turn out to be shared take nothing from what is known.
LEMMA MetersStay ==
    ASSUME MeterInv, MeterTypeOK', ever \subseteq ever', shared \subseteq shared', metered' = metered
    PROVE  /\ MetersAreTheTenants'
           /\ \A w \in Workers : job'[w] = job[w] => Sound(w)'
<1>1. MeterTypeOK /\ MetersAreTheTenants /\ \A w \in Workers : Sound(w)
  BY DEF MeterInv
<1>2. \A t, d : /\ Cardinality(LogsOf(t, d)) <= Cardinality(LogsOf(t, d)')
                /\ Cardinality(LogsOf(t, d)) \in Nat /\ Cardinality(LogsOf(t, d)') \in Nat
  BY <1>1, LogsGrow
<1>3. MetersAreTheTenants'
  <2> SUFFICES ASSUME NEW n \in 1 .. Len(metered), metered[n].day \notin shared'
               PROVE  /\ metered[n].count <= Cardinality(LogsOf(metered[n].tenant, metered[n].day))'
                      /\ \A m \in 1 .. Len(metered) :
                           MeterOf(m, metered[n].tenant, metered[n].day) => m = n
    BY DEF MetersAreTheTenants, MeterOf
  <2>0. PICK t, d : t = metered[n].tenant /\ d = metered[n].day
    OBVIOUS
  <2>1. /\ metered[n].count <= Cardinality(LogsOf(t, d))
        /\ \A m \in 1 .. Len(metered) : MeterOf(m, t, d) => m = n
    BY <1>1, <2>0 DEF MetersAreTheTenants, MeterOf
  <2>2. metered[n] \in Meter_
    BY <1>1, ElementOfSeq DEF MeterTypeOK
  <2>3. metered[n].count \in Nat
    BY <2>2 DEF Meter_
  <2>4. metered[n].count <= Cardinality(LogsOf(t, d)')
    BY <1>2, <2>1, <2>3
  <2> QED BY <2>0, <2>1, <2>4
<1>4. ASSUME NEW w \in Workers, job'[w] = job[w] PROVE Sound(w)'
  <2>1. PICK d, n, ws : d = job[w].day /\ n = job[w].next /\ ws = job[w].writes
    OBVIOUS
  <2> SUFFICES ASSUME job[w].on, NEW x \in ws PROVE Fits(x, d, n, ws)'
    BY <1>4, <2>1 DEF Sound
  <2>2. Fits(x, d, n, ws)
    BY <1>1, <2>1 DEF Sound
  <2>3. x.count \in Nat
    <3>1. job[w] \in Job_
      BY <1>1 DEF MeterTypeOK
    <3> QED BY <2>1, <3>1 DEF Job_, Write_
  <2>4. x.count <= Cardinality(LogsOf(x.tenant, d)) => x.count <= Cardinality(LogsOf(x.tenant, d)')
    BY <1>2, <2>3
  <2>5. \A m, t : MeterOf(m, t, d)' <=> MeterOf(m, t, d)
    BY DEF MeterOf
  <2> QED BY <2>2, <2>4, <2>5 DEF Fits
<1> QED BY <1>3, <1>4

LEMMA PassKeeps ==
    ASSUME MeterInv, Pass
    PROVE  MeterInv'
<1>1. /\ half' = half + 1 /\ UNCHANGED <<stored, metered, job, ever>>
      /\ shared' = IF DayOf(half') # DayOf(half)
                   THEN shared \cup {job[w].day : w \in {v \in Workers : job[v].on}} ELSE shared
  BY DEF Pass
<1>2. MeterTypeOK /\ Alone
  BY DEF MeterInv
<1>3. MeterTypeOK'
  BY <1>1, <1>2 DEF MeterTypeOK
<1>4. Alone'
  BY <1>1, <1>2 DEF Alone
<1> QED BY <1>1, <1>3, <1>4, MetersStay DEF MeterInv

LEMMA StoreKeeps ==
    ASSUME MeterInv, NEW t \in DOMAIN Tier, NEW kind \in {"log", "trace"}, Store(t, kind)
    PROVE  MeterInv'
<1> DEFINE row == [tenant |-> t, at |-> half, kind |-> kind, n |-> Cardinality(ever)]
<1>1. /\ stored' = stored \cup {row} /\ ever' = ever \cup {row}
      /\ UNCHANGED <<half, metered, queued, job, shared>>
  BY DEF Store
<1>2. MeterTypeOK /\ Alone
  BY DEF MeterInv
<1>3. row \in Row_
  BY <1>2, FS_CardinalityType DEF MeterTypeOK, Row_
<1>4. IsFiniteSet(ever')
  BY <1>1, <1>2, FS_AddElement DEF MeterTypeOK
<1> HIDE DEF row
<1>5. MeterTypeOK'
  BY <1>1, <1>2, <1>3, <1>4 DEF MeterTypeOK
<1>6. Alone'
  BY <1>1, <1>2 DEF Alone
<1> QED BY <1>1, <1>5, <1>6, MetersStay DEF MeterInv

LEMMA StartKeeps ==
    ASSUME MeterInv, NEW w \in Workers, StartBilling(w)
    PROVE  MeterInv'
<1> DEFINE new == [on |-> TRUE, day |-> DayOf(half), next |-> 1, writes |-> {}]
<1>1. /\ job' = [job EXCEPT ![w] = new] /\ ~job[w].on
      /\ shared' = IF \E v \in Workers : job[v].on THEN shared \cup {DayOf(half)} ELSE shared
      /\ UNCHANGED <<half, stored, metered, ever>>
  BY DEF StartBilling
<1>2. MeterTypeOK /\ Alone
  BY DEF MeterInv
<1>3. new \in Job_ /\ new.writes = {} /\ new.on /\ new.day = DayOf(half)
  BY <1>2, DayIsNat DEF Job_, MeterTypeOK
<1> HIDE DEF new
<1>4. /\ job'[w] = new /\ \A v \in Workers : v # w => job'[v] = job[v]
      /\ job' \in [Workers -> Job_]
  BY <1>1, <1>2, <1>3 DEF MeterTypeOK
<1>5. MeterTypeOK'
  BY <1>1, <1>2, <1>3, <1>4, FS_EmptySet DEF MeterTypeOK
<1>6. Alone'
  <2> SUFFICES ASSUME NEW v \in Workers, job'[v].on, job'[v].day \notin shared'
               PROVE  job'[v].day = DayOf(half) /\ \A u \in Workers : job'[u].on => u = v
    BY <1>1 DEF Alone
  <2>1. CASE \E u \in Workers : job[u].on
    <3>1. shared' = shared \cup {DayOf(half)}
      BY <1>1, <2>1
    <3>2. v # w /\ job[v].on /\ job[v].day \notin shared'
      BY <1>3, <1>4, <3>1
    <3> QED BY <1>2, <3>1, <3>2 DEF Alone
  <2>2. CASE \A u \in Workers : ~job[u].on
    BY <1>3, <1>4, <2>2
  <2> QED BY <2>1, <2>2
<1>7. Sound(w)'
  BY <1>3, <1>4 DEF Sound
<1> QED BY <1>1, <1>4, <1>5, <1>6, <1>7, MetersStay DEF MeterInv

\* A run that ends leaves the others as they were.
LEMMA EndKeeps ==
    ASSUME MeterInv, NEW w \in Workers, job' = [job EXCEPT ![w] = Idle],
           UNCHANGED <<half, stored, ever, shared>>, metered' \in Seq(Meter_)
    PROVE  /\ MeterTypeOK' /\ Alone' /\ Sound(w)'
           /\ \A v \in Workers : v # w => job'[v] = job[v]
<1>1. MeterTypeOK /\ Alone
  BY DEF MeterInv
<1>2. Idle \in Job_ /\ Idle.writes = {} /\ Idle.on = FALSE
  BY DEF Idle, Job_
<1>3. /\ job'[w] = Idle /\ \A v \in Workers : v # w => job'[v] = job[v]
      /\ job' \in [Workers -> Job_]
  BY <1>1, <1>2 DEF MeterTypeOK
<1>4. MeterTypeOK'
  BY <1>1, <1>2, <1>3, FS_EmptySet DEF MeterTypeOK
<1>5. Alone'
  BY <1>1, <1>2, <1>3 DEF Alone
<1> QED BY <1>2, <1>3, <1>4, <1>5 DEF Sound

LEMMA LoseKeeps ==
    ASSUME MeterInv, NEW w \in Workers, LoseBilling(w)
    PROVE  MeterInv'
<1>1. job' = [job EXCEPT ![w] = Idle] /\ UNCHANGED <<half, stored, metered, ever, shared>>
  BY DEF LoseBilling
<1>2. metered' \in Seq(Meter_)
  BY <1>1 DEF MeterInv, MeterTypeOK
<1>3. /\ MeterTypeOK' /\ Alone' /\ Sound(w)'
      /\ \A v \in Workers : v # w => job'[v] = job[v]
  BY <1>1, <1>2, EndKeeps
<1> QED BY <1>1, <1>3, MetersStay DEF MeterInv

LEMMA RowOfMeter ==
    ASSUME MeterTypeOK, NEW t, NEW day
    PROVE  /\ RowOf(t, day) \in 0 .. Len(metered)
           /\ RowOf(t, day) # 0 => MeterOf(RowOf(t, day), t, day)
           /\ RowOf(t, day) = 0 => \A n \in 1 .. Len(metered) : ~MeterOf(n, t, day)
<1> DEFINE rows == {n \in 1 .. Len(metered) : metered[n].tenant = t /\ metered[n].day = day}
<1>1. Len(metered) \in Nat
  BY DEF MeterTypeOK
<1>2. RowOf(t, day) = IF rows = {} THEN 0 ELSE CHOOSE n \in rows : \A m \in rows : n <= m
  BY DEF RowOf
<1>3. CASE rows # {}
  <2>1. rows \in SUBSET Nat
    BY <1>1
  <2> HIDE DEF rows
  <2>2. \E n \in rows : \A m \in rows : n <= m
    BY <1>3, <2>1, LeastOfNats
  <2>3. RowOf(t, day) \in rows
    BY <1>2, <1>3, <2>2
  <2> USE DEF rows
  <2> QED BY <1>1, <2>3 DEF MeterOf
<1>4. CASE rows = {}
  BY <1>1, <1>2, <1>4 DEF MeterOf
<1> QED BY <1>3, <1>4

LEMMA TenantKeeps ==
    ASSUME MeterInv, NEW w \in Workers, NEW t \in DOMAIN Tier, MeterTenant(w, t)
    PROVE  MeterInv'
<1> DEFINE x == [row |-> RowOf(t, job[w].day), tenant |-> t, count |-> Cardinality(Counted_(t))]
           new == [job[w] EXCEPT !.next = job[w].next + 1, !.writes = job[w].writes \cup {x}]
<1>1. /\ job' = [job EXCEPT ![w] = new]
      /\ stored' \subseteq stored
      /\ UNCHANGED <<half, metered, queued, ever, shared>>
      /\ job[w].on /\ job[w].next <= Len(Tenants) /\ t = Tenants[job[w].next]
  <2>1. \E gone \in Deletions(t) : stored' = stored \ gone
    BY DEF MeterTenant
  <2> QED BY <2>1 DEF MeterTenant, AtTenant
<1>2. MeterTypeOK /\ Alone /\ Sound(w)
  BY DEF MeterInv
<1>3. job[w] \in Job_ /\ Len(metered) \in Nat
  BY <1>2 DEF MeterTypeOK
<1>4. /\ RowOf(t, job[w].day) \in 0 .. Len(metered)
      /\ RowOf(t, job[w].day) # 0 => MeterOf(RowOf(t, job[w].day), t, job[w].day)
      /\ RowOf(t, job[w].day) = 0 => \A n \in 1 .. Len(metered) : ~MeterOf(n, t, job[w].day)
  BY <1>2, RowOfMeter
<1>5. /\ Cardinality(Counted_(t)) \in Nat
      /\ Cardinality(Counted_(t)) <= Cardinality(LogsOf(t, DayOf(half)))
  <2>1. Counted_(t) \subseteq LogsOf(t, DayOf(half))
    BY <1>2 DEF Counted_, LogsOf, MeterTypeOK
  <2> QED BY <1>2, <2>1, LogsFinite, FS_Subset, FS_CardinalityType
<1>6. /\ x \in Write_ /\ x.tenant = t /\ x.row = RowOf(t, job[w].day)
      /\ x.count = Cardinality(Counted_(t))
  BY <1>3, <1>4, <1>5 DEF Write_
<1> HIDE DEF x
<1>7. /\ new \in Job_ /\ new.on = job[w].on /\ new.day = job[w].day
      /\ new.next = job[w].next + 1 /\ new.writes = job[w].writes \cup {x}
  <2>1. DOMAIN job[w] = {"on", "day", "next", "writes"}
    BY <1>3 DEF Job_
  <2>2. /\ new.on = job[w].on /\ new.day = job[w].day
        /\ new.next = job[w].next + 1 /\ new.writes = job[w].writes \cup {x}
        /\ DOMAIN new = {"on", "day", "next", "writes"}
    BY <2>1
  <2>3. /\ job[w].on \in BOOLEAN /\ job[w].day \in Nat /\ job[w].next + 1 \in Nat \ {0}
        /\ job[w].writes \cup {x} \in SUBSET Write_
    BY <1>3, <1>6 DEF Job_
  <2> DEFINE mid == [job[w] EXCEPT !.next = job[w].next + 1]
  <2>4. mid \in Job_
    BY <1>3, <2>3 DEF Job_
  <2>5. new = [mid EXCEPT !.writes = job[w].writes \cup {x}]
    BY <2>1
  <2> HIDE DEF new, mid
  <2>6. new \in Job_
    BY <2>3, <2>4, <2>5 DEF Job_
  <2> QED BY <2>2, <2>6
<1> HIDE DEF new
<1>8. /\ job'[w] = new /\ \A v \in Workers : v # w => job'[v] = job[v]
      /\ job' \in [Workers -> Job_]
  BY <1>1, <1>2, <1>7 DEF MeterTypeOK
<1>9. IsFiniteSet(new.writes)
  <2>1. IsFiniteSet(job[w].writes)
    BY <1>2 DEF MeterTypeOK
  <2>2. IsFiniteSet(job[w].writes \cup {x})
    BY <2>1, FS_AddElement
  <2> QED BY <1>7, <2>2
<1>10. MeterTypeOK'
  BY <1>1, <1>2, <1>8, <1>9 DEF MeterTypeOK
<1>11. Alone'
  BY <1>1, <1>2, <1>7, <1>8 DEF Alone
<1>12. \A y \in job[w].writes : Fits(y, job[w].day, job[w].next, job[w].writes)
  BY <1>1, <1>2 DEF Sound
<1>13. \A y \in job[w].writes : y.tenant # t
  <2> TAKE y \in job[w].writes
  <2>1. PICK i \in 1 .. Len(Tenants) : i < job[w].next /\ y.tenant = Tenants[i]
    BY <1>12 DEF Fits
  <2>2. job[w].next \in 1 .. Len(Tenants) /\ job[w].next # i
    BY <1>1, <1>3, <2>1, TierAssumption DEF Job_
  <2> QED BY <1>1, <2>1, <2>2, TierAssumption
<1>14. job[w].day \notin shared => x.count <= Cardinality(LogsOf(t, job[w].day))
  BY <1>1, <1>2, <1>5, <1>6 DEF Alone
<1>15. \A i \in 1 .. Len(Tenants) : i < job[w].next => i < new.next
  BY <1>3, <1>7 DEF Job_
<1>16. job[w].next \in 1 .. Len(Tenants) /\ job[w].next < new.next
  BY <1>1, <1>3, <1>7, TierAssumption DEF Job_
<1>17. ASSUME NEW y \in new.writes PROVE Fits(y, job[w].day, new.next, new.writes)
  <2>1. CASE y \in job[w].writes
    BY <1>6, <1>7, <1>12, <1>13, <1>15, <2>1 DEF Fits
  <2>2. CASE y = x
    BY <1>1, <1>4, <1>6, <1>7, <1>13, <1>14, <1>16, <2>2 DEF Fits
  <2> QED BY <1>7, <1>17, <2>1, <2>2
<1>18. Sound(w)'
  <2>1. PICK d, n, ws : d = job[w].day /\ n = new.next /\ ws = new.writes
    OBVIOUS
  <2>2. \A y \in ws : Fits(y, d, n, ws)
    BY <1>17, <2>1
  <2>3. \A y \in ws : Fits(y, d, n, ws)'
    BY <1>1, <2>2 DEF Fits, MeterOf, LogsOf
  <2> QED BY <1>7, <1>8, <2>1, <2>3 DEF Sound
<1> QED BY <1>1, <1>8, <1>10, <1>11, <1>18, MetersStay DEF MeterInv

LEMMA PassOverKeeps ==
    ASSUME MeterInv, NEW w \in Workers, NEW t, PassOver(w, t)
    PROVE  MeterInv'
<1> DEFINE new == [job[w] EXCEPT !.next = job[w].next + 1]
<1>1. /\ job' = [job EXCEPT ![w] = new]
      /\ UNCHANGED <<half, stored, metered, queued, ever, shared>>
  BY DEF PassOver
<1>2. MeterTypeOK /\ Alone /\ Sound(w)
  BY DEF MeterInv
<1>3. job[w] \in Job_
  BY <1>2 DEF MeterTypeOK
<1>4. /\ new \in Job_ /\ new.on = job[w].on /\ new.day = job[w].day
      /\ new.next = job[w].next + 1 /\ new.writes = job[w].writes
  BY <1>3 DEF Job_
<1> HIDE DEF new
<1>5. /\ job'[w] = new /\ \A v \in Workers : v # w => job'[v] = job[v]
      /\ job' \in [Workers -> Job_]
  BY <1>1, <1>2, <1>4 DEF MeterTypeOK
<1>6. MeterTypeOK'
  BY <1>1, <1>2, <1>4, <1>5 DEF MeterTypeOK
<1>7. Alone'
  BY <1>1, <1>2, <1>4, <1>5 DEF Alone
<1>8. \A i \in 1 .. Len(Tenants) : i < job[w].next => i < new.next
  BY <1>3, <1>4 DEF Job_
<1>9. Sound(w)'
  <2>1. PICK d, n, ws : d = job[w].day /\ n = new.next /\ ws = new.writes
    OBVIOUS
  <2>2. job[w].on => \A y \in ws : Fits(y, d, n, ws)
    BY <1>2, <1>4, <1>8, <2>1 DEF Sound, Fits
  <2>3. job[w].on => \A y \in ws : Fits(y, d, n, ws)'
    BY <1>1, <2>2 DEF Fits, MeterOf, LogsOf
  <2> QED BY <1>4, <1>5, <2>1, <2>3 DEF Sound
<1> QED BY <1>1, <1>5, <1>6, <1>7, <1>9, MetersStay DEF MeterInv
-----------------------------------------------------------------------------
\* The session writes what it has in an order of its own.
AtLeast(ms) == Len(metered) <= Len(ms)
IsWriting(it, writes, day) ==
    it = [s \in SUBSET writes |->
            IF s = {} THEN metered ELSE SetMeter(Pick_(s), it[s \ {Pick_(s)}], day)]

LEMMA WrittenUnfolds ==
    ASSUME NEW writes, NEW day
    PROVE  Written(writes, day) = (CHOOSE it : IsWriting(it, writes, day))[writes]
BY DEF Written, FoldSet, MapThenFoldSet, IsWriting, Pick_

LEMMA SetMeterType ==
    ASSUME metered \in Seq(Meter_), NEW day \in Nat, NEW x \in Write_, x.row <= Len(metered),
           NEW ms \in Seq(Meter_), AtLeast(ms)
    PROVE  /\ SetMeter(x, ms, day) \in Seq(Meter_) /\ AtLeast(SetMeter(x, ms, day))
           /\ x.row = 0 =>
                /\ Len(SetMeter(x, ms, day)) = Len(ms) + 1
                /\ \A n \in 1 .. Len(ms) : SetMeter(x, ms, day)[n] = ms[n]
                /\ SetMeter(x, ms, day)[Len(ms) + 1]
                      = [tenant |-> x.tenant, day |-> day, count |-> x.count]
           /\ x.row # 0 =>
                /\ Len(SetMeter(x, ms, day)) = Len(ms)
                /\ \A n \in 1 .. Len(ms) : n # x.row => SetMeter(x, ms, day)[n] = ms[n]
                /\ x.row \in 1 .. Len(ms)
                /\ SetMeter(x, ms, day)[x.row].tenant = ms[x.row].tenant
                /\ SetMeter(x, ms, day)[x.row].day = ms[x.row].day
                /\ SetMeter(x, ms, day)[x.row].count = x.count
<1> DEFINE new == [tenant |-> x.tenant, day |-> day, count |-> x.count]
<1>1. new \in Meter_ /\ x.row \in Nat /\ x.count \in Nat
  BY DEF Meter_, Write_
<1> HIDE DEF new
<1>2. Len(ms) \in Nat /\ Len(metered) \in Nat /\ Len(metered) <= Len(ms)
  BY DEF AtLeast
<1>3. CASE x.row = 0
  <2>1. SetMeter(x, ms, day) = Append(ms, new)
    BY <1>3 DEF SetMeter, new
  <2>2. /\ Append(ms, new) \in Seq(Meter_) /\ Len(Append(ms, new)) = Len(ms) + 1
        /\ \A n \in 1 .. Len(ms) : Append(ms, new)[n] = ms[n]
        /\ Append(ms, new)[Len(ms) + 1] = new
    BY <1>1, AppendProperties
  <2>3. Len(metered) <= Len(ms) + 1
    BY <1>2
  <2> QED BY <1>3, <2>1, <2>2, <2>3 DEF AtLeast, new
<1>4. CASE x.row # 0
  <2>1. x.row \in 1 .. Len(ms)
    BY <1>1, <1>2, <1>4
  <2>2. ms[x.row] \in Meter_
    BY <2>1, ElementOfSeq
  <2> DEFINE m == [ms[x.row] EXCEPT !.count = x.count]
  <2>3. m \in Meter_ /\ m.tenant = ms[x.row].tenant /\ m.day = ms[x.row].day /\ m.count = x.count
    BY <1>1, <2>2 DEF Meter_
  <2>4. SetMeter(x, ms, day) = [ms EXCEPT ![x.row] = m]
    BY <1>4 DEF SetMeter
  <2> HIDE DEF m
  <2>5. /\ [ms EXCEPT ![x.row] = m] \in Seq(Meter_) /\ Len([ms EXCEPT ![x.row] = m]) = Len(ms)
        /\ \A n \in 1 .. Len(ms) : [ms EXCEPT ![x.row] = m][n] = IF n = x.row THEN m ELSE ms[n]
    BY <2>1, <2>3, ExceptSeq
  <2> QED BY <1>2, <1>4, <2>1, <2>3, <2>4, <2>5 DEF AtLeast
<1> QED BY <1>3, <1>4

\* What comes of it, whatever the order: s has been written.
Outcome(s, ms, day) ==
    /\ ms \in Seq(Meter_) /\ AtLeast(ms)
    /\ \A n \in 1 .. Len(metered) :
         /\ ms[n].tenant = metered[n].tenant /\ ms[n].day = metered[n].day
         /\ ms[n].count = metered[n].count \/ \E x \in s : x.row = n /\ ms[n].count = x.count
    /\ \A n \in 1 .. Len(ms) : n > Len(metered) =>
         ms[n].day = day /\ \E x \in s : x.row = 0 /\ ms[n].tenant = x.tenant /\ ms[n].count = x.count
    /\ \A n, m \in 1 .. Len(ms) :
         n > Len(metered) /\ m > Len(metered) /\ ms[n].tenant = ms[m].tenant => n = m
Writable(writes) ==
    /\ IsFiniteSet(writes) /\ writes \subseteq Write_
    /\ \A x \in writes : x.row <= Len(metered)
    /\ \A x, y \in writes : x.tenant = y.tenant => x = y

LEMMA WritingExists ==
    ASSUME metered \in Seq(Meter_), NEW day \in Nat, NEW writes, Writable(writes)
    PROVE  \E it : IsWriting(it, writes, day)
<1> DEFINE Ms == {ms \in Seq(Meter_) : AtLeast(ms)}
           step == [p \in writes \X Ms |-> SetMeter(p[1], p[2], day)]
<1>1. \A x \in writes, ms \in Ms :
         step[<<x, ms>>] = SetMeter(x, ms, day) /\ SetMeter(x, ms, day) \in Ms
  BY SetMeterType DEF Writable
<1>2. metered \in Ms
  BY DEF AtLeast
<1> HIDE DEF step, Ms
<1>3. PICK it : IsFold(it, writes, metered, step)
  BY FoldExists DEF Writable
<1> DEFINE I == {s \in SUBSET writes : it[s] \in Ms}
<1>4. ASSUME NEW s \in SUBSET writes, \A u \in SUBSET s : u # s => u \in I PROVE s \in I
  <2>1. it[s] = IF s = {} THEN metered ELSE step[<<Pick_(s), it[s \ {Pick_(s)}]>>]
    BY <1>3, FoldStep
  <2>2. s # {} => it[s \ {Pick_(s)}] \in Ms /\ Pick_(s) \in writes
    BY <1>4, PickIsIn
  <2> QED BY <1>1, <1>2, <2>1, <2>2
<1> HIDE DEF I
<1>5. \A s \in SUBSET writes : s \in I
  BY <1>4, SubsetInduction DEF Writable
<1>6. \A s \in SUBSET writes : s # {} =>
        step[<<Pick_(s), it[s \ {Pick_(s)}]>>] = SetMeter(Pick_(s), it[s \ {Pick_(s)}], day)
  BY <1>1, <1>5, PickIsIn DEF I
<1>7. IsWriting(it, writes, day)
  BY <1>3, <1>6 DEF IsFold, IsWriting
<1> QED BY <1>7

LEMMA OutcomeStep ==
    ASSUME metered \in Seq(Meter_), NEW day \in Nat, NEW writes, Writable(writes),
           NEW s \in SUBSET writes, NEW p \in s, NEW ms, Outcome(s \ {p}, ms, day)
    PROVE  Outcome(s, SetMeter(p, ms, day), day)
<1> DEFINE new == SetMeter(p, ms, day)
           N == Len(metered)
<1>1. /\ p \in Write_ /\ p.row <= Len(metered) /\ p.row \in Nat
      /\ \A x \in s \ {p} : x.tenant # p.tenant
  BY DEF Writable, Write_
<1>2. /\ ms \in Seq(Meter_) /\ AtLeast(ms) /\ Len(ms) \in Nat /\ N \in Nat /\ N <= Len(ms)
      /\ \A n \in 1 .. N :
           /\ ms[n].tenant = metered[n].tenant /\ ms[n].day = metered[n].day
           /\ ms[n].count = metered[n].count
                \/ \E x \in s \ {p} : x.row = n /\ ms[n].count = x.count
      /\ \A n \in 1 .. Len(ms) : n > N =>
           /\ ms[n].day = day
           /\ \E x \in s \ {p} : x.row = 0 /\ ms[n].tenant = x.tenant /\ ms[n].count = x.count
      /\ \A n, m \in 1 .. Len(ms) : n > N /\ m > N /\ ms[n].tenant = ms[m].tenant => n = m
  BY DEF Outcome, AtLeast
<1>3. /\ new \in Seq(Meter_) /\ AtLeast(new)
      /\ p.row = 0 =>
           /\ Len(new) = Len(ms) + 1
           /\ \A n \in 1 .. Len(ms) : new[n] = ms[n]
           /\ new[Len(ms) + 1] = [tenant |-> p.tenant, day |-> day, count |-> p.count]
      /\ p.row # 0 =>
           /\ Len(new) = Len(ms)
           /\ \A n \in 1 .. Len(ms) : n # p.row => new[n] = ms[n]
           /\ p.row \in 1 .. Len(ms)
           /\ new[p.row].tenant = ms[p.row].tenant
           /\ new[p.row].day = ms[p.row].day
           /\ new[p.row].count = p.count
  BY <1>1, <1>2, SetMeterType
<1> HIDE DEF new
<1>4. CASE p.row = 0
  <2>1. /\ Len(new) = Len(ms) + 1
        /\ \A n \in 1 .. Len(ms) : new[n] = ms[n]
        /\ new[Len(ms) + 1].tenant = p.tenant /\ new[Len(ms) + 1].day = day
        /\ new[Len(ms) + 1].count = p.count
    BY <1>3, <1>4
  <2>2. \A n \in 1 .. N : n \in 1 .. Len(ms) /\ new[n] = ms[n]
    BY <1>2, <2>1
  <2>3. \A n \in 1 .. Len(new) : (n \in 1 .. Len(ms) /\ new[n] = ms[n]) \/ n = Len(ms) + 1
    BY <1>2, <2>1
  <2>4. \A n \in 1 .. N :
          /\ new[n].tenant = metered[n].tenant /\ new[n].day = metered[n].day
          /\ new[n].count = metered[n].count \/ \E x \in s : x.row = n /\ new[n].count = x.count
    BY <1>2, <2>2
  <2>5. \A n \in 1 .. Len(new) : n > N =>
          new[n].day = day
            /\ \E x \in s : x.row = 0 /\ new[n].tenant = x.tenant /\ new[n].count = x.count
    BY <1>2, <1>4, <2>1, <2>3
  <2>6. \A n \in 1 .. Len(ms) : n > N => ms[n].tenant # p.tenant
    BY <1>1, <1>2
  <2>7. \A n, m \in 1 .. Len(new) : n > N /\ m > N /\ new[n].tenant = new[m].tenant => n = m
    BY <1>2, <2>1, <2>3, <2>6
  <2> QED BY <1>3, <2>4, <2>5, <2>7 DEF Outcome, new
<1>5. CASE p.row # 0
  <2>1. /\ Len(new) = Len(ms)
        /\ \A n \in 1 .. Len(ms) : n # p.row => new[n] = ms[n]
        /\ p.row \in 1 .. Len(ms)
        /\ new[p.row].tenant = ms[p.row].tenant /\ new[p.row].day = ms[p.row].day
        /\ new[p.row].count = p.count
    BY <1>3, <1>5
  <2>2. \A n \in 1 .. N : n \in 1 .. Len(ms)
    BY <1>2
  <2>3. \A n \in 1 .. N :
          /\ new[n].tenant = metered[n].tenant /\ new[n].day = metered[n].day
          /\ new[n].count = metered[n].count \/ \E x \in s : x.row = n /\ new[n].count = x.count
    <3> TAKE n \in 1 .. N
    <3>0. /\ ms[n].tenant = metered[n].tenant /\ ms[n].day = metered[n].day
          /\ ms[n].count = metered[n].count
               \/ \E x \in s \ {p} : x.row = n /\ ms[n].count = x.count
      BY <1>2
    <3>1. CASE n = p.row
      BY <2>1, <3>0, <3>1
    <3>2. CASE n # p.row
      BY <2>1, <2>2, <3>0, <3>2
    <3> QED BY <3>1, <3>2
  <2>4. \A n \in 1 .. Len(new) : n > N => new[n] = ms[n] /\ n \in 1 .. Len(ms)
    BY <1>1, <1>2, <2>1
  <2>5. \A n \in 1 .. Len(new) : n > N =>
          new[n].day = day
            /\ \E x \in s : x.row = 0 /\ new[n].tenant = x.tenant /\ new[n].count = x.count
    BY <1>2, <2>4
  <2>6. \A n, m \in 1 .. Len(new) : n > N /\ m > N /\ new[n].tenant = new[m].tenant => n = m
    BY <1>2, <2>4
  <2> QED BY <1>3, <2>3, <2>5, <2>6 DEF Outcome, new
<1> QED BY <1>1, <1>4, <1>5

LEMMA WrittenIs ==
    ASSUME metered \in Seq(Meter_), NEW day \in Nat, NEW writes, Writable(writes)
    PROVE  Outcome(writes, Written(writes, day), day)
<1>0. PICK it : it = CHOOSE f : IsWriting(f, writes, day)
  OBVIOUS
<1>1. IsWriting(it, writes, day)
  BY <1>0, WritingExists
<1>2. Written(writes, day) = it[writes]
  BY <1>0, WrittenUnfolds
<1> DEFINE I == {s \in SUBSET writes : Outcome(s, it[s], day)}
<1>3. ASSUME NEW s \in SUBSET writes, \A u \in SUBSET s : u # s => u \in I PROVE s \in I
  <2>1. it[s] = IF s = {} THEN metered ELSE SetMeter(Pick_(s), it[s \ {Pick_(s)}], day)
    BY <1>1 DEF IsWriting
  <2>2. CASE s = {}
    <3>1. it[s] = metered /\ Len(metered) \in Nat
      BY <2>1, <2>2
    <3>2. Outcome(s, metered, day)
      BY <2>2, <3>1 DEF Outcome, AtLeast
    <3> QED BY <3>1, <3>2
  <2>3. CASE s # {}
    <3>1. Pick_(s) \in s
      BY <2>3, PickIsIn
    <3>2. Outcome(s \ {Pick_(s)}, it[s \ {Pick_(s)}], day)
      BY <1>3, <3>1
    <3>3. Outcome(s, SetMeter(Pick_(s), it[s \ {Pick_(s)}], day), day)
      BY <3>1, <3>2, OutcomeStep
    <3> QED BY <2>1, <2>3, <3>3
  <2> QED BY <2>2, <2>3
<1> HIDE DEF I
<1>4. writes \in I
  BY <1>3, SubsetInduction DEF Writable
<1> QED BY <1>2, <1>4 DEF I

LEMMA CommitKeeps ==
    ASSUME MeterInv, NEW w \in Workers, CommitBilling(w)
    PROVE  MeterInv'
<1>1. /\ job[w].on /\ metered' = Written(job[w].writes, job[w].day)
      /\ job' = [job EXCEPT ![w] = Idle] /\ UNCHANGED <<half, stored, ever, shared>>
  BY DEF CommitBilling
<1>2. MeterTypeOK /\ Alone /\ Sound(w) /\ MetersAreTheTenants
  BY DEF MeterInv
<1>3. PICK d, ws : d = job[w].day /\ ws = job[w].writes
  OBVIOUS
<1>4. job[w] \in Job_ /\ d \in Nat /\ metered \in Seq(Meter_) /\ Len(metered) \in Nat
  BY <1>2, <1>3 DEF MeterTypeOK, Job_
<1>5. \A x \in ws : Fits(x, d, job[w].next, ws)
  BY <1>1, <1>2, <1>3 DEF Sound
<1>6. Writable(ws)
  BY <1>2, <1>3, <1>4, <1>5 DEF Writable, Fits, MeterTypeOK, Job_
<1>7. Outcome(ws, metered', d)
  BY <1>1, <1>3, <1>4, <1>6, WrittenIs
<1>8. /\ metered' \in Seq(Meter_) /\ Len(metered) <= Len(metered') /\ Len(metered') \in Nat
      /\ \A n \in 1 .. Len(metered) :
           /\ metered'[n].tenant = metered[n].tenant /\ metered'[n].day = metered[n].day
           /\ metered'[n].count = metered[n].count
                \/ \E x \in ws : x.row = n /\ metered'[n].count = x.count
      /\ \A n \in 1 .. Len(metered') : n > Len(metered) =>
           /\ metered'[n].day = d
           /\ \E x \in ws : x.row = 0 /\ metered'[n].tenant = x.tenant /\ metered'[n].count = x.count
      /\ \A n, m \in 1 .. Len(metered') :
           n > Len(metered) /\ m > Len(metered) /\ metered'[n].tenant = metered'[m].tenant => n = m
  BY <1>7 DEF Outcome, AtLeast
<1>9. /\ MeterTypeOK' /\ Alone' /\ Sound(w)'
      /\ \A v \in Workers : v # w => job'[v] = job[v]
  BY <1>1, <1>8, EndKeeps
<1>10. \A t, e : LogsOf(t, e)' = LogsOf(t, e)
  BY <1>1 DEF LogsOf
<1>11. MetersAreTheTenants'
  <2> SUFFICES ASSUME NEW n \in 1 .. Len(metered'), metered'[n].day \notin shared
               PROVE  /\ metered'[n].count
                           <= Cardinality(LogsOf(metered[n].tenant, metered[n].day))'
                      /\ \A m \in 1 .. Len(metered') :
                           metered'[m].tenant = metered'[n].tenant
                             /\ metered'[m].day = metered'[n].day => m = n
    BY <1>1 DEF MetersAreTheTenants
  <2>1. PICK t, e : t = metered'[n].tenant /\ e = metered'[n].day
    OBVIOUS
  <2>2. /\ metered'[n].count <= Cardinality(LogsOf(t, e))
        /\ \A m \in 1 .. Len(metered') :
              metered'[m].tenant = t /\ metered'[m].day = e => m = n
    <3>1. CASE n \in 1 .. Len(metered)
      <4>1. metered[n].tenant = t /\ metered[n].day = e
        BY <1>8, <2>1, <3>1
      <4>2. /\ metered[n].count <= Cardinality(LogsOf(t, e))
            /\ \A m \in 1 .. Len(metered) : metered[m].tenant = t /\ metered[m].day = e => m = n
        BY <1>2, <2>1, <3>1, <4>1 DEF MetersAreTheTenants
      <4>3. \A x \in ws : x.row = n => x.count <= Cardinality(LogsOf(t, e))
        <5> TAKE x \in ws
        <5> HAVE x.row = n
        <5>1. x.tenant = t /\ d = e
          BY <1>4, <1>5, <3>1, <4>1 DEF Fits, MeterOf
        <5> QED BY <1>5, <2>1, <5>1 DEF Fits
      <4>4. \A m \in 1 .. Len(metered') :
              m > Len(metered) => ~ (metered'[m].tenant = t /\ metered'[m].day = e)
        <5> SUFFICES ASSUME NEW m \in 1 .. Len(metered'), m > Len(metered),
                            metered'[m].tenant = t, metered'[m].day = e
                     PROVE  FALSE
          OBVIOUS
        <5>1. PICK x \in ws : x.row = 0 /\ t = x.tenant
          BY <1>8
        <5>2. d = e
          BY <1>8
        <5>3. ~MeterOf(n, t, e)
          BY <1>5, <2>1, <3>1, <5>1, <5>2 DEF Fits
        <5> QED BY <4>1, <5>3 DEF MeterOf
      <4>5. \A m \in 1 .. Len(metered') : m \in 1 .. Len(metered) \/ m > Len(metered)
        BY <1>4, <1>8
      <4>6. metered'[n].count <= Cardinality(LogsOf(t, e))
        BY <1>8, <3>1, <4>2, <4>3
      <4>7. \A m \in 1 .. Len(metered) : metered'[m].tenant = t /\ metered'[m].day = e => m = n
        BY <1>8, <4>2
      <4> QED BY <4>4, <4>5, <4>6, <4>7
    <3>2. CASE n > Len(metered)
      <4>1. PICK x \in ws : x.row = 0 /\ t = x.tenant /\ metered'[n].count = x.count
        BY <1>8, <2>1, <3>2
      <4>2. e = d
        BY <1>8, <2>1, <3>2
      <4>3. /\ x.count <= Cardinality(LogsOf(t, e))
            /\ \A m \in 1 .. Len(metered) : ~ (metered[m].tenant = t /\ metered[m].day = e)
        BY <1>5, <2>1, <4>1, <4>2 DEF Fits, MeterOf
      <4>4. \A m \in 1 .. Len(metered') : m \in 1 .. Len(metered) \/ m > Len(metered)
        BY <1>4, <1>8
      <4>5. \A m \in 1 .. Len(metered) : ~ (metered'[m].tenant = t /\ metered'[m].day = e)
        BY <1>8, <4>3
      <4>6. \A m \in 1 .. Len(metered') : m > Len(metered) /\ metered'[m].tenant = t => m = n
        BY <1>8, <2>1, <3>2
      <4> QED BY <4>1, <4>3, <4>4, <4>5, <4>6
    <3> QED BY <1>4, <1>8, <3>1, <3>2
  <2> QED BY <1>10, <2>1, <2>2
<1>12. ASSUME NEW v \in Workers, v # w PROVE Sound(v)'
  <2> SUFFICES ASSUME job[v].on PROVE Sound(v)'
    BY <1>9, <1>12 DEF Sound
  <2>1. PICK e, n, us : e = job[v].day /\ n = job[v].next /\ us = job[v].writes
    OBVIOUS
  <2>2. e \in shared
    BY <1>1, <1>2, <1>12, <2>1 DEF Alone
  <2>3. \A x \in us : Fits(x, e, n, us)
    BY <2>1 DEF MeterInv, Sound
  <2>4. us \subseteq Write_
    <3>1. job[v] \in Job_
      BY <1>2 DEF MeterTypeOK
    <3> QED BY <2>1, <3>1 DEF Job_
  <2>5. ASSUME NEW x \in us PROVE Fits(x, e, n, us)'
    <3>1. x.row \in Nat /\ x.row <= Len(metered) /\ x.row <= Len(metered')
      BY <1>4, <1>8, <2>3, <2>4 DEF Fits, Write_
    <3>2. x.row # 0 => MeterOf(x.row, x.tenant, e)'
      BY <1>4, <1>8, <2>3, <3>1 DEF Fits, MeterOf
    <3> QED BY <1>1, <2>2, <2>3, <3>1, <3>2 DEF Fits
  <2> QED BY <1>9, <1>12, <2>1, <2>5 DEF Sound
<1> QED BY <1>9, <1>11, <1>12 DEF MeterInv

LEMMA MeterPreserved == MeterInv /\ [MeterNext]_meterVars => MeterInv'
<1> SUFFICES ASSUME MeterInv, [MeterNext]_meterVars PROVE MeterInv'
  OBVIOUS
<1>1. CASE UNCHANGED meterVars
  <2>1. UNCHANGED <<half, stored, metered, job, ever, shared>>
    BY <1>1 DEF meterVars
  <2>2. MeterTypeOK' /\ Alone'
    BY <2>1 DEF MeterInv, MeterTypeOK, Alone
  <2> QED BY <2>1, <2>2, MetersStay DEF MeterInv
<1>2. CASE Pass
  BY <1>2, PassKeeps
<1>3. ASSUME NEW t \in DOMAIN Tier, Store(t, "log") \/ Store(t, "trace") PROVE MeterInv'
  BY <1>3, StoreKeeps
<1>4. ASSUME NEW w \in Workers, StartBilling(w) \/ CommitBilling(w) \/ LoseBilling(w) PROVE MeterInv'
  BY <1>4, StartKeeps, CommitKeeps, LoseKeeps
<1>5. ASSUME NEW w \in Workers, NEW t \in DOMAIN Tier, MeterTenant(w, t) \/ PassOver(w, t)
      PROVE  MeterInv'
  BY <1>5, TenantKeeps, PassOverKeeps
<1> QED BY <1>1, <1>2, <1>3, <1>4, <1>5 DEF MeterNext

\* A tenant pays for what it sent on a day, once, whatever fails and in whatever order the
\* session writes.
THEOREM MetersAreTrue == MeterSpec => []MetersAreTheTenants
<1>1. MeterInv => MetersAreTheTenants
  BY DEF MeterInv
<1> QED BY MeterInitially, MeterPreserved, <1>1, PTL DEF MeterSpec

\* No run deletes what the tier of its tenant keeps.
LEMMA OnlyExpired ==
    ASSUME [MeterNext]_meterVars
    PROVE  \A r \in stored \ stored' :
             half > r.at + 2 * (CASE Tier[r.tenant] = "enterprise" -> EnterpriseDays
                                  [] Tier[r.tenant] = "pro" -> ProDays
                                  [] OTHER -> FreeDays)
<1>1. CASE \E w \in Workers, t \in DOMAIN Tier : MeterTenant(w, t)
  <2>1. PICK w \in Workers, t \in DOMAIN Tier : MeterTenant(w, t)
    BY <1>1
  <2>2. PICK gone \in Deletions(t) : stored' = stored \ gone
    BY <2>1 DEF MeterTenant
  <2>3. stored \ stored' \subseteq Expired(t)
    BY <2>2 DEF Deletions
  <2> SUFFICES ASSUME NEW r \in Expired(t)
               PROVE  half > r.at + 2 * (CASE Tier[r.tenant] = "enterprise" -> EnterpriseDays
                                           [] Tier[r.tenant] = "pro" -> ProDays
                                           [] OTHER -> FreeDays)
    BY <2>3
  <2>4. r.tenant = t /\ r.at + 2 * DaysToKeep(t) < half
    BY DEF Expired
  <2>5. DaysToKeep(t) = CASE Tier[t] = "enterprise" -> EnterpriseDays
                          [] Tier[t] = "pro" -> ProDays
                          [] OTHER -> FreeDays
    BY DEF DaysToKeep
  <2> HIDE DEF Expired
  <2> QED BY <2>4, <2>5
<1>2. CASE ~ \E w \in Workers, t \in DOMAIN Tier : MeterTenant(w, t)
  <2>1. stored \ stored' = {}
    BY <1>2 DEF MeterNext, meterVars, Pass, Store, StartBilling, CommitBilling, LoseBilling, PassOver
  <2> QED BY <2>1
<1> QED BY <1>1, <1>2

THEOREM TiersAreKept == MeterSpec => KeptForItsTier
<1>1. [MeterNext]_meterVars =>
        [\A r \in stored \ stored' :
           half > r.at + 2 * (CASE Tier[r.tenant] = "enterprise" -> EnterpriseDays
                                [] Tier[r.tenant] = "pro" -> ProDays
                                [] OTHER -> FreeDays)]_meterVars
  BY OnlyExpired
<1> QED BY <1>1, PTL DEF MeterSpec, KeptForItsTier

-----------------------------------------------------------------------------
(***************************************************************************)
(* Operators.  What a request was authorised with may be out of date when  *)
(* it does its work: Current says what of it still holds, unless the       *)
(* account was replaced.                                                   *)
(***************************************************************************)
Account_ == [id : Nat, birth : Nat, role : {"ADMIN", "ANALYST", "VIEWER"}, active : BOOLEAN,
             tenant : {0, 1}, dept : {"none", "Operations", "Security", "Engineering"}]
Request_ == [phase : {"idle", "authorised", "answered"}, actor : Emails, user : Account_,
             op : UserOps \cup IncidentOps \cup {"none"}, target : Emails]
AccessTypeOK ==
    /\ account \in [Emails -> Account_] /\ request \in [Requests -> Request_]
    /\ lastId \in Nat /\ births \in Nat /\ tokens \subseteq Emails \ {SystemAudit}
    /\ audit \subseteq [id : Nat, by : Emails]

\* An account has a number of its own, and on postgres an id that no other has.
Numbered == \A e \in Emails : account[e].birth <= births /\ (Present(e) => account[e].birth # 0)
OwnAccountIds ==
    database = "postgres" =>
        /\ \A e \in Emails : account[e].id <= lastId
        /\ \A e, f \in Live : account[e].id = account[f].id => e = f
Current(q) ==
    q.phase = "authorised" =>
        /\ q.actor # SystemAudit /\ q.user.birth \in 1 .. births
        /\ q.op \in UserOps => q.user.role = "ADMIN"
        /\ account[q.actor].birth = q.user.birth =>
             Present(q.actor) /\ account[q.actor].role = q.user.role
Attributed(a) ==
    database = "postgres" =>
        /\ a.id <= lastId
        /\ \A e \in Live \ {SystemAudit} : account[e].id = a.id => e = a.by
AccessInv ==
    /\ AccessTypeOK /\ Numbered /\ OwnAccountIds /\ AdminIsLeft
    /\ \A r \in Requests : Current(request[r])
    /\ \A a \in audit : Attributed(a)

LEMMA EmptyAccount == None_ \in Account_ /\ None_.id = 0 /\ None_.birth = 0
  BY DEF None_, Account_

LEMMA AccessInitially == AccessInit => AccessInv
<1> SUFFICES ASSUME AccessInit PROVE AccessInv
  OBVIOUS
<1> USE AccessAssumption
<1>1. PICK another \in SUBSET (Emails \ {Admin, SystemAudit, Sso}) :
         /\ Cardinality(another) <= 1
         /\ account = [e \in Emails |->
              IF e = Admin THEN Administrator_(1, 1, "Operations")
              ELSE IF e = SystemAudit THEN Administrator_(2, 1, "Security")
              ELSE IF e \in another THEN Administrator_(3, 0, "Engineering")
              ELSE None_]
         /\ lastId = 2 + Cardinality(another) /\ births = lastId
  BY DEF AccessInit
<1>2. IsFiniteSet(another)
  BY FS_Subset
<1>3. Cardinality(another) \in Nat /\ (another # {} => Cardinality(another) = 1)
  BY <1>1, <1>2, FS_CardinalityType, FS_EmptySet
<1>4. \A e, f \in another : e = f
  <2>1. CASE another # {}
    <3>1. PICK x : another = {x}
      BY <1>2, <1>3, <2>1, FS_Singleton
    <3> QED BY <3>1
  <2> QED BY <2>1
<1> DEFINE row(e) ==
             IF e = Admin THEN Administrator_(1, 1, "Operations")
             ELSE IF e = SystemAudit THEN Administrator_(2, 1, "Security")
             ELSE IF e \in another THEN Administrator_(3, 0, "Engineering")
             ELSE None_
<1>5. account = [e \in Emails |-> row(e)]
  BY <1>1
<1>6. account \in [Emails -> Account_] /\ \A e \in Emails : account[e] = row(e)
  <2>1. \A e \in Emails : row(e) \in Account_
    BY EmptyAccount DEF Account_, Administrator_
  <2> HIDE DEF row
  <2> QED BY <1>5, <2>1
<1>7. /\ request = [r \in Requests |-> Idle_] /\ tokens = {} /\ audit = {}
      /\ Idle_ \in Request_ /\ Idle_.phase = "idle"
  BY EmptyAccount DEF AccessInit, Idle_, Request_
<1>8. lastId \in Nat /\ births \in Nat /\ births = lastId /\ lastId >= 2
      /\ (another # {} => lastId = 3)
  BY <1>1, <1>3
<1>9. AccessTypeOK
  BY <1>6, <1>7, <1>8 DEF AccessTypeOK
<1>10. \A e \in Emails : /\ account[e].id = account[e].birth
                         /\ account[e].id \in 0 .. lastId
                         /\ e \notin {Admin, SystemAudit} \cup another => account[e].id = 0
  BY <1>6, <1>8, EmptyAccount DEF Administrator_
<1>11. Numbered /\ OwnAccountIds
  <2>1. Numbered
    BY <1>8, <1>10 DEF Numbered, Present
  <2>2. \A e, f \in Live : account[e].id = account[f].id => e = f
    BY <1>4, <1>6, <1>10 DEF Live, Present, Administrator_
  <2> QED BY <1>10, <2>1, <2>2 DEF OwnAccountIds
<1>12. AdminIsLeft
  BY <1>6 DEF AdminIsLeft, Present, Administrator_
<1> QED BY <1>7, <1>9, <1>11, <1>12 DEF AccessInv, Current

\* The account of one address is made, removed or deactivated, or all stay as they are.
Changed_(x) ==
    /\ \A e \in Emails : e # x => account'[e] = account[e]
    /\ \/ account'[x] = account[x] /\ UNCHANGED <<births, lastId>>
       \/ account'[x] = None_ /\ UNCHANGED <<births, lastId>>
       \/ /\ account'[x] = [account[x] EXCEPT !.active = FALSE] /\ UNCHANGED <<births, lastId>>
       \/ /\ ~Present(x) /\ births' = births + 1 /\ account'[x].birth = births + 1
          /\ account'[x].id \in Nat /\ lastId' \in Nat
          /\ database = "postgres" => account'[x].id = lastId + 1 /\ lastId' = lastId + 1

LEMMA ChangeKeeps ==
    ASSUME AccessInv, NEW x \in Emails, Changed_(x), account' \in [Emails -> Account_],
           UNCHANGED database
    PROVE  /\ Numbered' /\ OwnAccountIds' /\ births' \in Nat /\ lastId' \in Nat
           /\ \A q \in Request_ : Current(q) => Current(q)'
           /\ \A a \in [id : Nat, by : Emails] : Attributed(a) => Attributed(a)'
<1>1. /\ account \in [Emails -> Account_] /\ births \in Nat /\ lastId \in Nat
      /\ Numbered /\ OwnAccountIds
  BY DEF AccessInv, AccessTypeOK
<1>2. /\ \A e \in Emails : account[e].id \in Nat /\ account[e].birth \in Nat
      /\ \A e \in Emails : account'[e].id \in Nat /\ account'[e].birth \in Nat
  BY <1>1 DEF Account_
<1>3. births' \in Nat /\ lastId' \in Nat /\ births <= births'
      /\ (database = "postgres" => lastId <= lastId')
  BY <1>1 DEF Changed_
<1>4. \A e \in Emails \ {x} : account'[e] = account[e]
  BY DEF Changed_
<1>5. \/ /\ account'[x].id = account[x].id /\ account'[x].birth = account[x].birth
         /\ account'[x].role = account[x].role
      \/ account'[x].id = 0 /\ account'[x].birth = 0
      \/ /\ account[x].id = 0 /\ births' = births + 1 /\ account'[x].birth = births + 1
         /\ database = "postgres" => account'[x].id = lastId + 1 /\ lastId' = lastId + 1
  <2>1. CASE account'[x] = [account[x] EXCEPT !.active = FALSE]
    <3>1. account[x] \in Account_
      BY <1>1
    <3> QED BY <2>1, <3>1 DEF Account_
  <2> QED BY <2>1, EmptyAccount DEF Changed_, Present
<1>6. Numbered'
  <2> SUFFICES ASSUME NEW e \in Emails
               PROVE  account'[e].birth <= births' /\ (account'[e].id # 0 => account'[e].birth # 0)
    BY DEF Numbered, Present
  <2>1. account[e].birth <= births /\ (account[e].id # 0 => account[e].birth # 0)
    BY <1>1 DEF Numbered, Present
  <2>2. CASE e # x
    BY <1>1, <1>2, <1>3, <1>4, <2>1, <2>2
  <2>3. CASE e = x
    BY <1>1, <1>2, <1>3, <1>5, <2>1, <2>3
  <2> QED BY <2>2, <2>3
<1>7. OwnAccountIds'
  <2> SUFFICES ASSUME database = "postgres"
               PROVE  /\ \A e \in Emails : account'[e].id <= lastId'
                      /\ \A e, f \in Emails : account'[e].id # 0 /\ account'[e].id = account'[f].id
                                                => e = f
    BY DEF OwnAccountIds, Live, Present
  <2>1. /\ \A e \in Emails : account[e].id <= lastId
        /\ \A e, f \in Emails : account[e].id # 0 /\ account[e].id = account[f].id => e = f
    BY <1>1 DEF OwnAccountIds, Live, Present
  <2>2. \A e \in Emails : account'[e].id <= lastId'
    <3> TAKE e \in Emails
    <3>1. account[e].id <= lastId
      BY <2>1
    <3>2. CASE e # x
      BY <1>1, <1>2, <1>3, <1>4, <3>1, <3>2
    <3>3. CASE e = x
      BY <1>1, <1>2, <1>3, <1>5, <3>1, <3>3
    <3> QED BY <3>2, <3>3
  <2>3. \A e \in Emails : e # x => account'[e].id # lastId + 1
    BY <1>1, <1>2, <1>4, <2>1
  <2>4. \A e, f \in Emails : account'[e].id # 0 /\ account'[e].id = account'[f].id => e = f
    BY <1>4, <1>5, <2>1, <2>3
  <2> QED BY <2>2, <2>4
<1>8. ASSUME NEW q \in Request_, Current(q) PROVE Current(q)'
  <2> SUFFICES ASSUME q.phase = "authorised" PROVE Current(q)'
    BY DEF Current
  <2>1. /\ q.actor # SystemAudit /\ q.user.birth \in 1 .. births
        /\ q.op \in UserOps => q.user.role = "ADMIN"
        /\ account[q.actor].birth = q.user.birth =>
             account[q.actor].id # 0 /\ account[q.actor].role = q.user.role
    BY <1>8 DEF Current, Present
  <2>2. q.actor \in Emails
    BY DEF Request_
  <2>3. q.user.birth \in 1 .. births'
    BY <1>1, <1>3, <2>1
  <2>4. account'[q.actor].birth = q.user.birth =>
             account'[q.actor].id # 0 /\ account'[q.actor].role = q.user.role
    <3>1. CASE q.actor # x
      BY <1>4, <2>1, <2>2, <3>1
    <3>2. CASE q.actor = x
      BY <1>1, <1>5, <2>1, <3>2
    <3> QED BY <3>1, <3>2
  <2> QED BY <2>1, <2>3, <2>4 DEF Current, Present
<1>9. ASSUME NEW a \in [id : Nat, by : Emails], Attributed(a) PROVE Attributed(a)'
  <2> SUFFICES ASSUME database = "postgres"
               PROVE  /\ a.id <= lastId'
                      /\ \A e \in Emails \ {SystemAudit} :
                           account'[e].id # 0 /\ account'[e].id = a.id => e = a.by
    BY DEF Attributed, Live, Present
  <2>1. /\ a.id <= lastId /\ a.id \in Nat
        /\ \A e \in Emails \ {SystemAudit} : account[e].id # 0 /\ account[e].id = a.id => e = a.by
    BY <1>9 DEF Attributed, Live, Present
  <2>2. a.id # lastId + 1 /\ a.id <= lastId'
    BY <1>1, <1>3, <2>1
  <2> QED BY <1>4, <1>5, <2>1, <2>2
<1> QED BY <1>3, <1>6, <1>7, <1>8, <1>9

LEMMA NewIdIsNat == AccessTypeOK => NewId \in Nat
<1> SUFFICES ASSUME AccessTypeOK PROVE NewId \in Nat
  OBVIOUS
<1> DEFINE ids == {account[e].id : e \in Emails}
<1>1. ids \subseteq Nat
  BY DEF AccessTypeOK, Account_
<1>2. IsFiniteSet(ids)
  <2> DEFINE f == [e \in Emails |-> account[e].id]
  <2>1. f \in [Emails -> ids] /\ \A i \in ids : \E e \in Emails : f[e] = i
    OBVIOUS
  <2> HIDE DEF f, ids
  <2>2. f \in Surjection(Emails, ids)
    BY <2>1 DEF Surjection
  <2> QED BY <2>2, AccessAssumption, FS_Surjection
<1>3. IsFiniteSet({0} \cup ids)
  BY <1>2, FS_Singleton, FS_Union
<1> DEFINE known == {0} \cup ids
<1>4. IsFiniteSet(known) /\ known \subseteq Nat /\ known # {}
  BY <1>1, <1>3
<1> HIDE DEF known, ids
<1>5. Max(known) \in Nat
  BY <1>4, MaxOfNats
<1>6. Max({0} \cup {account[e].id : e \in Emails}) \in Nat
  BY <1>5 DEF known, ids
<1> HIDE DEF ids
<1> QED BY <1>6 DEF NewId, AccessTypeOK

LEMMA MakeIsChange ==
    ASSUME AccessInv, NEW x \in Emails, ~Present(x), NEW role \in {"ADMIN", "ANALYST", "VIEWER"},
           NEW tenant \in {0, 1}, NEW dept \in {"Operations", "Engineering"},
           Make(x, role, tenant, dept)
    PROVE  Changed_(x) /\ account' \in [Emails -> Account_]
<1> DEFINE new == [id |-> NewId, birth |-> births + 1, role |-> role, active |-> TRUE,
                   tenant |-> tenant, dept |-> dept]
<1>1. NewId \in Nat /\ births \in Nat /\ account \in [Emails -> Account_] /\ lastId \in Nat
  BY NewIdIsNat DEF AccessInv, AccessTypeOK
<1>2. account' = [account EXCEPT ![x] = new] /\ lastId' = NewId /\ births' = births + 1
  BY DEF Make
<1>3. new \in Account_ /\ new.id = NewId /\ new.birth = births + 1
  BY <1>1 DEF Account_
<1> HIDE DEF new
<1>4. account' \in [Emails -> Account_] /\ account'[x] = new
      /\ \A e \in Emails : e # x => account'[e] = account[e]
  BY <1>1, <1>2, <1>3
<1>5. database = "postgres" => NewId = lastId + 1
  BY DEF NewId
<1> QED BY <1>1, <1>2, <1>3, <1>4, <1>5 DEF Changed_

LEMMA RemoveIsChange ==
    ASSUME AccessInv, NEW x \in Emails, UNCHANGED <<births, lastId>>,
           \/ account' = [account EXCEPT ![x] = None_]
           \/ account' = [account EXCEPT ![x].active = FALSE]
           \/ account' = account
    PROVE  Changed_(x) /\ account' \in [Emails -> Account_]
<1>1. account \in [Emails -> Account_]
  BY DEF AccessInv, AccessTypeOK
<1>2. CASE account' = [account EXCEPT ![x] = None_]
  BY <1>1, <1>2, EmptyAccount DEF Changed_
<1>3. CASE account' = [account EXCEPT ![x].active = FALSE]
  <2>1. account[x] \in Account_
    BY <1>1
  <2>2. [account[x] EXCEPT !.active = FALSE] \in Account_
    BY <2>1 DEF Account_
  <2>3. account' = [account EXCEPT ![x] = [account[x] EXCEPT !.active = FALSE]]
    BY <1>3
  <2> QED BY <1>1, <2>2, <2>3 DEF Changed_
<1>4. CASE account' = account
  BY <1>1, <1>4 DEF Changed_
<1> QED BY <1>2, <1>3, <1>4
-----------------------------------------------------------------------------
\* The work of a request: it changes one account at most, and moves on.
LEMMA AnswerKeeps ==
    ASSUME AccessInv, NEW r \in Requests, Answer(r), request[r].phase = "authorised",
           NEW x \in Emails, Changed_(x), account' \in [Emails -> Account_], AdminIsLeft'
    PROVE  AccessInv'
<1>1. /\ request' = [request EXCEPT ![r].phase = "answered"]
      /\ UNCHANGED <<database, tokens, audit>>
  BY DEF Answer
<1>2. /\ Numbered' /\ OwnAccountIds' /\ births' \in Nat /\ lastId' \in Nat
      /\ \A q \in Request_ : Current(q) => Current(q)'
      /\ \A a \in [id : Nat, by : Emails] : Attributed(a) => Attributed(a)'
  BY <1>1, ChangeKeeps
<1>3. /\ request \in [Requests -> Request_] /\ audit \subseteq [id : Nat, by : Emails]
      /\ tokens \subseteq Emails \ {SystemAudit}
      /\ \A q \in Requests : Current(request[q])
      /\ \A a \in audit : Attributed(a)
  BY DEF AccessInv, AccessTypeOK
<1>4. /\ request' \in [Requests -> Request_] /\ request'[r].phase = "answered"
      /\ \A q \in Requests : q # r => request'[q] = request[q]
  <2>1. request[r] \in Request_
    BY <1>3
  <2>2. [request[r] EXCEPT !.phase = "answered"] \in Request_
    BY <2>1 DEF Request_
  <2>3. request' = [request EXCEPT ![r] = [request[r] EXCEPT !.phase = "answered"]]
    BY <1>1
  <2>4. request'[r].phase = "answered"
    BY <1>3, <2>1, <2>3 DEF Request_
  <2> QED BY <1>3, <2>2, <2>3, <2>4
<1>5. AccessTypeOK'
  BY <1>1, <1>2, <1>3, <1>4 DEF AccessTypeOK
<1>6. ASSUME NEW q \in Requests PROVE Current(request[q])'
  <2> DEFINE new == request'[q]
  <2>1. CASE q = r
    BY <1>4, <2>1 DEF Current
  <2>2. CASE q # r
    <3>1. PICK old \in Request_ : old = request[q] /\ Current(old)
      BY <1>3
    <3>2. Current(old)'
      BY <1>2, <3>1
    <3>3. request'[q] = old
      BY <1>4, <2>2, <3>1
    <3> QED BY <3>2, <3>3 DEF Current
  <2> QED BY <2>1, <2>2
<1>7. ASSUME NEW a \in audit' PROVE Attributed(a)'
  <2>1. a \in audit /\ a \in [id : Nat, by : Emails]
    BY <1>1, <1>3, <1>7
  <2> QED BY <1>2, <1>3, <2>1
<1> QED BY <1>2, <1>5, <1>6, <1>7 DEF AccessInv

\* The administrator who is left stays, or the one who removes it does.
LEMMA AdminStays ==
    ASSUME AccessInv, NEW r \in Requests, request[r].phase = "authorised", Answer(r),
           NEW x \in Emails, Changed_(x),
           account'[x] = account[x] \/ ~Present(x)
             \/ (request[r].op \in UserOps /\ x # request[r].actor)
    PROVE  AdminIsLeft'
<1> SUFFICES ASSUME ~crossed'
             PROVE  \E e \in Emails \ {SystemAudit} :
                       account'[e].id # 0 /\ account'[e].role = "ADMIN" /\ account'[e].active
  BY DEF AdminIsLeft, Present
<1> DEFINE a == request[r].actor
<1>1. ~crossed /\ account[a].birth = request[r].user.birth /\ account[a].active
  BY DEF Answer
<1>2. PICK e \in Emails \ {SystemAudit} :
            account[e].id # 0 /\ account[e].role = "ADMIN" /\ account[e].active
  BY <1>1 DEF AccessInv, AdminIsLeft, Present
<1>3. \A f \in Emails : f # x => account'[f] = account[f]
  BY DEF Changed_
<1>4. CASE account'[x] = account[x] \/ x # e
  BY <1>2, <1>3, <1>4
<1>5. CASE x = e /\ request[r].op \in UserOps /\ x # a
  <2>1. Current(request[r]) /\ request[r] \in Request_
    BY DEF AccessInv, AccessTypeOK
  <2>2. a \in Emails /\ a # SystemAudit /\ account[a].id # 0 /\ account[a].role = "ADMIN"
    BY <1>1, <1>5, <2>1 DEF Current, Present, Request_
  <2> QED BY <1>1, <1>3, <1>5, <2>2
<1> QED BY <1>2, <1>4, <1>5 DEF Present

LEMMA TargetIsAddress ==
    ASSUME AccessInv, NEW r \in Requests
    PROVE  request[r].target \in Emails /\ request[r].actor \in Emails
<1>1. request[r] \in Request_
  BY DEF AccessInv, AccessTypeOK
<1> QED BY <1>1 DEF Request_

LEMMA NothingChanged ==
    ASSUME AccessInv, UNCHANGED <<account, births, lastId>>, NEW x \in Emails
    PROVE  Changed_(x) /\ account' \in [Emails -> Account_]
BY DEF Changed_, AccessInv, AccessTypeOK

LEMMA CreateKeeps ==
    ASSUME AccessInv, NEW r \in Requests, NEW role \in {"ADMIN", "VIEWER"}, CreateUser(r, role)
    PROVE  AccessInv'
<1> DEFINE x == request[r].target
<1>1. x \in Emails
  BY TargetIsAddress
<1>2. Answer(r) /\ request[r].phase = "authorised"
  BY DEF CreateUser, Doing
<1>3. CASE ~Present(x) /\ births < MaxAccounts
  <2>1. Make(x, role, 0, "Engineering")
    BY <1>3 DEF CreateUser
  <2>2. Changed_(x) /\ account' \in [Emails -> Account_]
    BY <1>1, <1>3, <2>1, MakeIsChange
  <2>3. AdminIsLeft'
    BY <1>1, <1>2, <1>3, <2>2, AdminStays
  <2> QED BY <1>1, <1>2, <2>2, <2>3, AnswerKeeps
<1>4. CASE ~(~Present(x) /\ births < MaxAccounts)
  <2>1. UNCHANGED <<account, births, lastId>>
    BY <1>4 DEF CreateUser
  <2>2. Changed_(x) /\ account' \in [Emails -> Account_] /\ account'[x] = account[x]
    BY <1>1, <2>1, NothingChanged
  <2>3. AdminIsLeft'
    BY <1>1, <1>2, <2>2, AdminStays
  <2> QED BY <1>1, <1>2, <2>2, <2>3, AnswerKeeps
<1> QED BY <1>3, <1>4

LEMMA RemovalKeeps ==
    ASSUME AccessInv, NEW r \in Requests, DeleteUser(r) \/ DeactivateUser(r)
    PROVE  AccessInv'
<1> DEFINE x == request[r].target
<1>1. x \in Emails
  BY TargetIsAddress
<1>2. /\ Answer(r) /\ request[r].phase = "authorised" /\ request[r].op \in UserOps
      /\ UNCHANGED <<births, lastId>>
  BY DEF DeleteUser, DeactivateUser, Doing, UserOps
<1>3. /\ \/ account' = [account EXCEPT ![x] = None_]
         \/ account' = [account EXCEPT ![x].active = FALSE]
         \/ account' = account
      /\ account' = account \/ x # request[r].actor
  BY DEF DeleteUser, DeactivateUser, Removable
<1>4. Changed_(x) /\ account' \in [Emails -> Account_]
  BY <1>1, <1>2, <1>3, RemoveIsChange
<1>5. AdminIsLeft'
  BY <1>1, <1>2, <1>3, <1>4, AdminStays
<1> QED BY <1>1, <1>2, <1>4, <1>5, AnswerKeeps

LEMMA IncidentKeeps ==
    ASSUME AccessInv, NEW r \in Requests,
           \/ ReadIncident(r) \/ DeleteIncident_(r)
           \/ \E resolved \in BOOLEAN : ResolveIncident_(r, resolved)
    PROVE  AccessInv'
<1> DEFINE x == request[r].target
<1>1. x \in Emails
  BY TargetIsAddress
<1>2. Answer(r) /\ request[r].phase = "authorised" /\ UNCHANGED <<account, births, lastId>>
  BY DEF ReadIncident, DeleteIncident_, ResolveIncident_, Doing
<1>3. Changed_(x) /\ account' \in [Emails -> Account_] /\ account'[x] = account[x]
  BY <1>1, <1>2, NothingChanged
<1>4. AdminIsLeft'
  BY <1>1, <1>2, <1>3, AdminStays
<1> QED BY <1>1, <1>2, <1>3, <1>4, AnswerKeeps

\* The callback of the IdP makes an account where there is none.
LEMMA SsoKeeps ==
    ASSUME AccessInv, SsoCallback
    PROVE  AccessInv'
<1> USE AccessAssumption
<1>1. UNCHANGED <<database, request, audit, crossed>> /\ tokens' \subseteq tokens \cup {Sso}
  BY DEF SsoCallback
<1>2. /\ Changed_(Sso) /\ account' \in [Emails -> Account_]
      /\ account'[Sso] = account[Sso] \/ ~Present(Sso)
  <2>1. CASE Present(Sso)
    <3>1. UNCHANGED <<account, births, lastId>>
      BY <2>1 DEF SsoCallback
    <3> QED BY <3>1, NothingChanged
  <2>2. CASE ~Present(Sso)
    <3>1. Make(Sso, "ANALYST", 1, "Operations")
      BY <2>2 DEF SsoCallback
    <3> QED BY <2>2, <3>1, MakeIsChange
  <2> QED BY <2>1, <2>2
<1>3. /\ Numbered' /\ OwnAccountIds' /\ births' \in Nat /\ lastId' \in Nat
      /\ \A q \in Request_ : Current(q) => Current(q)'
      /\ \A a \in [id : Nat, by : Emails] : Attributed(a) => Attributed(a)'
  BY <1>1, <1>2, ChangeKeeps
<1>4. /\ request \in [Requests -> Request_] /\ audit \subseteq [id : Nat, by : Emails]
      /\ tokens \subseteq Emails \ {SystemAudit} /\ AdminIsLeft
      /\ \A q \in Requests : Current(request[q])
      /\ \A a \in audit : Attributed(a)
  BY DEF AccessInv, AccessTypeOK
<1>5. AccessTypeOK'
  BY <1>1, <1>2, <1>3, <1>4 DEF AccessTypeOK
<1>6. ASSUME NEW q \in Requests PROVE Current(request[q])'
  <2>1. PICK old \in Request_ : old = request[q] /\ Current(old)
    BY <1>4
  <2>2. Current(old)' /\ request'[q] = old
    BY <1>1, <1>3, <2>1
  <2> QED BY <2>2 DEF Current
<1>7. ASSUME NEW a \in audit' PROVE Attributed(a)'
  <2>1. a \in audit /\ a \in [id : Nat, by : Emails]
    BY <1>1, <1>4, <1>7
  <2> QED BY <1>3, <1>4, <2>1
<1>8. AdminIsLeft'
  <2>1. \A e \in Emails : e # Sso => account'[e] = account[e]
    BY <1>2 DEF Changed_
  <2> QED BY <1>1, <1>2, <1>4, <2>1 DEF AdminIsLeft, Present
<1> QED BY <1>3, <1>5, <1>6, <1>7, <1>8 DEF AccessInv

LEMMA AuthoriseKeeps ==
    ASSUME AccessInv, NEW r \in Requests, NEW e \in Emails,
           NEW op \in UserOps \cup IncidentOps, NEW target \in Emails, Authorise(r, e, op, target)
    PROVE  AccessInv'
<1> DEFINE new == [phase |-> "authorised", actor |-> e, user |-> account[e], op |-> op,
                   target |-> target]
<1>1. /\ request' = [request EXCEPT ![r] = new]
      /\ UNCHANGED <<account, database, lastId, tokens, audit, births, crossed>>
      /\ e \in tokens /\ Present(e) /\ Allowed(account[e], op)
  BY DEF Authorise
<1>2. /\ AccessTypeOK /\ Numbered /\ OwnAccountIds /\ AdminIsLeft
      /\ \A q \in Requests : Current(request[q])
      /\ \A a \in audit : Attributed(a)
  BY DEF AccessInv
<1>3. account[e] \in Account_ /\ e # SystemAudit /\ births \in Nat
  BY <1>1, <1>2 DEF AccessTypeOK
<1>4. new \in Request_
  BY <1>3 DEF Request_
<1>5. Current(new)
  <2>1. account[e].birth \in 1 .. births
    BY <1>1, <1>2, <1>3 DEF Numbered, Account_
  <2>2. op \in UserOps => account[e].role = "ADMIN"
    BY <1>1 DEF Allowed
  <2> QED BY <1>1, <1>3, <2>1, <2>2 DEF Current
<1> HIDE DEF new
<1>6. /\ request' \in [Requests -> Request_] /\ request'[r] = new
      /\ \A q \in Requests : q # r => request'[q] = request[q]
  BY <1>1, <1>2, <1>4 DEF AccessTypeOK
<1>7. \A q \in Requests : Current(request[q])'
  BY <1>1, <1>2, <1>5, <1>6 DEF Current, Present
<1>8. AccessTypeOK' /\ Numbered' /\ OwnAccountIds' /\ AdminIsLeft'
  BY <1>1, <1>2, <1>6 DEF AccessTypeOK, Numbered, OwnAccountIds, AdminIsLeft, Present, Live
<1>9. \A a \in audit' : Attributed(a)'
  BY <1>1, <1>2 DEF Attributed, Present, Live
<1> QED BY <1>7, <1>8, <1>9 DEF AccessInv

\* The record names who has the address by then; an address that is gone, the audit user.
LEMMA AuditKeeps ==
    ASSUME AccessInv, NEW r \in Requests, NEW success \in BOOLEAN, Audited(r, success)
    PROVE  AccessInv'
<1> DEFINE new == [id |-> Actor(r), by |-> request[r].actor]
<1>1. /\ audit' \subseteq audit \cup {new}
      /\ request' = [request EXCEPT ![r] = Idle_]
      /\ UNCHANGED <<account, database, lastId, tokens, births, crossed>>
  BY DEF Audited
<1>2. /\ AccessTypeOK /\ Numbered /\ OwnAccountIds /\ AdminIsLeft
      /\ \A q \in Requests : Current(request[q])
      /\ \A a \in audit : Attributed(a)
  BY DEF AccessInv
<1>3. request[r].actor \in Emails /\ Idle_ \in Request_ /\ Idle_.phase = "idle"
  BY AccessAssumption, TargetIsAddress, EmptyAccount DEF Idle_, Request_
<1>4. /\ request' \in [Requests -> Request_] /\ request'[r] = Idle_
      /\ \A q \in Requests : q # r => request'[q] = request[q]
  BY <1>1, <1>2, <1>3 DEF AccessTypeOK
<1>5. Actor(r) \in Nat
  <2>1. account[request[r].actor] \in Account_ /\ account[SystemAudit] \in Account_
    BY <1>2, <1>3, AccessAssumption DEF AccessTypeOK
  <2> QED BY <2>1 DEF Actor, Account_
<1>6. Attributed(new)
  <2> SUFFICES ASSUME database = "postgres"
               PROVE  /\ Actor(r) <= lastId
                      /\ \A e \in Live \ {SystemAudit} :
                            account[e].id = Actor(r) => e = request[r].actor
    BY DEF Attributed
  <2>1. /\ \A e \in Emails : account[e].id <= lastId
        /\ \A e, f \in Emails : account[e].id # 0 /\ account[e].id = account[f].id => e = f
    BY <1>2 DEF OwnAccountIds, Live, Present
  <2>2. CASE request[r].actor \in tokens /\ Present(request[r].actor)
    <3>1. Actor(r) = account[request[r].actor].id
      BY <2>2 DEF Actor
    <3> QED BY <1>3, <2>1, <3>1 DEF Live, Present
  <2>3. CASE ~(request[r].actor \in tokens /\ Present(request[r].actor))
    <3>1. Actor(r) = account[SystemAudit].id
      BY <2>3 DEF Actor
    <3> QED BY AccessAssumption, <2>1, <3>1 DEF Live, Present
  <2> QED BY <2>2, <2>3
<1>7. new \in [id : Nat, by : Emails]
  BY <1>3, <1>5
<1> HIDE DEF new
<1>8. AccessTypeOK' /\ Numbered' /\ OwnAccountIds' /\ AdminIsLeft'
  BY <1>1, <1>2, <1>4, <1>7 DEF AccessTypeOK, Numbered, OwnAccountIds, AdminIsLeft, Present, Live
<1>9. \A q \in Requests : Current(request[q])'
  BY <1>1, <1>2, <1>3, <1>4 DEF Current, Present
<1>10. \A a \in audit' : Attributed(a)'
  BY <1>1, <1>2, <1>6 DEF Attributed, Present, Live
<1> QED BY <1>8, <1>9, <1>10 DEF AccessInv

LEMMA QuietKeeps ==
    ASSUME AccessInv, tokens' \subseteq Emails \ {SystemAudit}, audit' \subseteq audit,
           UNCHANGED <<account, database, lastId, request, births, crossed>>
    PROVE  AccessInv'
BY DEF AccessInv, AccessTypeOK, Numbered, OwnAccountIds, AdminIsLeft, Current, Attributed,
       Present, Live

LEMMA AccessPreserved == AccessInv /\ [AccessNext]_accessVars => AccessInv'
<1> SUFFICES ASSUME AccessInv, [AccessNext]_accessVars PROVE AccessInv'
  OBVIOUS
<1>0. tokens \subseteq Emails \ {SystemAudit}
  BY DEF AccessInv, AccessTypeOK
<1>1. CASE UNCHANGED accessVars
  <2>1. UNCHANGED <<account, database, lastId, request, births, crossed, tokens, audit>>
    BY <1>1 DEF accessVars
  <2> QED BY <1>0, <2>1, QuietKeeps
<1>2. CASE SsoCallback
  BY <1>2, SsoKeeps
<1>3. ASSUME NEW e \in Emails, Login(e) \/ Expire(e) PROVE AccessInv'
  <2>1. /\ UNCHANGED <<account, database, lastId, request, births, crossed, audit>>
        /\ tokens' \subseteq Emails \ {SystemAudit}
    BY <1>0, <1>3 DEF Login, Expire
  <2> QED BY <2>1, QuietKeeps
<1>4. ASSUME NEW r \in Requests, NEW e \in Emails,
             \/ \E op \in UserOps, target \in Emails : Authorise(r, e, op, target)
             \/ \E op \in IncidentOps : Authorise(r, e, op, e)
      PROVE  AccessInv'
  BY <1>4, AuthoriseKeeps
<1>5. ASSUME NEW r \in Requests,
             \/ \E role \in {"ADMIN", "VIEWER"} : CreateUser(r, role)
             \/ DeleteUser(r) \/ DeactivateUser(r) \/ ReadIncident(r) \/ DeleteIncident_(r)
             \/ \E resolved \in BOOLEAN : ResolveIncident_(r, resolved)
             \/ \E success \in BOOLEAN : Audited(r, success)
      PROVE  AccessInv'
  BY <1>5, CreateKeeps, RemovalKeeps, IncidentKeeps, AuditKeeps
<1>6. CASE CleanUpRecords(audit)
  <2>1. /\ UNCHANGED <<account, database, lastId, request, births, crossed, tokens>>
        /\ audit' \subseteq audit
    BY <1>6 DEF CleanUpRecords
  <2> QED BY <1>0, <2>1, QuietKeeps
<1> QED BY <1>1, <1>2, <1>3, <1>4, <1>5, <1>6 DEF AccessNext

\* Somebody can administer the platform, and on postgres a record never comes to name
\* somebody who did not act.
THEOREM WhoActedIsKnown == AccessSpec => []OperatorsAreKnown
<1>1. AccessInv => OperatorsAreKnown
  BY DEF AccessInv, OperatorsAreKnown, AttributedToActor, Attributed
<1> QED BY AccessInitially, AccessPreserved, <1>1, PTL DEF AccessSpec
-----------------------------------------------------------------------------
(***************************************************************************)
(* The widgets of a dashboard.  The incidents are finitely many and none   *)
(* is later than now; the days of a series reach back to its start or as   *)
(* far as they may, and the slices of the pie, in order, part the scores.  *)
(***************************************************************************)
\* The incidents a widget counts: none is later than now.
WidgetInv ==
    /\ IsFiniteSet(incidents) /\ now_ \in Nat
    /\ \A i \in incidents : i.at \in Nat /\ i.at <= now_ /\ i.score \in Nat
    /\ DOMAIN shown = DOMAIN Nothing

\* Of two instants the later has the later day.
LEMMA DaysInOrder == ASSUME NEW a \in Int, NEW b \in Int, a <= b
                     PROVE  Day(a) \in Int /\ Day(b) \in Int /\ Day(a) <= Day(b)
  BY DEF Day

\* The least of two numbers, as the library picks it.
LEMMA LeastOfTwo == ASSUME NEW a \in Int, NEW b \in Int PROVE Min({a, b}) = IF a <= b THEN a ELSE b
<1> DEFINE c == IF a <= b THEN a ELSE b
<1>1. c \in {a, b} /\ \A y \in {a, b} : c <= y
  OBVIOUS
<1>2. \A x \in {a, b} : (\A y \in {a, b} : x <= y) => x = c
  OBVIOUS
<1> HIDE DEF c
<1>3. Min({a, b}) = c
  BY <1>1, <1>2 DEF Min
<1> QED BY <1>3 DEF c

\* Likewise the greatest.
LEMMA GreatestOfTwo == ASSUME NEW a \in Int, NEW b \in Int PROVE Max({a, b}) = IF a >= b THEN a ELSE b
<1> DEFINE c == IF a >= b THEN a ELSE b
<1>1. c \in {a, b} /\ \A y \in {a, b} : c >= y
  OBVIOUS
<1>2. \A x \in {a, b} : (\A y \in {a, b} : x >= y) => x = c
  OBVIOUS
<1> HIDE DEF c
<1>3. Max({a, b}) = c
  BY <1>1, <1>2 DEF Max
<1> QED BY <1>3 DEF c

\* The days of a series reach back to its start, or as far as they may.
LEMMA DaysReach ==
    ASSUME now_ \in Nat, NEW since \in Int
    PROVE  /\ DaysOf(since) \in 1 .. MaxDays
           /\ DaysOf(since) = MaxDays \/ DaysOf(since) >= Day(now_) - Day(since) + 1
<1>1. Day(now_) \in Int /\ Day(since) \in Int
  BY DEF Day
<1> DEFINE x == Day(now_) - Day(since) + 1
           y == IF 1 >= x THEN 1 ELSE x
<1>2. x \in Int /\ y \in Int /\ y >= 1 /\ y >= x /\ MaxDays \in Nat /\ MaxDays >= 1
  BY <1>1, DocAssumption
<1>3. Max({1, x}) = y
  <2> HIDE DEF x
  <2> QED BY <1>2, GreatestOfTwo DEF y
<1> HIDE DEF y, x
<1>4. Min({MaxDays, y}) = IF MaxDays <= y THEN MaxDays ELSE y
  BY <1>2, LeastOfTwo
<1>5. DaysOf(since) = IF MaxDays <= y THEN MaxDays ELSE y
  BY <1>3, <1>4 DEF DaysOf, x
<1>6. DaysOf(since) \in 1 .. MaxDays /\ (DaysOf(since) = MaxDays \/ DaysOf(since) >= x)
  BY <1>2, <1>5
<1> QED BY <1>6 DEF x

\* Each incident in reach falls on one day of the series.
LEMMA SeriesAddsUp ==
    ASSUME WidgetInv, NEW since \in Int
    PROVE  SumFunctionOnSet(Series(since), DOMAIN Series(since))
             = Cardinality({i \in incidents : i.at >= since /\ Day(i.at) > Day(now_) - MaxDays})
<1> DEFINE P == {i \in incidents : i.at >= since /\ Day(i.at) > Day(now_) - MaxDays}
           today == Day(now_)
           n == DaysOf(since)
           K == today - n + 1 .. today
           label == [i \in P |-> Day(i.at)]
           count == [d \in K |-> Cardinality(PartsOf(P, label, d))]
<1>1. /\ IsFiniteSet(incidents) /\ now_ \in Nat
      /\ \A i \in incidents : i.at \in Int /\ i.at <= now_ /\ Day(i.at) \in Int
  BY DEF WidgetInv, Day
<1>2. today \in Int /\ n \in Int /\ n >= 1 /\ n <= MaxDays /\ MaxDays \in Nat
      /\ (n = MaxDays \/ n >= today - Day(since) + 1) /\ Day(since) \in Int
  <2>1. today \in Int /\ Day(since) \in Int
    BY <1>1 DEF Day
  <2>2. MaxDays \in Nat
    BY DocAssumption
  <2>3. n \in 1 .. MaxDays /\ (n = MaxDays \/ n >= today - Day(since) + 1)
    BY <1>1, DaysReach
  <2>4. n \in Int /\ n >= 1 /\ n <= MaxDays
    <3> HIDE DEF n, today
    <3> QED BY <2>2, <2>3
  <2> HIDE DEF n, today
  <2> QED BY <2>1, <2>2, <2>3, <2>4
<1>3. IsFiniteSet(P)
  BY <1>1, FS_Subset
<1>4. IsFiniteSet(K)
  <2> DEFINE a == today - n + 1
  <2>1. a \in Int /\ today \in Int
    BY <1>2
  <2> HIDE DEF a, today
  <2>2. IsFiniteSet(a .. today)
    BY <2>1, FS_Interval
  <2> QED BY <2>2 DEF a
<1>5. \A i \in P : label[i] \in K
  <2>1. TAKE i \in P
  <2>2. i.at \in Int /\ i.at <= now_ /\ since <= i.at /\ Day(i.at) > today - MaxDays
    BY <1>1
  <2>3. Day(since) <= Day(i.at) /\ Day(i.at) <= today /\ Day(i.at) \in Int
    BY <1>1, <2>2, DaysInOrder
  <2> HIDE DEF today, n
  <2>4. Day(i.at) >= today - n + 1
    BY <1>2, <2>2, <2>3
  <2> QED BY <1>2, <2>3, <2>4
<1>6. ASSUME NEW d \in K
      PROVE  Cardinality(PartsOf(P, label, d)) = Cardinality({i \in incidents : i.at >= since /\ Day(i.at) = d})
  <2>1. d \in Int /\ d > today - MaxDays
    <3> HIDE DEF today, n
    <3> QED BY <1>2
  <2>2. PartsOf(P, label, d) = {i \in P : Day(i.at) = d}
    BY DEF PartsOf
  <2>3. {i \in P : Day(i.at) = d} = {i \in incidents : i.at >= since /\ Day(i.at) = d}
    BY <2>1
  <2> QED BY <2>2, <2>3
<1>7. Series(since) = [d \in K |-> Cardinality({i \in incidents : i.at >= since /\ Day(i.at) = d})]
  BY DEF Series
<1>8. Series(since) = count
  <2>1. \A d \in K : Cardinality({i \in incidents : i.at >= since /\ Day(i.at) = d})
                       = Cardinality(PartsOf(P, label, d))
    BY <1>6
  <2> HIDE DEF K, P, label
  <2> QED BY <1>7, <2>1
<1>9. DOMAIN count = K
  OBVIOUS
<1>10. SumFunctionOnSet(count, K) = Cardinality(P)
  <2> HIDE DEF K, P, label
  <2> QED BY <1>3, <1>4, <1>5, CountByLabel
<1> HIDE DEF count
<1> QED BY <1>8, <1>9, <1>10

\* Each score lies in one slice: that of the first band it reaches.
LEMMA PieAddsUp ==
    ASSUME WidgetInv
    PROVE  SumFunctionOnSet(Pie, DOMAIN Bands) = Cardinality(incidents)
<1> DEFINE K == DOMAIN Bands
           In(i) == {n \in K : i.score >= Bands[n]}
           first == [i \in incidents |-> CHOOSE n \in K : n \in In(i) /\ \A m \in In(i) : n <= m]
           count == [n \in K |-> Cardinality(PartsOf(incidents, first, n))]
<1>1. /\ IsFiniteSet(incidents) /\ \A i \in incidents : i.score \in Nat
  BY DEF WidgetInv
<1> DEFINE l == Len(Bands)
<1>2. l \in Nat /\ l >= 1 /\ K = 1 .. l /\ \A n \in K : Bands[n] \in Nat /\ n \in Nat
  BY DocAssumption, LenProperties, EmptySeq
<1>3. IsFiniteSet(K)
  <2> HIDE DEF K, l
  <2> QED BY <1>2, UpToIsFinite
<1>4. ASSUME NEW i \in incidents
      PROVE  first[i] \in In(i) /\ first[i] \in K /\ \A m \in In(i) : first[i] <= m
  <2>1. In(i) \in SUBSET Nat
    BY <1>2
  <2>2. l \in In(i)
    BY <1>1, <1>2, DocAssumption
  <2>3. \E n \in In(i) : \A m \in In(i) : n <= m
    <3> HIDE DEF In
    <3> QED BY <2>1, <2>2, LeastOfNats
  <2> QED BY <2>3
<1>5. ASSUME NEW n \in K, NEW i \in incidents
      PROVE  first[i] = n <=> i \in SliceOf(n)
  <2>1. ASSUME first[i] = n PROVE i \in SliceOf(n)
    <3>1. i.score >= Bands[n]
      BY <1>4, <2>1
    <3>2. CASE n = 1
      BY <3>1, <3>2 DEF SliceOf
    <3>3. CASE n # 1
      <4>1. n - 1 \in K /\ ~(n <= n - 1)
        BY <1>2, <3>3
      <4>2. n - 1 \notin In(i)
        BY <1>4, <2>1, <4>1
      <4>3. i.score < Bands[n - 1]
        BY <1>1, <1>2, <4>1, <4>2
      <4> QED BY <3>1, <4>3 DEF SliceOf
    <3> QED BY <3>2, <3>3
  <2>2. ASSUME i \in SliceOf(n) PROVE first[i] = n
    <3>1. n \in In(i) /\ (n = 1 \/ i.score < Bands[n - 1])
      BY <2>2 DEF SliceOf
    <3> DEFINE f == first[i]
    <3>2. f \in K /\ f <= n /\ i.score >= Bands[f]
      BY <1>4, <3>1
    <3> HIDE DEF f
    <3>3. ASSUME f # n PROVE FALSE
      <4>1. n # 1 /\ n - 1 \in K /\ f <= n - 1
        BY <1>2, <3>2, <3>3
      <4>2. Bands[f] >= Bands[n - 1]
        <5>1. CASE f = n - 1
          BY <1>2, <4>1, <5>1
        <5>2. CASE f # n - 1
          <6>1. f < n - 1
            BY <1>2, <3>2, <4>1, <5>2
          <6>2. Bands[f] > Bands[n - 1]
            BY <3>2, <4>1, <6>1, DocAssumption
          <6> QED BY <1>2, <3>2, <4>1, <6>2
        <5> QED BY <5>1, <5>2
      <4>3. Bands[f] \in Nat /\ Bands[n - 1] \in Nat /\ i.score \in Nat
        BY <1>1, <1>2, <3>2, <4>1
      <4> QED BY <3>1, <3>2, <4>1, <4>2, <4>3
    <3> QED BY <3>3 DEF f
  <2> QED BY <2>1, <2>2
<1>6. \A n \in K : SliceOf(n) = PartsOf(incidents, first, n)
  <2>1. TAKE n \in K
  <2>2. SliceOf(n) \subseteq incidents
    BY DEF SliceOf
  <2> HIDE DEF first, K
  <2> QED BY <1>5, <2>2 DEF PartsOf
<1>7. Pie = count
  BY <1>6 DEF Pie
<1>8. \A i \in incidents : first[i] \in K
  BY <1>4
<1>9. SumFunctionOnSet(count, K) = Cardinality(incidents)
  <2> HIDE DEF first, K
  <2> QED BY <1>1, <1>3, <1>8, CountByLabel
<1> QED BY <1>7, <1>9

\* The parts of the invariant hold at the start and are kept.
LEMMA WidgetInvInit == DocInit => WidgetInv
  BY FS_EmptySet DEF DocInit, WidgetInv, Nothing

\* A step changes the incidents, the clock or what is shown, or none of them.
LEMMA WidgetInvStep == WidgetInv /\ [DocNext]_docVars => WidgetInv'
<1> SUFFICES ASSUME WidgetInv, [DocNext]_docVars PROVE WidgetInv'
  OBVIOUS
<1> USE DEF WidgetInv
<1>1. ASSUME UNCHANGED <<incidents, now_, shown>> PROVE WidgetInv'
  BY <1>1
<1>2. ASSUME UNCHANGED <<incidents, now_>>, DOMAIN shown' = DOMAIN Nothing PROVE WidgetInv'
  BY <1>2
<1>3. ASSUME NEW u \in Owners, Create(u) PROVE WidgetInv'
  BY <1>1, <1>3 DEF Create, CreateDashboard, CreateNotebook, CreateMonitor, CreateMetricRule,
     CreateIntegration, CreateDeployment, CreateSlo, CreateSavedQuery, CreateDocument
<1>4. ASSUME NEW d \in docs, NEW u \in Owners, Delete(d, u) PROVE WidgetInv'
  BY <1>1, <1>4 DEF Delete, DeleteDashboard, DeleteNotebook, DeleteMonitor, DeleteMetricRule,
     DeleteIntegration, DeleteSlo, DeleteSavedQuery, DeleteDocument
<1>5. ASSUME NEW x, NEW d, NEW u, NEW sets, BeginUpdate(x, d, u, sets) PROVE WidgetInv'
  BY <1>1, <1>5 DEF BeginUpdate
<1>6. ASSUME NEW x \in Edits, CommitUpdate(x) PROVE WidgetInv'
  BY <1>1, <1>6 DEF CommitUpdate
<1>7. ASSUME LaterDay PROVE WidgetInv'
  <2>1. incidents' = incidents /\ shown' = shown /\ now_' = now_ + 1
    BY <1>7 DEF LaterDay
  <2>2. now_' \in Nat /\ \A i \in incidents : i.at <= now_'
    BY <2>1
  <2> QED BY <2>1, <2>2
<1>8. ASSUME NEW score \in 0 .. MaxScore, OpenOne(score) PROVE WidgetInv'
  <2> DEFINE i0 == [at |-> now_, resolved |-> FALSE, score |-> score]
  <2>1. incidents' = incidents \cup {i0} /\ now_' = now_ /\ shown' = shown
    BY <1>8 DEF OpenOne
  <2>2. i0.at \in Nat /\ i0.at <= now_ /\ i0.score \in Nat
    BY DocAssumption
  <2> HIDE DEF i0
  <2>3. IsFiniteSet(incidents \cup {i0})
    BY FS_AddElement
  <2> QED BY <2>1, <2>2, <2>3
<1>9. ASSUME NEW i \in incidents, ResolveOne(i) PROVE WidgetInv'
  <2> DEFINE i0 == [i EXCEPT !.resolved = TRUE]
  <2>1. incidents' = (incidents \ {i}) \cup {i0} /\ now_' = now_ /\ shown' = shown
    BY <1>9 DEF ResolveOne
  <2>2. i0.at = i.at /\ i0.score = i.score
    OBVIOUS
  <2> HIDE DEF i0
  <2>3. IsFiniteSet((incidents \ {i}) \cup {i0})
    BY FS_AddElement, FS_RemoveElement
  <2> QED BY <2>1, <2>2, <2>3
<1>10. ASSUME NEW picked, ShowSeries(picked) PROVE WidgetInv'
  BY <1>2, <1>10 DEF ShowSeries, Nothing
<1>11. ASSUME ShowPie PROVE WidgetInv'
  BY <1>2, <1>11 DEF ShowPie, Nothing
<1>12. ASSUME ShowHeatmap PROVE WidgetInv'
  BY <1>2, <1>12 DEF ShowHeatmap, Nothing
<1>13. ASSUME CountAll PROVE WidgetInv'
  BY <1>2, <1>13 DEF CountAll, Nothing
<1>14. ASSUME ShowGauge PROVE WidgetInv'
  BY <1>2, <1>14 DEF ShowGauge
<1>15. ASSUME UNCHANGED docVars PROVE WidgetInv'
  BY <1>1, <1>15 DEF docVars
<1> HIDE DEF WidgetInv
<1> QED BY <1>3, <1>4, <1>5, <1>6, <1>7, <1>8, <1>9, <1>10, <1>11, <1>12, <1>13, <1>14, <1>15
        DEF DocNext, UpdateDashboard, UpdateNotebook, UpdateMonitor, MuteMonitor

\* The start of a series: the one picked, or the default span before now.
LEMMA StartIsAnInstant ==
    ASSUME WidgetInv, NEW picked, ShowSeries(picked),
           picked = {} \/ \E s \in 0 .. now_ : picked = {s}
    PROVE  \E since \in Int :
             shown' = [Nothing EXCEPT !.widget = "series", !.since = since, !.series = Series(since)]
<1> DEFINE since == IF picked # {} THEN Min(picked) ELSE now_ - 2 * DefaultSpan
<1>1. now_ \in Nat /\ DefaultSpan \in Nat
  BY DocAssumption DEF WidgetInv
<1>2. since \in Int
  <2>1. CASE picked = {}
    BY <1>1, <2>1
  <2>2. ASSUME NEW s \in 0 .. now_, picked = {s} PROVE since \in Int
    <3>1. Min({s}) = s
      BY <1>1 DEF Min
    <3> QED BY <1>1, <2>2, <3>1
  <2> QED BY <2>1, <2>2
<1>3. shown' = [Nothing EXCEPT !.widget = "series", !.since = since, !.series = Series(since)]
  BY DEF ShowSeries
<1> HIDE DEF since
<1> QED BY <1>2, <1>3

\* What a step shows adds up.
Adds ==
    /\ shown'.widget = "series" =>
         SumFunctionOnSet(shown'.series, DOMAIN shown'.series)
           = Cardinality({i \in incidents : i.at >= shown'.since /\ Day(i.at) > Day(now_) - MaxDays})
    /\ shown'.widget = "pie" =>
         SumFunctionOnSet(shown'.slices, DOMAIN Bands) = Cardinality(incidents)

\* The steps that show a series or a pie show one that adds up; no other step shows either.
LEMMA WidgetsAddUp == WidgetInv /\ [DocNext]_docVars => (shown' # shown => Adds)
<1> SUFFICES ASSUME WidgetInv, [DocNext]_docVars, shown' # shown PROVE Adds
  OBVIOUS
<1>1. ASSUME shown'.widget \notin {"series", "pie"} PROVE Adds
  BY <1>1 DEF Adds
<1>2. ASSUME NEW picked, ShowSeries(picked),
             picked = {} \/ \E s \in 0 .. now_ : picked = {s}
      PROVE  Adds
  <2>1. PICK since \in Int :
          shown' = [Nothing EXCEPT !.widget = "series", !.since = since, !.series = Series(since)]
    BY <1>2, StartIsAnInstant
  <2> DEFINE s == Series(since)
  <2>2. SumFunctionOnSet(s, DOMAIN s)
          = Cardinality({i \in incidents : i.at >= since /\ Day(i.at) > Day(now_) - MaxDays})
    BY SeriesAddsUp
  <2> HIDE DEF s
  <2>3. shown'.widget = "series" /\ shown'.since = since /\ shown'.series = s
    BY <2>1 DEF Nothing, s
  <2> QED BY <2>2, <2>3 DEF Adds
<1>3. ASSUME ShowPie PROVE Adds
  <2>1. shown'.widget = "pie" /\ shown'.slices = Pie
    <3> HIDE DEF Pie
    <3> QED BY <1>3 DEF ShowPie, Nothing
  <2> QED BY <2>1, PieAddsUp DEF Adds
<1>4. ASSUME ShowHeatmap PROVE Adds
  BY <1>1, <1>4 DEF ShowHeatmap, Nothing
<1>5. ASSUME CountAll PROVE Adds
  BY <1>1, <1>5 DEF CountAll, Nothing
<1>6. ASSUME ShowGauge PROVE Adds
  <2>1. DOMAIN shown = DOMAIN Nothing
    BY DEF WidgetInv
  <2>2. shown'.widget = "gauge"
    BY <1>6, <2>1 DEF ShowGauge, Nothing
  <2> QED BY <1>1, <2>2
<1>7. ASSUME NEW u \in Owners, Create(u) PROVE shown' = shown
  BY <1>7 DEF Create, CreateDashboard, CreateNotebook, CreateMonitor, CreateMetricRule,
     CreateIntegration, CreateDeployment, CreateSlo, CreateSavedQuery, CreateDocument
<1>8. ASSUME NEW d \in docs, NEW u \in Owners, Delete(d, u) PROVE shown' = shown
  BY <1>8 DEF Delete, DeleteDashboard, DeleteNotebook, DeleteMonitor, DeleteMetricRule,
     DeleteIntegration, DeleteSlo, DeleteSavedQuery, DeleteDocument
<1>9. ASSUME NEW x, NEW d, NEW u, NEW sets, BeginUpdate(x, d, u, sets) PROVE shown' = shown
  BY <1>9 DEF BeginUpdate
<1>10. ASSUME NEW x \in Edits, CommitUpdate(x) PROVE shown' = shown
  BY <1>10 DEF CommitUpdate
<1>11. ASSUME LaterDay PROVE shown' = shown
  BY <1>11 DEF LaterDay
<1>12. ASSUME NEW score \in 0 .. MaxScore, OpenOne(score) PROVE shown' = shown
  BY <1>12 DEF OpenOne
<1>13. ASSUME NEW i \in incidents, ResolveOne(i) PROVE shown' = shown
  BY <1>13 DEF ResolveOne
<1>14. ASSUME UNCHANGED docVars PROVE shown' = shown
  BY <1>14 DEF docVars
<1>15. ASSUME ShowSeries({}) PROVE Adds
  BY <1>2, <1>15
<1>16. ASSUME NEW since \in 0 .. now_, ShowSeries({since}) PROVE Adds
  BY <1>2, <1>16
<1> QED BY <1>3, <1>4, <1>5, <1>6, <1>7, <1>8, <1>9, <1>10, <1>11, <1>12, <1>13, <1>14, <1>15, <1>16
        DEF DocNext, UpdateDashboard, UpdateNotebook, UpdateMonitor, MuteMonitor

\* However many days back a series starts and however many it may show, it counts every
\* incident in its reach once, and the pie every incident (dashboards.py).
THEOREM WidgetsAddAllUp == DocSpec => WidgetsCountEach
<1>1. WidgetInv /\ [DocNext]_docVars
        => [shown' # shown =>
             /\ shown'.widget = "series" =>
                  SumFunctionOnSet(shown'.series, DOMAIN shown'.series)
                    = Cardinality({i \in incidents : i.at >= shown'.since /\ Day(i.at) > Day(now_) - MaxDays})
             /\ shown'.widget = "pie" =>
                  SumFunctionOnSet(shown'.slices, DOMAIN Bands) = Cardinality(incidents)]_docVars
  BY WidgetsAddUp DEF Adds
<1> QED BY <1>1, WidgetInvInit, WidgetInvStep, PTL DEF DocSpec, WidgetsCountEach
=============================================================================

-------------------------------- MODULE LogQuery --------------------------------
(***************************************************************************)
(* The log search: the query language of src/denoiser/query/parser.py and  *)
(* its two readers, the SQL of src/denoiser/storage/clickhouse_store.py    *)
(* and src/denoiser/api/query.py, and the scan of the log files that       *)
(* api/query.py falls back to when ClickHouse is away.                     *)
(*                                                                         *)
(* A value is <<word, form>>: two forms of a word differ in case only.     *)
(* Lines carry a source and a level of their own; those that do not get    *)
(* different defaults from the two readers.  A token of the query is "AND",*)
(* "OR" or a term [field, value]; a field that is no identifier has been   *)
(* made a "text" term.  A definition X_Y is X with a plausible mistake Y;  *)
(* nothing uses it.                                                        *)
(***************************************************************************)
EXTENDS Naturals, Sequences, FiniteSets, SequencesExt

CONSTANTS
    Terms,        \* terms [field, value] of queries; field "text" for free text
    Lines,        \* lines [level, source, message, time, tenant]; time is [form, at],
                  \* its form "number", "iso" or "none", with the time of the insert
    LogFiles,     \* files of the data directory
    Reader,       \* tenant of the user who searches
    Interval,     \* interval of the histogram
    MaxTokens, MaxLines   \* bounds

ASSUME QueryAssumption ==
    /\ \A t \in Terms : t.field \in {"level", "source", "message", "text"}
    /\ IsFiniteSet(LogFiles) /\ MaxLines \in Nat

VARIABLES
    query,        \* the tokens
    files         \* files[f]: the lines of f
queryVars == <<query, files>>

Operators == {[field |-> "AND"], [field |-> "OR"]}
Everything == [field |-> "text", value |-> <<"", "">>]
-----------------------------------------------------------------------------
\* The left-associative tree, as its leaves with the operator before each.  A loop over
\* the tokens: a dangling operator ends it, of two operators the first is skipped, and
\* two terms side by side are joined by AND.
Join(op, leaf) == [op |-> op, leaf |-> leaf]
IsOp(t) == t \in Operators
TreeFrom(tokens) ==
    LET tree[i \in 1 .. Len(tokens) + 2] ==
            IF i > Len(tokens) THEN <<>>
            ELSE IF ~IsOp(tokens[i]) THEN <<Join("AND", tokens[i])>> \o tree[i + 1]
            ELSE IF i + 1 > Len(tokens) THEN <<>>
            ELSE IF IsOp(tokens[i + 1]) THEN tree[i + 1]
            ELSE <<Join(tokens[i].field, tokens[i + 1])>> \o tree[i + 2]
    IN tree
Parse(tokens) ==
    IF tokens = <<>> \/ IsOp(tokens[1])
    THEN <<Join("AND", Everything)>> \o TreeFrom(tokens)[1]
    ELSE <<Join("AND", tokens[1])>> \o TreeFrom(tokens)[2]

\* holding: the leaves that hold of a line.
LeavesOf(tree) == {tree[n].leaf : n \in DOMAIN tree}
Evaluate(tree, holding) ==
    FoldLeft(LAMBDA sofar, node : IF node.op = "AND" THEN sofar /\ node.leaf \in holding
                                  ELSE sofar \/ node.leaf \in holding,
             TRUE, tree)

\* Both compare free text with the whole line, without case.
HasWord(line, word) ==
    word = "" \/ \E f \in {"level", "source", "message"} : line[f][1] = word
MatchesInMemory(leaf, line) ==
    IF leaf.field = "text" THEN HasWord(line, leaf.value[1])
    ELSE line[leaf.field][1] = leaf.value[1]

\* The SQL: each leaf that is not empty names the parameter it has added.
ParameterId_First(params, leaf) == 1
ParameterId(params, leaf) == Len(params) + 1
Clause(params, leaf) ==
    IF leaf = Everything THEN Everything
    ELSE [field |-> leaf.field, id |-> ParameterId(params, leaf)]
AddClause(sql, node) ==
    [where |-> Append(sql.where, Join(node.op, Clause(sql.params, node.leaf))),
     params |-> IF node.leaf = Everything THEN sql.params
                ELSE Append(sql.params, node.leaf.value)]
Compile(tree) == FoldLeft(AddClause, [where |-> <<>>, params |-> <<>>], tree)
MatchesInSql(clause, params, line) ==
    IF clause = Everything THEN TRUE
    ELSE IF clause.field = "text" THEN HasWord(line, params[clause.id][1])
    ELSE line[clause.field] = params[clause.id]
-----------------------------------------------------------------------------
\* A window [from, to], 0 for an end that is not given.  ClickHouse has a time for every
\* line, whatever its form.
Within(t, w) == (w.from = 0 \/ t >= w.from) /\ (w.to = 0 \/ t <= w.to)
Positions == {p \in LogFiles \X (1 .. MaxLines) : p[2] <= Len(files[p[1]])}
Has(p, form) == files[p[1]][p[2]].time.form = form
SqlSearch(w) ==
    LET sql == Compile(Parse(query)) IN
    {p \in Positions :
        LET line == files[p[1]][p[2]] IN
        /\ line.tenant = Reader
        /\ Within(line.time.at, w)
        /\ Evaluate(sql.where, {c \in LeavesOf(sql.where) : MatchesInSql(c, sql.params, line)})}

\* The scan.  With a window, an ISO time raises and the rest of the file is not read;
\* lines without a time are inside every window.
Broken(f, w) ==
    {n \in 1 .. Len(files[f]) : Has(<<f, n>>, "iso") /\ (w.from # 0 \/ w.to # 0)}
BelongsTo(line) == line.tenant = Reader
Scanned(w) ==
    {p \in Positions :
        LET line == files[p[1]][p[2]] IN
        /\ \A n \in Broken(p[1], w) : n > p[2]
        /\ Has(p, "number") => Within(line.time.at, w)
        /\ BelongsTo(line)}
\* What was scanned is sorted by time: strings and numbers do not compare, the request
\* ends in an error.
Unsortable(w) ==
    \E p, q \in Scanned(w) : Has(p, "iso") /\ ~Has(q, "iso")
FileSearch(w) ==
    LET tree == Parse(query) IN
    {p \in Scanned(w) :
        Evaluate(tree, {l \in LeavesOf(tree) : MatchesInMemory(l, files[p[1]][p[2]])})}

\* The histogram: the scan counts lines per bucket, ClickHouse counts per bucket and
\* level, and the rows of a bucket are then added up.
Bucket(t) == (t \div Interval) * Interval
TimeOf(p) == files[p[1]][p[2]].time.at
Buckets(S) == {Bucket(TimeOf(p)) : p \in S}
FileHistogram(S) ==
    [b \in Buckets(S) |-> Cardinality({p \in S : Bucket(TimeOf(p)) = b})]
AddRows(rows, b) ==
    SumFunctionOnSet([r \in rows |-> r.count], {r \in rows : r.bucket = b})
SqlHistogram(S) ==
    LET rows == {[bucket |-> b, level |-> l,
                  count |-> Cardinality({p \in S : Bucket(TimeOf(p)) = b
                                                   /\ files[p[1]][p[2]].level = l})] :
                    b \in Buckets(S), l \in {files[p[1]][p[2]].level : p \in S}} IN
    [b \in Buckets(S) |-> AddRows({r \in rows : r.count > 0}, b)]
-----------------------------------------------------------------------------
QueryInit == query = <<>> /\ files = [f \in LogFiles |-> <<>>]

WriteLine(f, line) ==
    /\ query = <<>>
    /\ FoldFunction(LAMBDA s, n : Len(s) + n, 0, files) < MaxLines
    /\ files' = [files EXCEPT ![f] = Append(@, line)]
    /\ UNCHANGED query
TypeToken(t) ==
    /\ Len(query) < MaxTokens /\ query' = Append(query, t) /\ UNCHANGED files
QueryNext ==
    \/ \E f \in LogFiles, l \in Lines : WriteLine(f, l)
    \/ \E t \in Terms \cup Operators : TypeToken(t)

QuerySpec == QueryInit /\ [][QueryNext]_queryVars

Windows == {[from |-> a, to |-> b] : a, b \in {0, 2}}
-----------------------------------------------------------------------------
\* The terms that were typed, without the operators.
AddTerm(terms, t) == IF IsOp(t) THEN terms ELSE Append(terms, t)
TermsOf(tokens) == FoldLeft(AddTerm, <<>>, tokens)

\* No term of a query is dropped, in whatever order terms and operators are typed: the
\* tree has the terms, in their order, which the parser once failed at (parser.py 71-74).
NoTermDropped ==
    LET leaves == [i \in 1 .. Len(Parse(query)) |-> Parse(query)[i].leaf] IN
    leaves \in {TermsOf(query), <<Everything>> \o TermsOf(query)}

\* While the times are numbers the files find all that ClickHouse finds, in every window.
\* An ISO time costs at most the rest of its own file, or the request when it stands
\* beside a number.
FallbackFindsWhatSqlFinds ==
    \A w \in Windows : ~Unsortable(w) =>
        \A p \in SqlSearch(w) :
            (\A n \in 1 .. p[2] : ~Has(<<p[1], n>>, "iso")) => p \in FileSearch(w)

\* A line of another tenant, or of none, is never found, by either reader, whatever the
\* operators of the query: the condition on the tenant is outside its parentheses.
OwnLinesOnly ==
    \A w \in Windows : \A p \in SqlSearch(w) \cup FileSearch(w) : files[p[1]][p[2]].tenant = Reader

\* The two histograms of the same lines are equal.
HistogramsAgree ==
    \A w \in Windows :
        LET timed == {p \in FileSearch(w) : Has(p, "number")} IN
        FileHistogram(timed) = SqlHistogram(timed)

\* The two readers of the logs answer a query alike: the four together.
SearchesAgree ==
    NoTermDropped /\ FallbackFindsWhatSqlFinds /\ OwnLinesOnly /\ HistogramsAgree
=============================================================================

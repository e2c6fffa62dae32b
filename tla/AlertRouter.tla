----------------------------- MODULE AlertRouter -----------------------------
(***************************************************************************)
(* The registry of alert destinations and the dispatch of alerts to them:  *)
(* src/denoiser/integrations/alert_router.py, and the /webhooks endpoints  *)
(* of src/denoiser/api/main.py that change the registry while alerts are   *)
(* on their way.                                                           *)
(*                                                                         *)
(* One router per process.  The endpoints that change the registry run in  *)
(* threads of a pool, a dispatch in an event loop: it scans the registry   *)
(* one destination at a time while they change it.  A delivery holds its   *)
(* configuration's URL, which never changes: the identifier is a hash of it.*)
(* A definition X_Y is X with a plausible mistake Y; nothing uses it.      *)
(***************************************************************************)
EXTENDS Naturals, FiniteSets, Sequences

CONSTANTS
    Hooks,         \* identifiers of destinations
    Calls,         \* calls of dispatch, and of the test endpoint
    MaxRetries,    \* AlertRouter.MAX_RETRIES
    MaxChanges     \* bound: changes of the registry and restarts

ASSUME RouterAssumption ==
    MaxRetries \in Nat \ {0} /\ MaxChanges \in Nat /\ IsFiniteSet(Hooks)

VARIABLES
    registry,   \* registry[h]: configuration of h, or Unregistered
    call,       \* call[c]: state of a call
    job,        \* job[c][h]: state of call c's delivery to h
    deliveryLog,\* deliveryLog[c][h]: statuses recorded in _delivery_log
    accepted,   \* history: accepted[c][h] counts the POSTs the destination took
    unanswered, \* history: those of them whose answer was lost
    answered,   \* history: answered[c][h], a 2xx answer was received
    changes     \* changes of the registry, and restarts, so far

routerVars ==
    <<registry, call, job, deliveryLog, accepted, unanswered, answered, changes>>

Ranks == 0 .. 3            \* P0 .. P3; the lower the more severe
Unregistered == [min |-> 0, enabled |-> FALSE, known |-> FALSE]
Config == {Unregistered} \cup [min : Ranks, enabled : BOOLEAN, known : {TRUE}]
Registered == {h \in Hooks : registry[h].known}
NoJob == [phase |-> "none", attempt |-> 0]
NoCall == [phase |-> "idle", rank |-> 0, unseen |-> {}, size |-> 0]

\* _should_route: at least as severe as the destination asks for.
ShouldRoute(rank, min) == rank <= min

RouterInit ==
    /\ registry = [h \in Hooks |-> Unregistered]
    /\ call = [c \in Calls |-> NoCall]
    /\ job = [c \in Calls |-> [h \in Hooks |-> NoJob]]
    /\ deliveryLog = [c \in Calls |-> [h \in Hooks |-> <<>>]]
    /\ accepted = [c \in Calls |-> [h \in Hooks |-> 0]]
    /\ unanswered = [c \in Calls |-> [h \in Hooks |-> 0]]
    /\ answered = [c \in Calls |-> [h \in Hooks |-> FALSE]]
    /\ changes = 0

historyVars == <<accepted, unanswered, answered>>
flightVars == <<call, job, deliveryLog, historyVars>>
Change == changes < MaxChanges /\ changes' = changes + 1

-----------------------------------------------------------------------------
\* POST /webhooks: adds the destination, or replaces the one of this name and URL.
CreateWebhook(h, min, enabled) ==
    /\ Change
    /\ registry' = [registry EXCEPT ![h] =
                      [min |-> min, enabled |-> enabled, known |-> TRUE]]
    /\ UNCHANGED flightVars

\* PUT /webhooks/{id}: the configuration object is changed in place.
UpdateWebhook(h, min, enabled) ==
    /\ Change /\ registry[h].known
    /\ registry' = [registry EXCEPT ![h].min = min, ![h].enabled = enabled]
    /\ UNCHANGED flightVars

DeleteWebhook(h) ==
    /\ Change /\ registry[h].known
    /\ registry' = [registry EXCEPT ![h] = Unregistered]
    /\ UNCHANGED flightVars

\* The process ends: registry, log and deliveries are only in its memory.
Restart ==
    /\ Change
    /\ registry' = [h \in Hooks |-> Unregistered]
    /\ call' = [c \in Calls |-> NoCall]
    /\ job' = [c \in Calls |-> [h \in Hooks |-> NoJob]]
    /\ deliveryLog' = [c \in Calls |-> [h \in Hooks |-> <<>>]]
    /\ accepted' = [c \in Calls |-> [h \in Hooks |-> 0]]
    /\ unanswered' = [c \in Calls |-> [h \in Hooks |-> 0]]
    /\ answered' = [c \in Calls |-> [h \in Hooks |-> FALSE]]

-----------------------------------------------------------------------------
Dispatch(c, rank) ==
    /\ call[c].phase = "idle"
    /\ call' = [call EXCEPT ![c] = [phase |-> "scanning", rank |-> rank,
                                    unseen |-> Registered,
                                    size |-> Cardinality(Registered)]]
    /\ UNCHANGED <<registry, job, deliveryLog, historyVars, changes>>

\* Python's dictionary iterator refuses to go on when the size has changed.
SizeChanged(c) == Cardinality(Registered) # call[c].size

\* One destination of the loop: disabled, below its threshold, or a coroutine,
\* which posts nothing before asyncio.gather starts it.
ScanOne(c, h) ==
    /\ call[c].phase = "scanning" /\ ~SizeChanged(c)
    /\ h \in call[c].unseen \cap Registered
    /\ call' = [call EXCEPT ![c].unseen = @ \ {h}]
    /\ LET routed == ShouldRoute(call[c].rank, registry[h].min) IN
       /\ job' = IF registry[h].enabled /\ routed
                 THEN [job EXCEPT ![c][h].phase = "created"] ELSE job
       /\ deliveryLog' = IF registry[h].enabled /\ ~routed
                         THEN [deliveryLog EXCEPT ![c][h] = Append(@, "skipped")]
                         ELSE deliveryLog
    /\ UNCHANGED <<registry, historyVars, changes>>

\* The loop raises: the coroutines created so far never start.
AbortScan(c) ==
    /\ call[c].phase = "scanning" /\ SizeChanged(c)
    /\ call' = [call EXCEPT ![c].phase = "raised"]
    /\ UNCHANGED <<registry, job, deliveryLog, historyVars, changes>>

Gather(c) ==
    /\ call[c].phase = "scanning" /\ ~SizeChanged(c)
    /\ call[c].unseen \cap Registered = {}
    /\ call' = [call EXCEPT ![c].phase = "delivering"]
    /\ job' = [job EXCEPT ![c] =
                [h \in Hooks |-> IF @[h].phase = "created"
                                 THEN [phase |-> "trying", attempt |-> 0] ELSE @[h]]]
    /\ UNCHANGED <<registry, deliveryLog, historyVars, changes>>

\* POST /webhooks/{id}/test: one P1 delivery, whatever min_priority and enabled say.
TestWebhook(c, h) ==
    /\ call[c].phase = "idle" /\ registry[h].known
    /\ call' = [call EXCEPT ![c] = [NoCall EXCEPT !.phase = "delivering", !.rank = 1]]
    /\ job' = [job EXCEPT ![c][h].phase = "trying"]
    /\ UNCHANGED <<registry, deliveryLog, historyVars, changes>>

\* What a POST can come to: answered with 2xx; answered with anything else; an
\* exception, before or after the destination took the alert.
Outcomes == {"ok", "refused", "down", "lost"}

IsLastAttempt(n) == n = MaxRetries - 1

\* The status of the record an attempt ends with, or "" when it is retried.
StatusAfter_TrustLost(outcome, n) ==
    IF outcome \in {"ok", "lost"} THEN "delivered" ELSE IF IsLastAttempt(n) THEN "failed" ELSE ""
StatusAfter_Retry2xx(outcome, n) ==
    IF IsLastAttempt(n) THEN (IF outcome = "ok" THEN "delivered" ELSE "failed") ELSE ""
StatusAfter(outcome, n) ==
    IF outcome = "ok" THEN "delivered" ELSE IF IsLastAttempt(n) THEN "failed" ELSE ""

Attempt(c, h, outcome) ==
    /\ job[c][h].phase = "trying"
    /\ accepted' = [accepted EXCEPT ![c][h] = @ + (IF outcome \in {"ok", "lost"} THEN 1 ELSE 0)]
    /\ unanswered' = [unanswered EXCEPT ![c][h] = @ + (IF outcome = "lost" THEN 1 ELSE 0)]
    /\ answered' = [answered EXCEPT ![c][h] = @ \/ outcome = "ok"]
    /\ LET status == StatusAfter(outcome, job[c][h].attempt) IN
       IF status = ""
       THEN /\ job' = [job EXCEPT ![c][h].attempt = @ + 1]
            /\ UNCHANGED deliveryLog
       ELSE /\ job' = [job EXCEPT ![c][h].phase = "done"]
            /\ deliveryLog' = [deliveryLog EXCEPT ![c][h] = Append(@, status)]
    /\ UNCHANGED <<registry, call, changes>>

Return_AllDelivered(c) ==
    /\ call[c].phase = "delivering"
    /\ \A h \in Hooks : job[c][h].phase = "none" \/ answered[c][h]
    /\ call' = [call EXCEPT ![c].phase = "returned"]
    /\ UNCHANGED <<registry, job, deliveryLog, historyVars, changes>>
\* gather returns the records of all its coroutines, in one list.
Return(c) ==
    /\ call[c].phase = "delivering"
    /\ \A h \in Hooks : job[c][h].phase # "trying"
    /\ call' = [call EXCEPT ![c].phase = "returned"]
    /\ UNCHANGED <<registry, job, deliveryLog, historyVars, changes>>

RouterStep ==
    \/ \E c \in Calls : AbortScan(c) \/ Gather(c) \/ Return(c)
    \/ \E c \in Calls, h \in Hooks :
         ScanOne(c, h) \/ \E o \in Outcomes : Attempt(c, h, o)
RouterNext ==
    \/ \E h \in Hooks, min \in Ranks, on \in BOOLEAN :
         CreateWebhook(h, min, on) \/ UpdateWebhook(h, min, on)
    \/ \E h \in Hooks : DeleteWebhook(h)
    \/ Restart
    \/ \E c \in Calls, rank \in Ranks : Dispatch(c, rank)
    \/ \E c \in Calls, h \in Hooks : TestWebhook(c, h)
    \/ RouterStep

RouterSpec == RouterInit /\ [][RouterNext]_routerVars

\* A call's own thread or event loop runs on, and a POST ends within 10 seconds.
CallStep(c) ==
    \/ AbortScan(c) \/ Gather(c) \/ Return(c)
    \/ \E h \in Hooks : ScanOne(c, h) \/ \E o \in Outcomes : Attempt(c, h, o)
RouterFairness == \A c \in Calls : WF_routerVars(CallStep(c))
-----------------------------------------------------------------------------
CallState == [phase : {"idle", "scanning", "raised", "delivering", "returned"},
              rank : Ranks, unseen : SUBSET Hooks, size : 0 .. Cardinality(Hooks)]
JobState == [phase : {"none", "created", "trying", "done"}, attempt : 0 .. MaxRetries - 1]
RouterTypeOK ==
    /\ registry \in [Hooks -> Config]
    /\ call \in [Calls -> CallState]
    /\ job \in [Calls -> [Hooks -> JobState]]
    /\ deliveryLog \in [Calls -> [Hooks -> Seq({"skipped", "delivered", "failed"})]]
    /\ accepted \in [Calls -> [Hooks -> Nat]]
    /\ unanswered \in [Calls -> [Hooks -> Nat]]
    /\ answered \in [Calls -> [Hooks -> BOOLEAN]]
    /\ changes \in 0 .. MaxChanges

\* The delivery log is the audit trail of an alert ("Audit trail for a single
\* alert dispatch attempt", alert_router.py 86): whatever happens to the registry
\* meanwhile, a call leaves at most one record for a destination, "delivered"
\* exactly when a 2xx answer came back, "skipped" only when nothing was posted,
\* and one for every delivery it started once it has returned.
OneTruthfulRecord ==
    \A c \in Calls, h \in Hooks :
        LET log == deliveryLog[c][h] IN
        /\ Len(log) <= 1
        /\ answered[c][h] <=> log = <<"delivered">>
        /\ log = <<"skipped">> => accepted[c][h] = 0
        /\ call[c].phase = "returned" /\ job[c][h].phase # "none" => Len(log) = 1

\* A destination takes one alert more than once only when the answer to an
\* earlier POST was lost, the retry of 366-369 being unable to tell: the number it
\* took is the number of lost answers, and one more if one was heard.
DuplicatesOnlyFromLostAnswers ==
    \A c \in Calls, h \in Hooks :
        /\ accepted[c][h] = unanswered[c][h] + (IF answered[c][h] THEN 1 ELSE 0)
        /\ unanswered[c][h] <= MaxRetries

\* A destination that never answers, or always refuses, delays the other
\* destinations' records (gather returns them together) but not for ever.
DispatchEnds ==
    \A c \in Calls :
        call[c].phase \in {"scanning", "delivering"}
          ~> call[c].phase \in {"idle", "raised", "returned"}
=============================================================================

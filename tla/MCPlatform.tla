------------------------------ MODULE MCPlatform ------------------------------
(* A small instance of the platform around the pipeline for TLC: the ingestion*)
(* endpoints, the rate limiter, the metering, the operators and what they     *)
(* keep.  They share no state: a behaviour is one of a single part.           *)
EXTENDS IngestGateway, RateLimiter, UsageMeter, AccessControl, TenantDocuments, TLC

CONSTANTS a1, b1, b2, p1, ta, tb, e1

MCDirOf == a1 :> "data"
MCTenants == <<ta, tb>>
MCTier == ta :> "enterprise" @@ tb :> "pro"
MCIncidentRows == {[tenant |-> 1, env |-> "prod", pii |-> TRUE]}
MCBands == <<3, 2, 0>>

\* Requests, workers and edits are told apart by nothing but their names.
Symmetry == Permutations(Requests) \cup Permutations(Workers) \cup Permutations(Edits)

VARIABLE focus
platformVars == <<gatewayVars, rateVars, meterVars, accessVars, docVars, focus>>

Init ==
    /\ focus \in {"gateway", "limiter", "meter", "operators", "documents"}
    /\ GatewayInit /\ (focus # "gateway" => \A a \in Apis : producer[a])
    /\ RateInit /\ MeterInit
    /\ AccessInit
    /\ focus # "operators" =>
         database = "sqlite" /\ Cardinality(Live) = 2
    /\ DocInit /\ (focus # "documents" => now_ = 0)

Gateway == focus = "gateway" /\ UNCHANGED <<rateVars, meterVars, accessVars, docVars, focus>>
Limiter == focus = "limiter" /\ UNCHANGED <<gatewayVars, meterVars, accessVars, docVars, focus>>
Meter == focus = "meter" /\ UNCHANGED <<gatewayVars, rateVars, accessVars, docVars, focus>>
Operators == focus = "operators" /\ UNCHANGED <<gatewayVars, rateVars, meterVars, docVars, focus>>
Documents == focus = "documents" /\ UNCHANGED <<gatewayVars, rateVars, meterVars, accessVars, focus>>

Next ==
    \/ Gateway /\ GatewayNext
    \/ Limiter /\ RateNext
    \/ Meter /\ MeterNext
    \/ Operators /\ AccessNext
    \/ Documents /\ DocNext
Spec == Init /\ [][Next]_platformVars
===============================================================================

----------------------------- MODULE MCInsight -----------------------------
(* What is concluded from the flows of a job, and the services of the API that share
   no state with it: `part` says which of them runs, and never changes. *)
EXTENDS Trace, Detection, Alerting, GeoCache, Accounts, Providers

VARIABLE part

insightVars == <<jobFlows, detectionVars, alertVars, geoVars, accountVars, providerVars, part>>

ProviderOrder == <<"openai", "anthropic", "ollama">>

Parts == {"trace", "detection", "alerting", "geo", "accounts", "providers"}

\* Of a part that does not run, one initial state is enough.
Init ==
  /\ part \in Parts
  /\ TraceInit /\ DetectionInit /\ AlertInit /\ GeoInit /\ AccountsInit /\ ProvidersInit
  /\ part # "detection" => family = "voip"
  /\ part # "alerting" => \A r, s \in Testers : testing[r] = testing[s]
  /\ part # "providers" => keyed = {}

Next ==
  /\ UNCHANGED part
  /\ \/ part = "trace" /\ TraceNext
        /\ UNCHANGED <<detectionVars, alertVars, geoVars, accountVars, providerVars>>
     \/ part = "detection" /\ DetectionNext
        /\ UNCHANGED <<jobFlows, alertVars, geoVars, accountVars, providerVars>>
     \/ part = "alerting" /\ AlertNext
        /\ UNCHANGED <<jobFlows, detectionVars, geoVars, accountVars, providerVars>>
     \/ part = "geo" /\ GeoNext
        /\ UNCHANGED <<jobFlows, detectionVars, alertVars, accountVars, providerVars>>
     \/ part = "accounts" /\ AccountsNext
        /\ UNCHANGED <<jobFlows, detectionVars, alertVars, geoVars, providerVars>>
     \/ part = "providers" /\ ProvidersNext
        /\ UNCHANGED <<jobFlows, detectionVars, alertVars, geoVars, accountVars>>

Spec == Init /\ [][Next]_insightVars
==================================================

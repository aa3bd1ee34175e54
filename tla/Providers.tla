----------------------------- MODULE Providers -----------------------------
(* The two registries of language-model providers: plugin.AI               *)
(* (internal/plugin/ai_registry.go), which the plugin page shows, and      *)
(* ai.ProviderRegistry (internal/ai/config.go), which chat and analysis    *)
(* use.  Both are filled at start from the same environment; a request     *)
(* activates a provider in the first and then in the second, and the chat  *)
(* settings change the second alone.                                       *)
EXTENDS Naturals, Sequences, FiniteSets

CONSTANTS Order,       \* the providers the code knows, in its order
          Requests     \* activation requests

ASSUME ProvidersAssumption == Order \in Seq(STRING)

Unset == "unset"
Listed == {Order[i] : i \in DOMAIN Order}

VARIABLES keyed,         \* providers whose key is in the environment; never changes
          pluginActive,  \* AIRegistry.active
          chatActive,    \* ProviderRegistry.active
          activation,    \* per request: the name, and how far it is
          raced          \* history: chat settings changed, or activations overlapped

providerVars == <<keyed, pluginActive, chatActive, activation, raced>>

\* The first provider registered becomes active.
FirstOf(S) ==
    IF S = {} THEN Unset
    ELSE Order[CHOOSE i \in DOMAIN Order : Order[i] \in S /\ \A j \in 1..(i - 1) : Order[j] \notin S]

ProvidersInit ==
    /\ keyed \in SUBSET Listed
    /\ pluginActive = FirstOf(keyed) /\ chatActive = FirstOf(keyed)
    /\ activation = [r \in Requests |-> [name |-> Unset, at |-> "start"]] /\ raced = FALSE

Underway == {r \in Requests : activation[r].at = "half"}

Usable(name) == name \in keyed
Activate(r, name) ==
    /\ activation[r].at = "start"
    /\ IF Usable(name)
       THEN /\ pluginActive' = name
            /\ activation' = [activation EXCEPT ![r] = [name |-> name, at |-> "half"]]
            /\ raced' = (raced \/ Underway # {})
       ELSE /\ activation' = [activation EXCEPT ![r] = [name |-> name, at |-> "refused"]]
            /\ UNCHANGED <<pluginActive, raced>>
    /\ UNCHANGED <<keyed, chatActive>>

SetActiveNot(name) == chatActive
SetActive(name) == IF name \in keyed THEN name ELSE chatActive

\* The second half of ActivateAI.
ActivateChat(r) ==
    /\ activation[r].at = "half"
    /\ chatActive' = SetActive(activation[r].name)
    /\ activation' = [activation EXCEPT ![r].at = "done"]
    /\ UNCHANGED <<keyed, pluginActive, raced>>

\* The chat settings.
SetSettings(name) ==
    /\ chatActive' = SetActive(name) /\ chatActive' # chatActive /\ raced' = TRUE
    /\ UNCHANGED <<keyed, pluginActive, activation>>

ProvidersNext ==
    \/ \E r \in Requests, name \in Listed : Activate(r, name)
    \/ \E r \in Requests : ActivateChat(r)
    \/ \E name \in Listed : SetSettings(name)

ProvidersSpec == ProvidersInit /\ [][ProvidersNext]_providerVars

----------------------------------------------------------------------------

\* Both registries always have a provider selected that can answer, if any
\* has a key, and none otherwise, through refused and overlapping requests.
ActiveUsable ==
    \A a \in {pluginActive, chatActive} : IF keyed = {} THEN a = Unset ELSE a \in keyed

\* The page and the chat agree on the provider once every activation is over,
\* unless two overlapped or the chat settings were used.
RegistriesAgree == (Underway = {} /\ ~raced) => pluginActive = chatActive
============================================================================

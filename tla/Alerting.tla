------------------------------ MODULE Alerting ------------------------------
(* Alert notifications: the dispatcher (internal/alerting/dispatcher.go),  *)
(* the alert-target handlers (internal/web/handlers/alert_targets.go) and  *)
(* the table they share.  A job's alerts are handed to Dispatch in a       *)
(* goroutine of its own; Dispatch reads the targets once, picks for each   *)
(* enabled one the events of its severity and above, and sends them from   *)
(* one more goroutine per target.  Meanwhile requests create, change,      *)
(* delete and test the targets: a test enables the target, dispatches a    *)
(* warning to whoever is enabled, and writes back the record it had read.  *)
EXTENDS Naturals, FiniteSets

CONSTANTS Targets,      \* ids of alert targets
          Jobs,         \* dispatches of job alerts
          Testers,      \* requests that test a target
          MaxChanges    \* bound on the requests that change the table

ASSUME AlertingAssumption == MaxChanges \in Nat /\ Jobs \cap Testers = {}

Absent == [enabled |-> FALSE, min |-> "absent"]
Severities == {"info", "warning", "error", "critical"}
Records == [enabled : BOOLEAN, min : {"info", "warning", "critical"}]

VARIABLES table,     \* the stored targets
          events,    \* per dispatch, the severities of its events
          stage,     \* per dispatch: idle, queued, tried (all sends started); testers: read, armed
          held,      \* per tester, the record it read
          testing,   \* per tester, the target under test
          sending,   \* goroutines at work: <<dispatch, target>>
          outcome,   \* finished sends: <<dispatch, target, events>>
          changes,
          wanted,    \* what the last create, update or delete asked for
          steady,    \* per dispatch, the targets no request touched since it was queued
          calm       \* targets whose tests never overlapped a change or each other

alertVars == <<table, events, stage, held, testing, sending, outcome, changes, wanted, steady, calm>>
handlerVars == <<held, testing>>

severityLevel(s) == CASE s = "critical" -> 3 [] s = "warning" -> 2 [] OTHER -> 1

Meets(s, min) == severityLevel(s) >= severityLevel(min)

AlertInit ==
    /\ table = [t \in Targets |-> Absent] /\ wanted = table
    /\ events = [d \in Jobs \cup Testers |-> {}] /\ stage = [d \in Jobs \cup Testers |-> "idle"]
    /\ held = [r \in Testers |-> Absent] /\ testing \in [Testers -> Targets]
    /\ sending = {} /\ outcome = {} /\ changes = 0
    /\ steady = [d \in Jobs \cup Testers |-> Targets] /\ calm = Targets

\* A job has stored its events and starts Dispatch in a goroutine.
Queue(d, evs) ==
    /\ stage[d] = "idle"
    /\ stage' = [stage EXCEPT ![d] = "queued"] /\ events' = [events EXCEPT ![d] = evs]
    /\ steady' = [steady EXCEPT ![d] = Targets]
    /\ UNCHANGED <<table, handlerVars, sending, outcome, changes, wanted, calm>>

\* ListAlertTargets, the filter, and one goroutine for every match.
Start(d, evs) ==
    {<<d, t, {e \in evs : Meets(e, table[t].min)}>> : t \in {u \in Targets : table[u].enabled}}

Dispatch(d) ==
    /\ stage[d] = "queued"
    /\ stage' = [stage EXCEPT ![d] = "tried"]
    /\ sending' = sending \cup {s \in Start(d, events[d]) : s[3] # {}}
    /\ UNCHANGED <<table, events, handlerVars, outcome, changes, wanted, steady, calm>>

\* A goroutine ends: the message is out, or the error has been logged.
Finish(s) ==
    /\ s \in sending /\ sending' = sending \ {s} /\ outcome' = outcome \cup {s}
    /\ UNCHANGED <<table, events, stage, handlerVars, changes, wanted, steady, calm>>

Busy(t) == {r \in Testers : testing[r] = t /\ stage[r] \in {"read", "armed", "tried"}}

Unsteady(t) == [d \in Jobs \cup Testers |-> steady[d] \ {t}]

\* Create, Update and Delete requests.
Change(t, rec) ==
    /\ changes < MaxChanges /\ changes' = changes + 1
    /\ table' = [table EXCEPT ![t] = rec] /\ wanted' = [wanted EXCEPT ![t] = rec]
    /\ steady' = Unsteady(t)
    /\ calm' = IF Busy(t) = {} THEN calm ELSE calm \ {t}
    /\ UNCHANGED <<events, stage, handlerVars, sending, outcome>>

Create(t) == \E rec \in Records : table[t] = Absent /\ Change(t, rec)
Update(t) == \E rec \in Records : table[t] \notin {Absent, rec} /\ Change(t, rec)
Delete(t) == table[t] # Absent /\ Change(t, Absent)

\* Test reads the target, or answers 404.
TestRead(r) ==
    LET t == testing[r]
    IN  /\ stage[r] = "idle" /\ table[t] # Absent
        /\ held' = [held EXCEPT ![r] = table[t]]
        /\ stage' = [stage EXCEPT ![r] = "read"]
        /\ calm' = IF Busy(t) = {} THEN calm ELSE calm \ {t}
        /\ UNCHANGED <<table, events, testing, sending, outcome, changes, wanted, steady>>

\* UpdateAlertTarget changes no row when the target has been deleted.
Overwrite(t, rec) ==
    /\ table' = [table EXCEPT ![t] = IF @ = Absent THEN Absent ELSE rec]
    /\ steady' = Unsteady(t)

TestEnable(r) ==
    /\ stage[r] = "read" /\ stage' = [stage EXCEPT ![r] = "armed"]
    /\ Overwrite(testing[r], [held[r] EXCEPT !.enabled = TRUE])
    /\ UNCHANGED <<events, handlerVars, sending, outcome, changes, wanted, calm>>

TestDispatch(r) ==
    /\ stage[r] = "armed" /\ stage' = [stage EXCEPT ![r] = "tried"]
    /\ sending' = sending \cup {s \in Start(r, {"warning"}) : s[3] # {}}
    /\ UNCHANGED <<table, events, handlerVars, outcome, changes, wanted, steady, calm>>

\* The deferred write of the record as it was read.
RestoredNot(r) == [held[r] EXCEPT !.enabled = TRUE]
Restored(r) == held[r]
TestRestore(r) ==
    /\ stage[r] = "tried" /\ stage' = [stage EXCEPT ![r] = "done"]
    /\ Overwrite(testing[r], Restored(r))
    /\ UNCHANGED <<events, handlerVars, sending, outcome, changes, wanted, calm>>

AlertNext ==
    \/ \E d \in Jobs, evs \in SUBSET Severities : evs # {} /\ Queue(d, evs)
    \/ \E d \in Jobs : Dispatch(d)
    \/ \E s \in sending : Finish(s)
    \/ \E t \in Targets : Create(t) \/ Update(t) \/ Delete(t)
    \/ \E r \in Testers : TestRead(r) \/ TestEnable(r) \/ TestDispatch(r) \/ TestRestore(r)

AlertSpec == AlertInit /\ [][AlertNext]_alertVars

----------------------------------------------------------------------------

\* A test leaves no trace: once no test of a target is at work, its record is
\* the one the last request asked for, provided that no change of it and no
\* second test overlapped one (the deferred write would win over them).
TestLeavesNoTrace ==
    \A t \in calm : Busy(t) = {} => table[t] = wanted[t]

Handled(d, t, sev) == \E s \in sending \cup outcome : s[1] = d /\ s[2] = t /\ sev \in s[3]
Steadily(d, t) == stage[d] = "tried" /\ t \in steady[d] /\ table[t].enabled

\* Whatever a target's threshold, a critical event of a job is sent to it if
\* it is enabled all the time from the queueing to the dispatch and later.
CriticalReaches ==
    \A d \in Jobs, t \in Targets :
        Steadily(d, t) /\ "critical" \in events[d] => Handled(d, t, "critical")

\* One dispatch never sends twice to a target, though targets are changed,
\* deleted and tested while its goroutines run.
OneMessageEach ==
    \A s, u \in sending \cup outcome : s[1] = u[1] /\ s[2] = u[2] => s = u
============================================================================

--------------------------- MODULE ServicesProofs ---------------------------
(***************************************************************************)
(* Proofs about the notifications of alerts, the sign-in sessions and the  *)
(* limit on attempts, the cache of addresses, the selection of a           *)
(* language-model provider and the WebSocket hub, for any number of        *)
(* targets, dispatches, tests, tokens, clients, callers and requests, any  *)
(* table of providers and any capacity of the hub's channels.              *)
(***************************************************************************)
EXTENDS WellFoundedInduction, TLAPS, Alerting, GeoCache, Accounts, Providers, WSHub

(***************************************************************************)
(* Alerting.                                                               *)
(***************************************************************************)
Dispatches == Jobs \cup Testers
Stored == [enabled : BOOLEAN, min : {"info", "warning", "critical", "absent"}]

\* The types of the table, of the dispatches and of the tests.
AlertTypes ==
  /\ table \in [Targets -> Stored] /\ wanted \in [Targets -> Stored]
  /\ stage \in [Dispatches -> {"idle", "queued", "read", "armed", "tried", "done"}]
  /\ events \in [Dispatches -> SUBSET Severities]
  /\ steady \in [Dispatches -> SUBSET Targets] /\ calm \in SUBSET Targets
  /\ held \in [Testers -> Stored] /\ testing \in [Testers -> Targets]

LEMMA AbsentStored == Absent \in Stored
  BY Zenon DEF Stored, Absent

LEMMA AlertTypesInit == AlertInit => AlertTypes
  BY AbsentStored DEF AlertInit, AlertTypes, Dispatches

LEMMA AlertTypesStep == AlertTypes /\ [AlertNext]_alertVars => AlertTypes'
<1> SUFFICES ASSUME AlertTypes, [AlertNext]_alertVars PROVE AlertTypes'
  BY Zenon
<1> USE DEF AlertTypes, Dispatches, handlerVars
<1>1. ASSUME NEW d \in Jobs, NEW evs \in SUBSET Severities, Queue(d, evs) PROVE AlertTypes'
  BY <1>1, Zenon DEF Queue
<1>2. ASSUME NEW d \in Jobs, Dispatch(d) PROVE AlertTypes'
  BY <1>2, Zenon DEF Dispatch
<1>3. ASSUME NEW s \in sending, Finish(s) PROVE AlertTypes'
  BY <1>3, Zenon DEF Finish
<1>4. ASSUME NEW t \in Targets, NEW rec \in Stored, Change(t, rec) PROVE AlertTypes'
  BY <1>4, Zenon DEF Change, Unsteady
<1>5. ASSUME NEW t \in Targets, Create(t) \/ Update(t) \/ Delete(t) PROVE AlertTypes'
  BY <1>4, <1>5, Zenon DEF Create, Update, Delete, Stored, Records, Absent
<1>6. ASSUME NEW r \in Testers, TestRead(r) PROVE AlertTypes'
  BY <1>6, Zenon DEF TestRead
<1>7. ASSUME NEW r \in Testers, TestEnable(r) PROVE AlertTypes'
  <2>1. held[r] \in Stored /\ [held[r] EXCEPT !.enabled = TRUE] \in Stored
    BY Zenon DEF Stored
  <2> QED
    BY <1>7, <2>1, AbsentStored, Zenon DEF TestEnable, Overwrite, Unsteady
<1>8. ASSUME NEW r \in Testers, TestDispatch(r) PROVE AlertTypes'
  BY <1>8, Zenon DEF TestDispatch
<1>9. ASSUME NEW r \in Testers, TestRestore(r) PROVE AlertTypes'
  BY <1>9, AbsentStored, Zenon DEF TestRestore, Overwrite, Restored, Unsteady
<1>10. CASE UNCHANGED alertVars
  BY <1>10, Zenon DEF alertVars
<1> QED
  BY <1>1, <1>2, <1>3, <1>5, <1>6, <1>7, <1>8, <1>9, <1>10, Zenon DEF AlertNext

----------------------------------------------------------------------------
(* One message each. *)

\* What a dispatch sends, it has sent at once: nothing is on its way before.
SendInv ==
  /\ \A s \in sending \cup outcome : s[1] \in Dispatches /\ stage[s[1]] \in {"tried", "done"}
  /\ OneMessageEach

\* The goroutines of one dispatch: each is the dispatch's own, one for a target.
LEMMA StartOne ==
  ASSUME NEW d, NEW evs
  PROVE  /\ \A s \in Start(d, evs) : s[1] = d
         /\ \A s, u \in Start(d, evs) : s[2] = u[2] => s = u
<1> DEFINE pick(t) == {e \in evs : Meets(e, table[t].min)}
<1>1. \A s \in Start(d, evs) : \E t \in Targets : s = <<d, t, pick(t)>>
  BY Zenon DEF Start
<1> HIDE DEF pick
<1>2. \A s \in Start(d, evs) : s[1] = d /\ s = <<d, s[2], pick(s[2])>>
  BY <1>1
<1> QED
  BY <1>2, Zenon

\* A dispatch that starts its goroutines while it has none keeps the invariant.
LEMMA SendStart ==
  ASSUME NEW d \in Dispatches, NEW evs, AlertTypes, SendInv, stage[d] \notin {"tried", "done"},
         stage' = [stage EXCEPT ![d] = "tried"], outcome' = outcome,
         sending' = sending \cup {s \in Start(d, evs) : s[3] # {}}
  PROVE  SendInv'
<1> DEFINE old == sending \cup outcome
           new == {s \in Start(d, evs) : s[3] # {}}
<1>1. (sending \cup outcome)' = old \cup new
  BY Zenon
<1>2. \A s \in old : s[1] \in Dispatches /\ s[1] # d /\ stage'[s[1]] \in {"tried", "done"}
  BY Zenon DEF SendInv, AlertTypes
<1>3. \A s \in new : s[1] = d
  BY StartOne, Zenon
<1>4. stage'[d] = "tried"
  BY Zenon DEF AlertTypes
<1>5. \A s, u \in old : s[1] = u[1] /\ s[2] = u[2] => s = u
  BY Zenon DEF SendInv, OneMessageEach
<1>6. \A s, u \in new : s[2] = u[2] => s = u
  BY StartOne, Zenon
<1> HIDE DEF old, new
<1>7. \A s, u \in old \cup new : s[1] = u[1] /\ s[2] = u[2] => s = u
  BY <1>2, <1>3, <1>5, <1>6, Zenon
<1>8. \A s \in old \cup new : s[1] \in Dispatches /\ stage'[s[1]] \in {"tried", "done"}
  BY <1>2, <1>3, <1>4, Zenon
<1>9. (\A s \in sending \cup outcome : s[1] \in Dispatches /\ stage[s[1]] \in {"tried", "done"})'
  BY <1>1, <1>8, Zenon DEF Dispatches
<1> QED
  BY <1>1, <1>7, <1>9, Zenon DEF SendInv, OneMessageEach

\* A step that moves no dispatch back and starts nothing keeps it.
LEMMA SendKept ==
  ASSUME SendInv, (sending \cup outcome)' = sending \cup outcome,
         \A d \in Dispatches : stage[d] \in {"tried", "done"} => stage'[d] \in {"tried", "done"}
  PROVE  SendInv'
  BY Zenon DEF SendInv, OneMessageEach, Dispatches

LEMMA SendStep == AlertTypes /\ SendInv /\ [AlertNext]_alertVars => SendInv'
<1> SUFFICES ASSUME AlertTypes, SendInv, [AlertNext]_alertVars PROVE SendInv'
  BY Zenon
<1>1. ASSUME NEW d \in Jobs, NEW evs \in SUBSET Severities, Queue(d, evs) PROVE SendInv'
  BY <1>1, SendKept, Zenon DEF Queue, AlertTypes, Dispatches
<1>2. ASSUME NEW d \in Jobs, Dispatch(d) PROVE SendInv'
  BY <1>2, SendStart, Zenon DEF Dispatch, Dispatches
<1>3. ASSUME NEW s \in sending, Finish(s) PROVE SendInv'
  BY <1>3, SendKept, Zenon DEF Finish
<1>4. ASSUME NEW t \in Targets, Create(t) \/ Update(t) \/ Delete(t) PROVE SendInv'
  BY <1>4, SendKept, Zenon DEF Create, Update, Delete, Change
<1>5. ASSUME NEW r \in Testers, TestRead(r) \/ TestEnable(r) PROVE SendInv'
  BY <1>5, SendKept, Zenon DEF TestRead, TestEnable, AlertTypes, Dispatches
<1>6. ASSUME NEW r \in Testers, TestDispatch(r) PROVE SendInv'
  BY <1>6, SendStart, Zenon DEF TestDispatch, Dispatches
<1>7. ASSUME NEW r \in Testers, TestRestore(r) PROVE SendInv'
  BY <1>7, SendKept, Zenon DEF TestRestore, AlertTypes, Dispatches
<1>8. CASE UNCHANGED alertVars
  BY <1>8, SendKept, Zenon DEF alertVars
<1> QED
  BY <1>1, <1>2, <1>3, <1>4, <1>5, <1>6, <1>7, <1>8, Zenon DEF AlertNext

\* One Dispatch never sends twice to a target, however requests that change,
\* delete and test the targets interleave with its goroutines.
THEOREM DispatchSendsOnce == AlertSpec => []OneMessageEach
<1>1. AlertInit => SendInv
  BY Zenon DEF AlertInit, SendInv, OneMessageEach
<1>2. SendInv => OneMessageEach
  BY Zenon DEF SendInv
<1> QED
  BY <1>1, <1>2, AlertTypesInit, AlertTypesStep, SendStep, PTL DEF AlertSpec

----------------------------------------------------------------------------
(* A test leaves no trace. *)

\* A target whose tests overlapped nothing has at most one test at work, which
\* holds the record that the last request asked for.
TestInv ==
  \A t \in calm :
    /\ Busy(t) = {} => table[t] = wanted[t]
    /\ \A r \in Busy(t) : held[r] = wanted[t] /\ table[t] # Absent /\ wanted[t] # Absent
    /\ \A r, u \in Busy(t) : r = u

\* A step that leaves the records and the tests at work alone.
LEMMA TestKept ==
  ASSUME TestInv, \A t : Busy(t)' = Busy(t),
         UNCHANGED <<table, wanted, held, calm>>
  PROVE  TestInv'
  BY Zenon DEF TestInv

\* Create, Update and Delete.
LEMMA TestChange ==
  ASSUME AlertTypes, TestInv, NEW t \in Targets, NEW rec, Change(t, rec)
  PROVE  TestInv'
<1>1. \A u : Busy(u)' = Busy(u)
  BY Zenon DEF Change, handlerVars, Busy
<1>2. held' = held /\ calm' \subseteq calm /\ table'[t] = rec /\ wanted'[t] = rec
  BY Zenon DEF Change, handlerVars, AlertTypes
<1>3. \A u \in calm' : u # t => table'[u] = table[u] /\ wanted'[u] = wanted[u]
  BY Zenon DEF Change, AlertTypes
<1>4. t \in calm' => Busy(t) = {}
  BY Zenon DEF Change
<1> SUFFICES ASSUME NEW u \in calm'
             PROVE  /\ Busy(u)' = {} => table'[u] = wanted'[u]
                    /\ \A r \in Busy(u)' : held'[r] = wanted'[u] /\ table'[u] # Absent /\ wanted'[u] # Absent
                    /\ \A r, v \in Busy(u)' : r = v
  BY Zenon DEF TestInv
<1>5. CASE u = t
  BY <1>1, <1>2, <1>4, <1>5, Zenon
<1>6. CASE u # t
  BY <1>1, <1>2, <1>3, <1>6, Zenon DEF TestInv
<1> QED
  BY <1>5, <1>6, Zenon

\* The read of a test.
LEMMA TestReads ==
  ASSUME AlertTypes, TestInv, NEW r \in Testers, TestRead(r)
  PROVE  TestInv'
<1>0. PICK t \in Targets : t = testing[r]
  BY Zenon DEF AlertTypes
<1>1. t \in Targets /\ r \in Dispatches /\ stage[r] = "idle" /\ stage'[r] = "read"
  BY Zenon DEF TestRead, AlertTypes, Dispatches
<1>2. \A u \in Testers : u # r => stage'[u] = stage[u] /\ held'[u] = held[u]
  BY Zenon DEF TestRead, AlertTypes, Dispatches
<1>3. held'[r] = table[t] /\ table[t] # Absent /\ testing' = testing /\ table' = table /\ wanted' = wanted
  BY <1>0, Zenon DEF TestRead, AlertTypes
<1>4. Busy(t)' = Busy(t) \cup {r} /\ r \notin Busy(t)
  BY <1>0, <1>1, <1>2, <1>3, Zenon DEF Busy
<1>5. \A u : u # t => Busy(u)' = Busy(u) /\ r \notin Busy(u)
  BY <1>0, <1>1, <1>2, <1>3, Zenon DEF Busy
<1>6. calm' \subseteq calm /\ (t \in calm' => Busy(t) = {})
  BY <1>0, Zenon DEF TestRead
<1>7. \A u : Busy(u) \subseteq Testers
  BY Zenon DEF Busy
<1> SUFFICES ASSUME NEW u \in calm'
             PROVE  /\ Busy(u)' = {} => table'[u] = wanted'[u]
                    /\ \A q \in Busy(u)' : held'[q] = wanted'[u] /\ table'[u] # Absent /\ wanted'[u] # Absent
                    /\ \A q, v \in Busy(u)' : q = v
  BY Zenon DEF TestInv
<1>8. CASE u = t
  <2>1. t \in calm /\ Busy(t) = {}
    BY <1>6, <1>8, Zenon
  <2>2. table[t] = wanted[t]
    BY <2>1, Zenon DEF TestInv
  <2>3. Busy(t)' = {r}
    BY <1>4, <2>1, Zenon
  <2> QED
    BY <1>3, <1>8, <2>2, <2>3, Zenon
<1>9. CASE u # t
  BY <1>2, <1>3, <1>5, <1>6, <1>7, <1>9 DEF TestInv
<1> QED
  BY <1>8, <1>9, Zenon

\* UpdateAlertTarget by a test: with stage[r] as given before and after, so that the
\* test is at work before, and after exactly if `still`.
LEMMA TestWrites ==
  ASSUME AlertTypes, TestInv, NEW r \in Testers, NEW rec, NEW still \in BOOLEAN,
         stage[r] \in {"read", "armed", "tried"},
         NEW next, stage' = [stage EXCEPT ![r] = next],
         still => next \in {"read", "armed", "tried"} /\ rec # Absent,
         ~still => next = "done" /\ rec = held[r],
         Overwrite(testing[r], rec), UNCHANGED <<testing, held, wanted, calm>>
  PROVE  TestInv'
<1>0. PICK t \in Targets : t = testing[r]
  BY Zenon DEF AlertTypes
<1>1. t \in Targets /\ r \in Busy(t) /\ stage'[r] = next
  BY <1>0, Zenon DEF Busy, AlertTypes, Dispatches
<1>2. \A u \in Testers : u # r => stage'[u] = stage[u]
  BY Zenon DEF AlertTypes, Dispatches
<1>3. \A u : u # t => Busy(u)' = Busy(u)
  BY <1>0, <1>1, <1>2, Zenon DEF Busy
<1>4. Busy(t)' = IF still THEN Busy(t) ELSE Busy(t) \ {r}
  BY <1>0, <1>1, <1>2, Zenon DEF Busy
<1>5. \A u \in calm : u # t => table'[u] = table[u]
  BY <1>0, Zenon DEF Overwrite, AlertTypes
<1>6. table[t] # Absent => table'[t] = rec
  BY <1>0, <1>1, Zenon DEF Overwrite, AlertTypes
<1> SUFFICES ASSUME NEW u \in calm
             PROVE  /\ Busy(u)' = {} => table'[u] = wanted[u]
                    /\ \A q \in Busy(u)' : held[q] = wanted[u] /\ table'[u] # Absent /\ wanted[u] # Absent
                    /\ \A q, v \in Busy(u)' : q = v
  BY Zenon DEF TestInv
<1>7. CASE u = t
  <2>1. held[r] = wanted[t] /\ table'[t] = rec /\ wanted[t] # Absent
    BY <1>1, <1>6, <1>7, Zenon DEF TestInv
  <2>2. Busy(t) = {r}
    BY <1>1, <1>7, Zenon DEF TestInv
  <2>3. CASE still
    BY <1>4, <1>7, <2>1, <2>2, <2>3
  <2>4. CASE ~still
    BY <1>4, <1>7, <2>1, <2>2, <2>4, Zenon
  <2> QED
    BY <2>3, <2>4, Zenon
<1>8. CASE u # t
  BY <1>3, <1>5, <1>8, Zenon DEF TestInv
<1> QED
  BY <1>7, <1>8, Zenon

LEMMA TestStep == AlertTypes /\ TestInv /\ [AlertNext]_alertVars => TestInv'
<1> SUFFICES ASSUME AlertTypes, TestInv, [AlertNext]_alertVars PROVE TestInv'
  BY Zenon
<1>1. ASSUME NEW d \in Jobs, NEW evs \in SUBSET Severities, Queue(d, evs) PROVE TestInv'
  <2>1. \A r \in Testers : stage'[r] = stage[r]
    BY <1>1, AlertingAssumption, Zenon DEF Queue, AlertTypes, Dispatches
  <2>2. \A t : Busy(t)' = Busy(t)
    BY <1>1, <2>1, Zenon DEF Queue, Busy, handlerVars
  <2> QED
    BY <1>1, <2>2, TestKept, Zenon DEF Queue, handlerVars
<1>2. ASSUME NEW d \in Jobs, Dispatch(d) PROVE TestInv'
  <2>1. \A r \in Testers : stage'[r] = stage[r]
    BY <1>2, AlertingAssumption, Zenon DEF Dispatch, AlertTypes, Dispatches
  <2>2. \A t : Busy(t)' = Busy(t)
    BY <1>2, <2>1, Zenon DEF Dispatch, Busy, handlerVars
  <2> QED
    BY <1>2, <2>2, TestKept, Zenon DEF Dispatch, handlerVars
<1>3. ASSUME NEW s \in sending, Finish(s) PROVE TestInv'
  <2>1. \A t : Busy(t)' = Busy(t)
    BY <1>3, Zenon DEF Finish, Busy, handlerVars
  <2> QED
    BY <1>3, <2>1, TestKept, Zenon DEF Finish, handlerVars
<1>4. ASSUME NEW t \in Targets, Create(t) \/ Update(t) \/ Delete(t) PROVE TestInv'
  BY <1>4, TestChange, Zenon DEF Create, Update, Delete
<1>5. ASSUME NEW r \in Testers, TestRead(r) PROVE TestInv'
  BY <1>5, TestReads, Zenon
<1>6. ASSUME NEW r \in Testers, TestEnable(r) PROVE TestInv'
  <2>1. [held[r] EXCEPT !.enabled = TRUE].enabled = TRUE
    BY Zenon DEF AlertTypes, Stored
  <2>2. [held[r] EXCEPT !.enabled = TRUE] # Absent
    BY <2>1, Zenon DEF Absent
  <2> QED
    BY <1>6, <2>2, TestWrites, Zenon DEF TestEnable, handlerVars
<1>7. ASSUME NEW r \in Testers, TestDispatch(r) PROVE TestInv'
  <2>1. r \in Dispatches /\ stage'[r] = "tried" /\ stage[r] = "armed"
    BY <1>7, Zenon DEF TestDispatch, AlertTypes, Dispatches
  <2>2. \A u \in Testers : u # r => stage'[u] = stage[u]
    BY <1>7, Zenon DEF TestDispatch, AlertTypes, Dispatches
  <2>3. \A t : Busy(t)' = Busy(t)
    BY <1>7, <2>1, <2>2, Zenon DEF TestDispatch, Busy, handlerVars
  <2> QED
    BY <1>7, <2>3, TestKept, Zenon DEF TestDispatch, handlerVars
<1>8. ASSUME NEW r \in Testers, TestRestore(r) PROVE TestInv'
  BY <1>8, TestWrites, Zenon DEF TestRestore, Restored, handlerVars
<1>9. CASE UNCHANGED alertVars
  <2>1. \A t : Busy(t)' = Busy(t)
    BY <1>9, Zenon DEF alertVars, Busy
  <2> QED
    BY <1>9, <2>1, TestKept, Zenon DEF alertVars
<1> QED
  BY <1>1, <1>2, <1>3, <1>4, <1>5, <1>6, <1>7, <1>8, <1>9, Zenon DEF AlertNext

\* A test of an alert target, which enables it and writes it back afterwards, leaves
\* the record that the last request asked for, unless a change of the target or a
\* second test of it overlapped the test.
THEOREM TestsLeaveNoTrace == AlertSpec => []TestLeavesNoTrace
<1>1. AlertInit => TestInv
  BY Zenon DEF AlertInit, TestInv, Busy
<1>2. TestInv => TestLeavesNoTrace
  BY Zenon DEF TestInv, TestLeavesNoTrace
<1> QED
  BY <1>1, <1>2, AlertTypesInit, AlertTypesStep, TestStep, PTL DEF AlertSpec

----------------------------------------------------------------------------
(* Critical events reach every target that is steadily enabled. *)

\* A step that leaves the table alone and takes back nothing that was sent.
LEMMA ReachSame ==
  ASSUME CriticalReaches, sending \cup outcome \subseteq (sending \cup outcome)', table' = table,
         \A d \in Jobs : stage'[d] = "tried" =>
                           stage[d] = "tried" /\ events'[d] = events[d] /\ steady'[d] = steady[d]
  PROVE  CriticalReaches'
<1> SUFFICES ASSUME NEW c \in Jobs, NEW t \in Targets, Steadily(c, t)', "critical" \in events'[c]
             PROVE  Handled(c, t, "critical")'
  BY Zenon DEF CriticalReaches
<1>1. Steadily(c, t) /\ "critical" \in events[c]
  BY Zenon DEF Steadily
<1> QED
  BY <1>1 DEF CriticalReaches, Handled

\* A step that writes the record of target x and touches no dispatch.
LEMMA ReachTouched ==
  ASSUME CriticalReaches, UNCHANGED <<sending, outcome, events>>, NEW x,
         \A d \in Jobs : stage'[d] = stage[d] /\ steady'[d] = steady[d] \ {x},
         \A u \in Targets : u # x => table'[u] = table[u]
  PROVE  CriticalReaches'
<1> SUFFICES ASSUME NEW c \in Jobs, NEW t \in Targets, Steadily(c, t)', "critical" \in events'[c]
             PROVE  Handled(c, t, "critical")'
  BY Zenon DEF CriticalReaches
<1>1. Steadily(c, t) /\ "critical" \in events[c]
  BY Zenon DEF Steadily
<1> QED
  BY <1>1 DEF CriticalReaches, Handled

\* The dispatch itself: whatever its threshold, a target takes critical events.
LEMMA ReachStarts ==
  ASSUME AlertTypes, CriticalReaches, NEW d \in Jobs, Dispatch(d)
  PROVE  CriticalReaches'
<1>1. ASSUME NEW t \in Targets, table[t].enabled, "critical" \in events[d]
      PROVE  \E s \in sending' : s[1] = d /\ s[2] = t /\ "critical" \in s[3]
  <2> DEFINE s == <<d, t, {e \in events[d] : Meets(e, table[t].min)}>>
  <2>1. Meets("critical", table[t].min)
    BY DEF Meets, severityLevel
  <2>2. "critical" \in s[3] /\ s[1] = d /\ s[2] = t
    BY <1>1, <2>1, Zenon
  <2>3. s \in Start(d, events[d])
    BY <1>1, Zenon DEF Start
  <2> HIDE DEF s
  <2>4. s[3] # {}
    BY <2>2, Zenon
  <2>5. s \in sending'
    BY <2>3, <2>4, Zenon DEF Dispatch
  <2> QED
    BY <2>2, <2>5, Zenon
<1>2. \A c \in Jobs : c # d => stage'[c] = stage[c]
  BY Zenon DEF Dispatch, AlertTypes, Dispatches
<1>3. sending \subseteq sending' /\ outcome' = outcome /\ table' = table /\ steady' = steady /\ events' = events
  BY Zenon DEF Dispatch
<1> SUFFICES ASSUME NEW c \in Jobs, NEW t \in Targets, Steadily(c, t)', "critical" \in events'[c]
             PROVE  Handled(c, t, "critical")'
  BY Zenon DEF CriticalReaches
<1>4. table[t].enabled /\ t \in steady[c] /\ "critical" \in events[c]
  BY <1>3, Zenon DEF Steadily
<1>5. CASE c = d
  BY <1>1, <1>4, <1>5, Zenon DEF Handled
<1>6. CASE c # d
  BY <1>2, <1>3, <1>4, <1>6 DEF CriticalReaches, Steadily, Handled
<1> QED
  BY <1>5, <1>6, Zenon

LEMMA ReachStep == AlertTypes /\ CriticalReaches /\ [AlertNext]_alertVars => CriticalReaches'
<1> SUFFICES ASSUME AlertTypes, CriticalReaches, [AlertNext]_alertVars PROVE CriticalReaches'
  BY Zenon
<1>1. ASSUME NEW d \in Jobs, NEW evs \in SUBSET Severities, Queue(d, evs) PROVE CriticalReaches'
  <2>1. \A c \in Jobs : stage'[c] = "tried" => c # d /\ stage[c] = "tried"
    BY <1>1, Zenon DEF Queue, AlertTypes, Dispatches
  <2>2. \A c \in Jobs : c # d => events'[c] = events[c] /\ steady'[c] = steady[c]
    BY <1>1, Zenon DEF Queue, AlertTypes, Dispatches
  <2> QED
    BY <1>1, <2>1, <2>2, ReachSame, Zenon DEF Queue
<1>2. ASSUME NEW d \in Jobs, Dispatch(d) PROVE CriticalReaches'
  BY <1>2, ReachStarts, Zenon
<1>3. ASSUME NEW s \in sending, Finish(s) PROVE CriticalReaches'
  BY <1>3, ReachSame, Zenon DEF Finish
<1>4. ASSUME NEW t \in Targets, NEW rec, Change(t, rec) PROVE CriticalReaches'
  <2>1. \A d \in Jobs : steady'[d] = steady[d] \ {t}
    BY <1>4, Zenon DEF Change, Unsteady
  <2>2. \A u \in Targets : u # t => table'[u] = table[u]
    BY <1>4, Zenon DEF Change, AlertTypes
  <2> QED
    BY <1>4, <2>1, <2>2, ReachTouched, Zenon DEF Change
<1>5. ASSUME NEW t \in Targets, Create(t) \/ Update(t) \/ Delete(t) PROVE CriticalReaches'
  BY <1>4, <1>5, Zenon DEF Create, Update, Delete
<1>6. ASSUME NEW r \in Testers, TestRead(r) \/ TestDispatch(r) PROVE CriticalReaches'
  <2>1. \A d \in Jobs : stage'[d] = stage[d]
    BY <1>6, AlertingAssumption, Zenon DEF TestRead, TestDispatch, AlertTypes, Dispatches
  <2> QED
    BY <1>6, <2>1, ReachSame, Zenon DEF TestRead, TestDispatch
<1>7. ASSUME NEW r \in Testers, TestEnable(r) \/ TestRestore(r) PROVE CriticalReaches'
  <2>1. \A d \in Jobs : stage'[d] = stage[d]
    BY <1>7, AlertingAssumption, Zenon DEF TestEnable, TestRestore, AlertTypes, Dispatches
  <2>2. PICK x : x = testing[r]
    BY Zenon
  <2>3. \A d \in Jobs : steady'[d] = steady[d] \ {x}
    BY <1>7, <2>2, Zenon DEF TestEnable, TestRestore, Overwrite, Unsteady
  <2>4. \A u \in Targets : u # x => table'[u] = table[u]
    BY <1>7, <2>2, Zenon DEF TestEnable, TestRestore, Overwrite, AlertTypes
  <2> QED
    BY <1>7, <2>1, <2>3, <2>4, ReachTouched, Zenon DEF TestEnable, TestRestore
<1>8. CASE UNCHANGED alertVars
  BY <1>8, ReachSame, Zenon DEF alertVars
<1> QED
  BY <1>1, <1>2, <1>3, <1>5, <1>6, <1>7, <1>8, Zenon DEF AlertNext

\* A critical event of a job is sent to every target that is enabled from the moment
\* the job hands its events to Dispatch, whatever the threshold of the target.
THEOREM CriticalEventsReach == AlertSpec => []CriticalReaches
<1>1. AlertInit => CriticalReaches
  BY Zenon DEF AlertInit, CriticalReaches, Steadily
<1> QED
  BY <1>1, AlertTypesInit, AlertTypesStep, ReachStep, PTL DEF AlertSpec

(***************************************************************************)
(* Accounts.                                                               *)
(***************************************************************************)

\* The expiry in whole seconds lies within the second before it.
LEMMA StampBounds == \A t \in Nat : Stamp(t) \in Nat /\ Stamp(t) <= t /\ t < Stamp(t) + 2
  BY DEF Stamp

\* A row holds the expiry of its session, and is gone after a logout or, once the
\* expiry is past, after a purge.
SessionInv ==
  /\ now \in Nat \ {0} /\ rows \in [Tokens -> Nat] /\ born \in [Tokens -> Nat]
  /\ signedOut \in SUBSET Tokens
  /\ \A k \in Tokens :
       /\ born[k] = 0 => rows[k] = Nobody /\ k \notin signedOut
       /\ k \in signedOut => rows[k] = Nobody
       /\ (born[k] # 0 /\ k \notin signedOut) =>
            \/ rows[k] = Stamp(born[k] + SessionTTL)
            \/ rows[k] = Nobody /\ Stamp(born[k] + SessionTTL) < now

LEMMA SessionStep == SessionInv /\ [AccountsNext]_accountVars => SessionInv'
<1> SUFFICES ASSUME SessionInv, [AccountsNext]_accountVars PROVE SessionInv'
  BY Zenon
<1> USE AccountsAssumption DEF Nobody
<1>1. ASSUME NEW c \in ClientIPs, NEW good \in BOOLEAN, Login(c, good) PROVE SessionInv'
  <2>1. UNCHANGED <<now, signedOut>>
    BY <1>1, Zenon DEF Login
  <2>2. CASE UNCHANGED <<rows, born>>
    BY <2>1, <2>2, Zenon DEF SessionInv
  <2>3. ASSUME NEW k \in Tokens, born[k] = 0, rows' = [rows EXCEPT ![k] = Stamp(now + SessionTTL)],
               born' = [born EXCEPT ![k] = now]
        PROVE  SessionInv'
    <3>1. Stamp(now + SessionTTL) \in Nat
      BY StampBounds DEF SessionInv
    <3>2. rows' \in [Tokens -> Nat] /\ born' \in [Tokens -> Nat]
      BY <2>3, <3>1, Zenon DEF SessionInv
    <3>3. k \notin signedOut
      BY <2>3, Zenon DEF SessionInv
    <3>4. rows'[k] = Stamp(born'[k] + SessionTTL) /\ born'[k] # 0
      BY <2>3, Zenon DEF SessionInv
    <3>5. \A j \in Tokens : j # k => rows'[j] = rows[j] /\ born'[j] = born[j]
      BY <2>3, Zenon DEF SessionInv
    <3> QED
      BY <2>1, <3>2, <3>3, <3>4, <3>5, Zenon DEF SessionInv
  <2> QED
    BY <1>1, <2>2, <2>3, Zenon DEF Login
<1>2. ASSUME NEW k \in Tokens, Logout(k) PROVE SessionInv'
  BY <1>2, Zenon DEF Logout, SessionInv
<1>3. CASE Purge
  <2>1. UNCHANGED <<now, born, signedOut>>
    BY <1>3, Zenon DEF Purge
  <2>2. \A k \in Tokens : rows'[k] = rows[k] \/ (rows'[k] = Nobody /\ rows[k] # Nobody /\ rows[k] < Stamp(now))
    BY <1>3, Zenon DEF Purge, Expired
  <2>3. Stamp(now) <= now /\ Stamp(now) \in Nat
    BY StampBounds, Zenon DEF SessionInv
  <2>4. rows' \in [Tokens -> Nat]
    BY <1>3, Zenon DEF Purge, SessionInv
  <2>5. \A k \in Tokens : born[k] + SessionTTL \in Nat /\ Stamp(born[k] + SessionTTL) \in Nat
    BY StampBounds DEF SessionInv
  <2> QED
    BY <2>1, <2>2, <2>3, <2>4, <2>5 DEF SessionInv
<1>4. CASE Restart
  BY <1>4, Zenon DEF Restart, SessionInv
<1>5. CASE Tick
  <2>1. \A k \in Tokens : Stamp(born[k] + SessionTTL) \in Nat
    BY StampBounds DEF SessionInv
  <2> QED
    BY <1>5, <2>1 DEF Tick, SessionInv
<1>6. CASE UNCHANGED accountVars
  BY <1>6, Zenon DEF accountVars, SessionInv
<1> QED
  BY <1>1, <1>2, <1>3, <1>4, <1>5, <1>6, Zenon DEF AccountsNext

LEMMA SessionImplies == SessionInv => SessionsHonoured
<1> SUFFICES ASSUME SessionInv, NEW k \in Tokens
             PROVE  Accepted(k) <=> (born[k] # 0 /\ k \notin signedOut /\ now <= Stamp(born[k] + SessionTTL))
  BY Zenon DEF SessionsHonoured
<1> USE DEF Nobody
<1>1. born[k] \in Nat /\ now \in Nat /\ rows[k] \in Nat
  BY Zenon DEF SessionInv
<1>2. Stamp(born[k] + SessionTTL) \in Nat /\ (born[k] # 0 => Stamp(born[k] + SessionTTL) # 0)
  <2>1. PICK t \in Nat : t = born[k] + SessionTTL
    BY <1>1, AccountsAssumption
  <2>2. born[k] # 0 => t > 1
    BY <1>1, <2>1, AccountsAssumption
  <2>3. Stamp(t) \in Nat /\ t < Stamp(t) + 2
    BY StampBounds, Zenon
  <2> QED
    BY <2>1, <2>2, <2>3
<1>3. Accepted(k) => (born[k] # 0 /\ k \notin signedOut /\ now <= Stamp(born[k] + SessionTTL))
  BY <1>1, <1>2, Zenon DEF SessionInv, Accepted
<1>4. (born[k] # 0 /\ k \notin signedOut /\ now <= Stamp(born[k] + SessionTTL)) => Accepted(k)
  BY <1>1, <1>2 DEF SessionInv, Accepted
<1> QED
  BY <1>3, <1>4, Zenon

\* RequireAuth accepts a session from its sign-in to the second of its expiry or to
\* its logout, whatever sign-ins, purges and restarts come in between.
THEOREM SessionsAreHonoured == AccountsSpec => []SessionsHonoured
<1>1. AccountsInit => SessionInv
  BY DEF AccountsInit, SessionInv, Nobody
<1> QED
  BY <1>1, SessionStep, SessionImplies, PTL DEF AccountsSpec

(***************************************************************************)
(* Providers.                                                              *)
(***************************************************************************)

\* The provider selected at start is one of those registered: the least index that
\* names one exists.
LEMMA FirstIsRegistered ==
  ASSUME NEW S \in SUBSET Listed, S # {}
  PROVE  FirstOf(S) \in S
<1> DEFINE Idx == {i \in DOMAIN Order : Order[i] \in S}
<1>1. Idx # {} /\ Idx \subseteq Nat
  BY ProvidersAssumption DEF Listed
<1>2. PICK i \in Idx : \A j \in Idx : ~(<<j, i>> \in OpToRel(<, Nat))
  BY <1>1, NatLessThanWellFounded, WFMin, Zenon
<1>3. \A j \in Idx : ~(j < i)
  BY <1>1, <1>2, Zenon DEF OpToRel
<1>4. i \in DOMAIN Order /\ Order[i] \in S /\ \A j \in 1..(i - 1) : Order[j] \notin S
  BY <1>3, ProvidersAssumption
<1> QED
  BY <1>4, Zenon DEF FirstOf

LEMMA ActiveUsableStep == ActiveUsable /\ [ProvidersNext]_providerVars => ActiveUsable'
<1> SUFFICES ASSUME ActiveUsable, [ProvidersNext]_providerVars PROVE ActiveUsable'
  BY Zenon
<1>1. ASSUME NEW r \in Requests, NEW name \in Listed, Activate(r, name) PROVE ActiveUsable'
  BY <1>1, Zenon DEF Activate, Usable, ActiveUsable
<1>2. ASSUME NEW r \in Requests, ActivateChat(r) PROVE ActiveUsable'
  BY <1>2, Zenon DEF ActivateChat, SetActive, ActiveUsable
<1>3. ASSUME NEW name \in Listed, SetSettings(name) PROVE ActiveUsable'
  BY <1>3, Zenon DEF SetSettings, SetActive, ActiveUsable
<1>4. CASE UNCHANGED providerVars
  BY <1>4, Zenon DEF providerVars, ActiveUsable
<1> QED
  BY <1>1, <1>2, <1>3, <1>4, Zenon DEF ProvidersNext

\* Whatever keys the environment holds and whatever is activated, refused or set, the
\* provider that AIRegistry and ProviderRegistry select is one with a key.
THEOREM ActiveProviderUsable == ProvidersSpec => []ActiveUsable
<1>1. ProvidersInit => ActiveUsable
  BY FirstIsRegistered, Zenon DEF ProvidersInit, ActiveUsable, FirstOf
<1> QED
  BY <1>1, ActiveUsableStep, PTL DEF ProvidersSpec

\* Unless something raced, at most one activation is between its two halves, the
\* plugin registry already holds its provider, and without one the two agree.
AgreeInv ==
  /\ activation \in [Requests -> [name : Listed \cup {Unset}, at : {"start", "half", "refused", "done"}]]
  /\ ~raced =>
       /\ \A r \in Requests : activation[r].at = "half" =>
            /\ activation[r].name = pluginActive /\ pluginActive \in keyed
            /\ \A q \in Requests : activation[q].at = "half" => q = r
       /\ (\A r \in Requests : activation[r].at # "half") => pluginActive = chatActive

LEMMA AgreeStep == AgreeInv /\ [ProvidersNext]_providerVars => AgreeInv'
<1> SUFFICES ASSUME AgreeInv, [ProvidersNext]_providerVars PROVE AgreeInv'
  BY Zenon
<1>1. ASSUME NEW r \in Requests, NEW name \in Listed, Activate(r, name) PROVE AgreeInv'
  <2>1. CASE ~Usable(name)
    BY <1>1, <2>1 DEF Activate, AgreeInv
  <2>2. CASE Usable(name) /\ (raced \/ Underway # {})
    <3>1. raced'
      BY <1>1, <2>2, Zenon DEF Activate
    <3>2. activation' = [activation EXCEPT ![r] = [name |-> name, at |-> "half"]]
      BY <1>1, <2>2, Zenon DEF Activate
    <3> QED
      BY <3>1, <3>2, Zenon DEF AgreeInv
  <2>3. CASE Usable(name) /\ Underway = {}
    <3>1. /\ pluginActive' = name /\ name \in keyed' /\ keyed' = keyed
          /\ activation' = [activation EXCEPT ![r] = [name |-> name, at |-> "half"]]
      BY <1>1, <2>3, Zenon DEF Activate, Usable
    <3>2. \A q \in Requests : activation[q].at # "half"
      BY <2>3, Zenon DEF Underway
    <3>3. activation'[r] = [name |-> name, at |-> "half"] /\ \A q \in Requests : q # r => activation'[q].at # "half"
      BY <3>1, <3>2, Zenon DEF AgreeInv
    <3> QED
      BY <3>1, <3>3, Zenon DEF AgreeInv
  <2> QED
    BY <2>1, <2>2, <2>3, Zenon
<1>2. ASSUME NEW r \in Requests, ActivateChat(r) PROVE AgreeInv'
  BY <1>2, Zenon DEF ActivateChat, SetActive, AgreeInv
<1>3. ASSUME NEW name \in Listed, SetSettings(name) PROVE AgreeInv'
  BY <1>3, Zenon DEF SetSettings, AgreeInv
<1>4. CASE UNCHANGED providerVars
  BY <1>4, Zenon DEF providerVars, AgreeInv
<1> QED
  BY <1>1, <1>2, <1>3, <1>4, Zenon DEF ProvidersNext

\* ActivateAI leaves the plugin page and the chat on the same provider, for every set
\* of requests, as long as no two overlap and the chat settings are not used.
THEOREM RegistriesStayEqual == ProvidersSpec => []RegistriesAgree
<1>1. ProvidersInit => AgreeInv
  BY DEF ProvidersInit, AgreeInv
<1>2. AgreeInv => RegistriesAgree
  BY Zenon DEF AgreeInv, RegistriesAgree, Underway
<1> QED
  BY <1>1, <1>2, AgreeStep, PTL DEF ProvidersSpec

----------------------------------------------------------------------------
(* The limit on attempts to sign in. *)

(* The attempts that count in the window that ends at e come last in the     *)
(* history s, n of them; those before are older than its start, and all but  *)
(* the last LoginMaxAttempts of those by more than a whole window.           *)
Windowed(s, n, e) ==
  /\ n <= Len(s)
  /\ \A i \in 1..Len(s) : s[i] <= e
  /\ \A i \in 1..Len(s) : i > Len(s) - n => s[i] + LoginWindow >= e
  /\ \A i \in 1..Len(s) : i <= Len(s) - n => s[i] + LoginWindow < e
  /\ \A i \in 1..Len(s) : i + LoginMaxAttempts <= Len(s) - n => s[i] + 2 * LoginWindow < e

(* No span as long as the window holds more than twice the allowed attempts. *)
Spread(s) ==
  \A i, j \in 1..Len(s) : j = i + 2 * LoginMaxAttempts => s[j] >= s[i] + LoginWindow

Counted(b) == IF b.count < LoginMaxAttempts THEN b.count ELSE LoginMaxAttempts

LimiterInv ==
  /\ now \in Nat \ {0}
  /\ bucket \in [ClientIPs -> [count : Nat, end : Nat]]
  /\ admitted \in [ClientIPs -> Seq(Nat)]
  /\ \A c \in ClientIPs : bucket[c].end <= now + LoginWindow
  /\ \A c \in ClientIPs : Windowed(admitted[c], Counted(bucket[c]), bucket[c].end)
  /\ \A c \in ClientIPs : Spread(admitted[c])

LEMMA AppendLast ==
  ASSUME NEW s \in Seq(Nat), NEW t \in Nat
  PROVE  /\ Append(s, t) \in Seq(Nat) /\ Len(Append(s, t)) = Len(s) + 1 /\ Len(s) \in Nat
         /\ \A i \in 1..Len(s) : Append(s, t)[i] = s[i]
         /\ Append(s, t)[Len(s) + 1] = t
OBVIOUS

LEMMA WindowOpens ==
  ASSUME NEW s \in Seq(Nat), NEW n \in Nat, NEW e \in Nat, NEW t \in Nat, n <= LoginMaxAttempts,
         Windowed(s, n, e), Spread(s), t > e
  PROVE  Windowed(Append(s, t), 1, t + LoginWindow) /\ Spread(Append(s, t))
<1> DEFINE r == Append(s, t)
           m == Len(s)
<1>1. /\ r \in Seq(Nat) /\ Len(r) = m + 1 /\ m \in Nat /\ r[m + 1] = t
      /\ \A i \in 1..m : r[i] = s[i] /\ s[i] \in Nat
  BY AppendLast
<1>2. LoginMaxAttempts \in Nat \ {0} /\ LoginWindow \in Nat \ {0}
  BY AccountsAssumption, Zenon
<1>3. /\ n <= m
      /\ \A i \in 1..m : s[i] <= e
      /\ \A i \in 1..m : i <= m - n => s[i] + LoginWindow < e
  BY Zenon DEF Windowed
<1>4. \A i, j \in 1..m : j = i + 2 * LoginMaxAttempts => s[j] >= s[i] + LoginWindow
  BY Zenon DEF Spread
<1> HIDE DEF r, m
<1>5. \A i \in 1..m : s[i] < t
  BY ONLY <1>1, <1>3, e \in Nat, t \in Nat, t > e
<1>6. ASSUME NEW i \in 1..m, i + LoginMaxAttempts <= m PROVE s[i] + LoginWindow < t
  <2>1. i <= m - n
    BY ONLY <1>1, <1>2, <1>6, i \in 1..m, n \in Nat, n <= LoginMaxAttempts
  <2>2. s[i] + LoginWindow < e /\ s[i] \in Nat
    BY <1>1, <1>3, <2>1, Zenon
  <2> QED BY ONLY <1>2, <2>2, e \in Nat, t \in Nat, t > e
<1>7. Windowed(r, 1, t + LoginWindow)
  <2>1. ASSUME NEW i \in 1..(m + 1)
        PROVE  /\ r[i] <= t + LoginWindow
               /\ i > m => r[i] + LoginWindow >= t + LoginWindow
               /\ i <= m => r[i] + LoginWindow < t + LoginWindow
               /\ i + LoginMaxAttempts <= m => r[i] + 2 * LoginWindow < t + LoginWindow
    <3>1. CASE i = m + 1
      BY ONLY <1>1, <1>2, <3>1, t \in Nat
    <3>2. CASE i # m + 1
      <4>1. i \in 1..m
        BY ONLY <1>1, <3>2, i \in 1..(m + 1)
      <4>2. r[i] = s[i] /\ s[i] \in Nat /\ s[i] < t /\ (i + LoginMaxAttempts <= m => s[i] + LoginWindow < t)
        BY <1>1, <1>5, <1>6, <4>1, Zenon
      <4> QED BY ONLY <1>1, <1>2, <4>1, <4>2, t \in Nat
    <3> QED BY <3>1, <3>2, Zenon
  <2>2. Len(r) - 1 = m /\ 1 <= Len(r)
    BY ONLY <1>1
  <2> QED BY ONLY <1>1, <2>1, <2>2, Zenon DEF Windowed
<1>8. Spread(r)
  <2>1. ASSUME NEW i \in 1..(m + 1), NEW j \in 1..(m + 1), j = i + 2 * LoginMaxAttempts
        PROVE  r[j] >= r[i] + LoginWindow
    <3>1. i \in 1..m /\ (j = m + 1 \/ j \in 1..m) /\ (j = m + 1 => i + LoginMaxAttempts <= m)
      BY ONLY <1>1, <1>2, <2>1, i \in 1..(m + 1), j \in 1..(m + 1)
    <3>2. CASE j = m + 1
      <4>1. s[i] + LoginWindow < t /\ r[i] = s[i] /\ r[j] = t /\ s[i] \in Nat
        BY <1>1, <1>6, <3>1, <3>2, Zenon
      <4> QED BY ONLY <1>2, <4>1, t \in Nat
    <3>3. CASE j \in 1..m
      BY <1>1, <1>4, <2>1, <3>1, <3>3, Zenon
    <3> QED BY <3>1, <3>2, <3>3, Zenon
  <2> QED BY ONLY <1>1, <2>1, Zenon DEF Spread
<1> QED BY <1>7, <1>8, Zenon DEF r

LEMMA WindowCounts ==
  ASSUME NEW s \in Seq(Nat), NEW n \in Nat, NEW e \in Nat, NEW t \in Nat, n < LoginMaxAttempts,
         Windowed(s, n, e), Spread(s), t <= e, e <= t + LoginWindow
  PROVE  Windowed(Append(s, t), n + 1, e) /\ Spread(Append(s, t))
<1> DEFINE r == Append(s, t)
           m == Len(s)
<1>1. /\ r \in Seq(Nat) /\ Len(r) = m + 1 /\ m \in Nat /\ r[m + 1] = t
      /\ \A i \in 1..m : r[i] = s[i] /\ s[i] \in Nat
  BY AppendLast
<1>2. LoginMaxAttempts \in Nat \ {0} /\ LoginWindow \in Nat \ {0}
  BY AccountsAssumption, Zenon
<1>3. /\ n <= m
      /\ \A i \in 1..m : s[i] <= e
      /\ \A i \in 1..m : i > m - n => s[i] + LoginWindow >= e
      /\ \A i \in 1..m : i <= m - n => s[i] + LoginWindow < e
      /\ \A i \in 1..m : i + LoginMaxAttempts <= m - n => s[i] + 2 * LoginWindow < e
  BY Zenon DEF Windowed
<1>4. \A i, j \in 1..m : j = i + 2 * LoginMaxAttempts => s[j] >= s[i] + LoginWindow
  BY Zenon DEF Spread
<1> HIDE DEF r, m
<1>6. ASSUME NEW i \in 1..m, i + LoginMaxAttempts <= m - n PROVE t >= s[i] + LoginWindow
  <2>1. s[i] + 2 * LoginWindow < e /\ s[i] \in Nat
    BY <1>1, <1>3, <1>6, Zenon
  <2> QED BY ONLY <1>2, <2>1, e \in Nat, t \in Nat, e <= t + LoginWindow
<1>7. Windowed(r, n + 1, e)
  <2>1. ASSUME NEW i \in 1..(m + 1)
        PROVE  /\ r[i] <= e
               /\ i > m - n => r[i] + LoginWindow >= e
               /\ i <= m - n => r[i] + LoginWindow < e
               /\ i + LoginMaxAttempts <= m - n => r[i] + 2 * LoginWindow < e
    <3>1. CASE i = m + 1
      BY ONLY <1>1, <1>2, <3>1, t \in Nat, e \in Nat, n \in Nat, t <= e, e <= t + LoginWindow
    <3>2. CASE i # m + 1
      <4>1. i \in 1..m
        BY ONLY <1>1, <3>2, i \in 1..(m + 1)
      <4>2. r[i] = s[i]
        BY <1>1, <4>1, Zenon
      <4> QED BY <1>3, <4>1, <4>2, Zenon
    <3> QED BY <3>1, <3>2, Zenon
  <2>2. Len(r) - (n + 1) = m - n /\ n + 1 <= Len(r)
    BY ONLY <1>1, <1>3, n \in Nat
  <2> QED BY ONLY <1>1, <2>1, <2>2, Zenon DEF Windowed
<1>8. Spread(r)
  <2>1. ASSUME NEW i \in 1..(m + 1), NEW j \in 1..(m + 1), j = i + 2 * LoginMaxAttempts
        PROVE  r[j] >= r[i] + LoginWindow
    <3>1. i \in 1..m /\ (j = m + 1 \/ j \in 1..m) /\ (j = m + 1 => i + LoginMaxAttempts <= m - n)
      BY ONLY <1>1, <1>2, <2>1, i \in 1..(m + 1), j \in 1..(m + 1), n \in Nat, n < LoginMaxAttempts
    <3>2. CASE j = m + 1
      BY <1>1, <1>6, <3>1, <3>2, Zenon
    <3>3. CASE j \in 1..m
      BY <1>1, <1>4, <2>1, <3>1, <3>3, Zenon
    <3> QED BY <3>1, <3>2, <3>3, Zenon
  <2> QED BY ONLY <1>1, <2>1, Zenon DEF Spread
<1> QED BY <1>7, <1>8, Zenon DEF r

LEMMA LimiterStep == LimiterInv /\ [AccountsNext]_accountVars => LimiterInv'
<1> SUFFICES ASSUME LimiterInv, [AccountsNext]_accountVars PROVE LimiterInv'
  BY Zenon
<1>0. LoginMaxAttempts \in Nat \ {0} /\ LoginWindow \in Nat \ {0}
  BY AccountsAssumption, Zenon
<1>1. ASSUME UNCHANGED <<bucket, admitted>>, now' = now \/ now' = now + 1 PROVE LimiterInv'
  <2>1. /\ now \in Nat \ {0}
        /\ bucket \in [ClientIPs -> [count : Nat, end : Nat]]
        /\ admitted \in [ClientIPs -> Seq(Nat)]
        /\ \A c \in ClientIPs : bucket[c].end <= now + LoginWindow
    BY Zenon DEF LimiterInv
  <2>2. now' \in Nat \ {0} /\ \A c \in ClientIPs : bucket[c].end <= now' + LoginWindow
    BY <1>0, <1>1, <2>1
  <2> QED BY <1>1, <2>2, Zenon DEF LimiterInv, Windowed, Spread, Counted
<1>2. ASSUME NEW c \in ClientIPs, NEW good \in BOOLEAN, Login(c, good) PROVE LimiterInv'
  <2> DEFINE b == bucket[c]
             s == admitted[c]
             e == bucket[c].end
  <2>1. /\ now \in Nat \ {0} /\ now' = now
        /\ bucket \in [ClientIPs -> [count : Nat, end : Nat]] /\ b \in [count : Nat, end : Nat]
        /\ admitted \in [ClientIPs -> Seq(Nat)] /\ s \in Seq(Nat) /\ e \in Nat
        /\ b.end <= now + LoginWindow
        /\ Windowed(s, Counted(b), e) /\ Spread(s)
    BY <1>2, Zenon DEF LimiterInv, Login
  <2>2. Counted(b) \in Nat /\ Counted(b) <= LoginMaxAttempts
    BY <1>0, <2>1 DEF Counted
  <2>3. ASSUME NEW nb \in [count : Nat, end : Nat], NEW ns \in Seq(Nat),
               bucket' = [bucket EXCEPT ![c] = nb], admitted' = [admitted EXCEPT ![c] = ns],
               nb.end <= now + LoginWindow, Windowed(ns, Counted(nb), nb.end), Spread(ns)
        PROVE  LimiterInv'
    <3>1. /\ bucket' \in [ClientIPs -> [count : Nat, end : Nat]]
          /\ admitted' \in [ClientIPs -> Seq(Nat)]
      BY <2>1, <2>3, Zenon
    <3>2. ASSUME NEW d \in ClientIPs
          PROVE  /\ bucket'[d].end <= now' + LoginWindow
                 /\ Windowed(admitted'[d], Counted(bucket'[d]), bucket'[d].end)
                 /\ Spread(admitted'[d])
      <4>1. CASE d = c
        BY <2>1, <2>3, <4>1, Zenon
      <4>2. CASE d # c
        <5>1. bucket'[d] = bucket[d] /\ admitted'[d] = admitted[d]
          BY <2>1, <2>3, <4>2, Zenon
        <5> QED BY <2>1, <5>1, Zenon DEF LimiterInv
      <4> QED BY <4>1, <4>2, Zenon
    <3> QED BY <2>1, <3>1, <3>2, Zenon DEF LimiterInv, Windowed, Spread, Counted
  <2>4. CASE b = NoBucket \/ now > b.end
    <3> DEFINE nb == [count |-> 1, end |-> now + LoginWindow]
    <3>1. now > e
      <4>1. CASE b = NoBucket
        BY <2>1, <4>1 DEF NoBucket
      <4> QED BY <2>4, <4>1, Zenon
    <3>2. bucket' = [bucket EXCEPT ![c] = nb] /\ admitted' = [admitted EXCEPT ![c] = Append(s, now)]
      BY <1>2, <2>4, Zenon DEF Login, Attempt
    <3>3. nb \in [count : Nat, end : Nat] /\ nb.end = now + LoginWindow /\ Counted(nb) = 1
      <4>1. nb.count = 1 /\ nb.end = now + LoginWindow
        BY Zenon
      <4>2. nb \in [count : Nat, end : Nat]
        BY <1>0, <2>1
      <4> HIDE DEF nb
      <4>3. Counted(nb) = 1
        BY <1>0, <4>1 DEF Counted
      <4> QED BY <4>1, <4>2, <4>3, Zenon
    <3>4. Windowed(Append(s, now), 1, now + LoginWindow) /\ Spread(Append(s, now))
      BY <2>1, <2>2, <3>1, WindowOpens, Zenon
    <3>5. Append(s, now) \in Seq(Nat) /\ nb.end <= now + LoginWindow
      BY <1>0, <2>1, <3>3
    <3> HIDE DEF nb
    <3> QED BY <2>3, <3>2, <3>3, <3>4, <3>5, Zenon
  <2>5. CASE ~(b = NoBucket \/ now > b.end)
    <3> DEFINE nb == [b EXCEPT !.count = @ + 1]
    <3>1. now <= e
      <4>1. now \in Nat /\ e \in Nat /\ ~(now > e)
        BY <2>1, <2>5, Zenon
      <4> HIDE DEF e
      <4> QED BY ONLY <4>1
    <3>2. nb \in [count : Nat, end : Nat] /\ nb.end = e /\ nb.count = b.count + 1 /\ b.count \in Nat
      <4> HIDE DEF b
      <4>1. [b EXCEPT !.count = @ + 1].end = b.end
        BY <2>1, Zenon
      <4>2. [b EXCEPT !.count = @ + 1].count = b.count + 1 /\ b.count \in Nat
        BY <2>1, Zenon
      <4>3. [b EXCEPT !.count = @ + 1] \in [count : Nat, end : Nat]
        BY <2>1
      <4> QED BY <4>1, <4>2, <4>3, Zenon DEF b
    <3>3. bucket' = [bucket EXCEPT ![c] = nb]
          /\ admitted' = IF b.count + 1 <= LoginMaxAttempts THEN [admitted EXCEPT ![c] = Append(s, now)] ELSE admitted
      BY <1>2, <2>5, Zenon DEF Login, Attempt
    <3> HIDE DEF nb
    <3>4. CASE b.count + 1 <= LoginMaxAttempts
      <4>1. Counted(b) = b.count /\ Counted(nb) = b.count + 1
        BY <1>0, <3>2, <3>4 DEF Counted
      <4>2. Windowed(Append(s, now), b.count + 1, e) /\ Spread(Append(s, now))
        BY <1>0, <2>1, <3>1, <3>2, <3>4, <4>1, WindowCounts
      <4>3. Append(s, now) \in Seq(Nat)
        BY <2>1
      <4> QED BY <2>1, <2>3, <3>2, <3>3, <3>4, <4>1, <4>2, <4>3, Zenon
    <3>5. CASE ~(b.count + 1 <= LoginMaxAttempts)
      <4>1. Counted(b) = Counted(nb)
        BY <1>0, <3>2, <3>5 DEF Counted
      <4>2. admitted' = [admitted EXCEPT ![c] = s]
        BY <2>1, <3>3, <3>5, Zenon
      <4> QED BY <2>1, <2>3, <3>2, <3>3, <4>1, <4>2, Zenon
    <3> QED BY <3>4, <3>5, Zenon
  <2> QED BY <2>4, <2>5, Zenon
<1>3. ASSUME NEW k \in Tokens, Logout(k) PROVE LimiterInv'
  BY <1>1, <1>3, Zenon DEF Logout
<1>4. CASE Purge
  BY <1>1, <1>4, Zenon DEF Purge
<1>5. CASE Restart
  <2>1. bucket' = [c \in ClientIPs |-> NoBucket] /\ admitted' = [c \in ClientIPs |-> << >>] /\ now' = now
    BY <1>5, Zenon DEF Restart
  <2>2. now \in Nat \ {0}
    BY Zenon DEF LimiterInv
  <2> QED BY <1>0, <2>1, <2>2 DEF LimiterInv, NoBucket, Windowed, Spread, Counted
<1>6. CASE Tick
  BY <1>1, <1>6, Zenon DEF Tick
<1>7. CASE UNCHANGED accountVars
  BY <1>1, <1>7, Zenon DEF accountVars
<1> QED BY <1>2, <1>3, <1>4, <1>5, <1>6, <1>7, Zenon DEF AccountsNext

(* Between two restarts no span as long as the window lets more than twice   *)
(* the allowed attempts of a client through, whatever the window and the     *)
(* limit: the window is fixed, and opens with its first attempt.             *)
THEOREM LimiterBounds == AccountsSpec => []AttemptsBounded
<1>1. AccountsInit => LimiterInv
  BY AccountsAssumption DEF AccountsInit, LimiterInv, NoBucket, Windowed, Spread, Counted
<1>2. LimiterInv => AttemptsBounded
  <2> SUFFICES ASSUME LimiterInv, NEW c \in ClientIPs PROVE \A i, j \in DOMAIN admitted[c] :
                 j = i + 2 * LoginMaxAttempts => admitted[c][j] >= admitted[c][i] + LoginWindow
    BY Zenon DEF AttemptsBounded
  <2>1. admitted[c] \in Seq(Nat) /\ Spread(admitted[c])
    BY Zenon DEF LimiterInv
  <2>2. DOMAIN admitted[c] = 1..Len(admitted[c])
    BY <2>1
  <2> QED BY <2>1, <2>2, Zenon DEF Spread
<1> QED BY <1>1, <1>2, LimiterStep, PTL DEF AccountsSpec

----------------------------------------------------------------------------
(* The cache of addresses. *)

(* What a sequence of addresses holds, and that it holds none twice. *)
In(s) == {s[i] : i \in 1..Len(s)}
Once(s) == \A i, j \in 1..Len(s) : s[i] = s[j] => i = j

LEMMA InTail ==
  ASSUME NEW s \in Seq(Addresses), s # << >>, Once(s)
  PROVE  /\ Head(s) \in Addresses /\ Tail(s) \in Seq(Addresses)
         /\ Head(s) \in In(s) /\ In(Tail(s)) \subseteq In(s) /\ Head(s) \notin In(Tail(s)) /\ Once(Tail(s))
<1> DEFINE r == Tail(s)
<1>1. /\ Head(s) = s[1] /\ Len(s) \in Nat /\ Len(s) >= 1 /\ Head(s) \in Addresses /\ r \in Seq(Addresses)
      /\ Len(r) = Len(s) - 1 /\ \A i \in 1..Len(r) : r[i] = s[i + 1] /\ i + 1 \in 1..Len(s)
  OBVIOUS
<1> HIDE DEF r
<1>2. Head(s) \in In(s) /\ In(r) \subseteq In(s)
  BY <1>1 DEF In
<1>3. Head(s) \notin In(r)
  <2> SUFFICES ASSUME NEW i \in 1..Len(r), r[i] = s[1] PROVE FALSE
    BY <1>1, Zenon DEF In
  <2>1. s[i + 1] = s[1] /\ i + 1 \in 1..Len(s) /\ 1 \in 1..Len(s)
    BY <1>1
  <2>2. i + 1 = 1
    BY <2>1, Zenon DEF Once
  <2> QED BY <2>2
<1>4. Once(r)
  <2> SUFFICES ASSUME NEW i \in 1..Len(r), NEW j \in 1..Len(r), r[i] = r[j] PROVE i = j
    BY Zenon DEF Once
  <2>1. s[i + 1] = s[j + 1] /\ i + 1 \in 1..Len(s) /\ j + 1 \in 1..Len(s)
    BY <1>1, Zenon
  <2>2. i + 1 = j + 1
    BY <2>1, Zenon DEF Once
  <2> QED BY <2>2
<1> QED BY <1>1, <1>2, <1>3, <1>4, Zenon DEF r

LEMMA InAppend ==
  ASSUME NEW s \in Seq(Addresses), NEW a \in Addresses
  PROVE  /\ Append(s, a) \in Seq(Addresses) /\ In(Append(s, a)) = In(s) \cup {a}
         /\ Once(s) /\ a \notin In(s) => Once(Append(s, a))
<1> DEFINE r == Append(s, a)
<1>1. /\ r \in Seq(Addresses) /\ Len(r) = Len(s) + 1 /\ Len(s) \in Nat /\ r[Len(s) + 1] = a
      /\ \A i \in 1..Len(s) : r[i] = s[i]
  OBVIOUS
<1> HIDE DEF r
<1>2. In(r) = In(s) \cup {a}
  <2>1. \A i \in 1..Len(r) : i \in 1..Len(s) \/ i = Len(s) + 1
    BY <1>1
  <2>2. ASSUME NEW x \in In(r) PROVE x \in In(s) \cup {a}
    BY <1>1, <2>1, Zenon DEF In
  <2>3. ASSUME NEW x \in In(s) \cup {a} PROVE x \in In(r)
    <3>1. CASE x = a
      BY <1>1, <3>1 DEF In
    <3>2. CASE x \in In(s)
      BY <1>1, <3>2 DEF In
    <3> QED BY <3>1, <3>2, Zenon
  <2> QED BY <2>2, <2>3, Zenon
<1>3. ASSUME Once(s), a \notin In(s) PROVE Once(r)
  BY <1>1, <1>3 DEF Once, In
<1> QED BY <1>1, <1>2, <1>3, Zenon DEF r

(* The first batch and the rest share no address and leave none out. *)
LEMMA InRest ==
  ASSUME NEW s \in Seq(Addresses), Once(s), NEW b \in Nat \ {0}, NEW e \in Nat, NEW r,
         e = (IF Len(s) < b THEN Len(s) ELSE b), r = SubSeq(s, b + 1, Len(s))
  PROVE  /\ r \in Seq(Addresses) /\ Once(r)
         /\ In(r) = In(s) \ {s[i] : i \in 1..e}
         /\ {s[i] : i \in 1..e} \subseteq In(s)
<1>1. CASE Len(s) <= b
  <2>1. r = << >> /\ e = Len(s)
    BY <1>1
  <2> QED BY <2>1 DEF In, Once
<1>2. CASE ~(Len(s) <= b)
  <2>1. /\ r \in Seq(Addresses) /\ Len(r) = Len(s) - b /\ e = b /\ Len(s) \in Nat /\ b < Len(s)
        /\ \A i \in 1..Len(r) : r[i] = s[b + i]
    BY <1>2
  <2>2. Once(r)
    <3> SUFFICES ASSUME NEW i \in 1..Len(r), NEW j \in 1..Len(r), r[i] = r[j] PROVE i = j
      BY Zenon DEF Once
    <3>1. s[b + i] = s[b + j] /\ b + i \in 1..Len(s) /\ b + j \in 1..Len(s)
      BY <2>1
    <3>2. b + i = b + j
      BY <3>1, Zenon DEF Once
    <3> QED BY <3>2
  <2>3. ASSUME NEW x \in In(r) PROVE x \in In(s) /\ x \notin {s[i] : i \in 1..e}
    <3>1. PICK i \in 1..Len(r) : x = r[i]
      BY Zenon DEF In
    <3>i. b + i \in 1..Len(s) /\ b + i > e
      BY ONLY b \in Nat \ {0}, <2>1, <3>1
    <3>2. x = s[b + i] /\ b + i \in 1..Len(s) /\ b + i > e
      BY <2>1, <3>1, <3>i, Zenon
    <3>3. ASSUME NEW j \in 1..e, x = s[j] PROVE FALSE
      <4>1. j \in 1..Len(s)
        BY <2>1
      <4>2. j = b + i
        BY <3>2, <3>3, <4>1, Zenon DEF Once
      <4> QED BY <3>2, <4>2
    <3> QED BY <3>2, <3>3, Zenon DEF In
  <2>4. ASSUME NEW x \in In(s), x \notin {s[i] : i \in 1..e} PROVE x \in In(r)
    <3>1. PICK j \in 1..Len(s) : x = s[j]
      BY Zenon DEF In
    <3>2. j - b \in 1..Len(r) /\ j = b + (j - b)
      BY <2>1, <2>4, <3>1
    <3> QED BY <2>1, <3>1, <3>2, Zenon DEF In
  <2>5. {s[i] : i \in 1..e} \subseteq In(s)
    <3>1. 1..e \subseteq 1..Len(s)
      BY <2>1
    <3> QED BY <3>1, Zenon DEF In
  <2> QED BY <2>1, <2>2, <2>3, <2>4, <2>5, Zenon
<1> QED BY <1>1, <1>2, Zenon

GeoTypes ==
  /\ halfDay \in Nat \ {0}
  /\ entry \in [Addresses -> Nat]
  /\ asked \in [Callers -> Seq(Addresses)]
  /\ toFetch \in [Callers -> Seq(Addresses)]
  /\ answer \in [Callers -> SUBSET Addresses]
  /\ requests \in [Callers -> [Addresses -> Nat]]

(* An address a caller has still to look up has no verdict; one it found    *)
(* stale waits to be fetched or was asked for, once.                        *)
FetchInv ==
  /\ \A c \in Callers : Once(asked[c]) /\ Once(toFetch[c])
  /\ \A c \in Callers : \A v \in verdicts : v.who = c => v.ip \notin In(asked[c])
  /\ \A c \in Callers : \A a \in In(toFetch[c]) : Stale(c, a)
  /\ \A c \in Callers, a \in Addresses :
        requests[c][a] = IF Stale(c, a) /\ a \notin In(toFetch[c]) THEN 1 ELSE 0

AgeInv == (\A a \in Addresses : entry[a] <= halfDay) /\ ReusedWhileFresh

LEMMA DayHalves == \A t \in Nat : Day(t) \in Nat /\ 2 * Day(t) <= t /\ t <= 2 * Day(t) + 1
BY DEF Day

LEMMA GeoTypesStep == GeoTypes /\ FetchInv /\ [GeoNext]_geoVars => GeoTypes'
<1> SUFFICES ASSUME GeoTypes, FetchInv, [GeoNext]_geoVars PROVE GeoTypes'
  BY Zenon
<1> USE GeoAssumption DEF GeoTypes
<1>1. ASSUME NEW c \in Callers, Enrich(c) PROVE GeoTypes'
  <2>1. [i \in Addresses |-> i] \in Seq(Addresses)
    BY DEF Addresses
  <2> QED BY <1>1, <2>1, Zenon DEF Enrich
<1>2. ASSUME NEW c \in Callers, NEW a \in Addresses, LookupOne(c, a) PROVE GeoTypes'
  BY <1>2 DEF LookupOne
<1>3. ASSUME NEW c \in Callers, Lookup(c) PROVE GeoTypes'
  <2>1. Head(asked[c]) \in Addresses /\ Tail(asked[c]) \in Seq(Addresses)
    BY <1>3, InTail, Zenon DEF Lookup, FetchInv
  <2>2. Append(toFetch[c], Head(asked[c])) \in Seq(Addresses)
    BY <2>1, InAppend, Zenon
  <2> QED BY <1>3, <2>1, <2>2, Zenon DEF Lookup
<1>4. ASSUME NEW c \in Callers, FetchBatch(c) PROVE GeoTypes'
  <2> DEFINE sent == {toFetch[c][i] : i \in 1..BatchEnd(c)}
  <2>1. Rest(c) \in Seq(Addresses) /\ sent \subseteq Addresses
    BY InRest DEF BatchEnd, Rest, FetchInv, In
  <2>2. /\ \E good \in SUBSET sent : answer' = [answer EXCEPT ![c] = good]
        /\ requests' = [requests EXCEPT ![c] = [a \in Addresses |-> IF a \in sent THEN @[a] + 1 ELSE @[a]]]
        /\ toFetch' = [toFetch EXCEPT ![c] = Rest(c)] /\ UNCHANGED <<halfDay, entry, asked>>
    BY <1>4, Zenon DEF FetchBatch
  <2> HIDE DEF sent
  <2>3. answer' \in [Callers -> SUBSET Addresses]
    BY <2>1, <2>2, Zenon
  <2>4. requests' \in [Callers -> [Addresses -> Nat]]
    BY <2>2
  <2>5. toFetch' \in [Callers -> Seq(Addresses)]
    BY <2>1, <2>2, Zenon
  <2> QED BY <2>2, <2>3, <2>4, <2>5, Zenon
<1>5. ASSUME NEW c \in Callers, Upsert(c) PROVE GeoTypes'
  BY <1>5 DEF Upsert
<1>6. CASE HalfDayPasses
  BY <1>6 DEF HalfDayPasses
<1>7. CASE UNCHANGED geoVars
  BY <1>7, Zenon DEF geoVars
<1> QED BY <1>1, <1>2, <1>3, <1>4, <1>5, <1>6, <1>7, Zenon DEF GeoNext

LEMMA FetchStep == GeoTypes /\ FetchInv /\ [GeoNext]_geoVars => FetchInv'
<1> SUFFICES ASSUME GeoTypes, FetchInv, [GeoNext]_geoVars PROVE FetchInv'
  BY Zenon
<1>1. ASSUME NEW c \in Callers, NEW s \in Seq(Addresses), Once(s), \A v \in verdicts : v.who # c,
             asked' = [asked EXCEPT ![c] = s], UNCHANGED <<toFetch, requests, verdicts>>
      PROVE  FetchInv'
  <2>1. \A d \in Callers : (d = c /\ asked'[d] = s) \/ (d # c /\ asked'[d] = asked[d])
    BY <1>1, Zenon DEF GeoTypes
  <2>2. \A d \in Callers : Once(asked'[d]) /\ Once(toFetch'[d])
    BY <1>1, <2>1, Zenon DEF FetchInv
  <2>3. \A d \in Callers : \A v \in verdicts : v.who = d => v.ip \notin In(asked'[d])
    BY <1>1, <2>1, Zenon DEF FetchInv
  <2>4. \A d \in Callers, a \in Addresses : Stale(d, a)' = Stale(d, a)
    BY <1>1, Zenon DEF Stale
  <2>5. \A d \in Callers : \A a \in In(toFetch[d]) : Stale(d, a)'
    <3>1. \A d \in Callers : \A a \in In(toFetch[d]) : Stale(d, a)
      BY Zenon DEF FetchInv
    <3>2. \A d, a : Stale(d, a)' <=> Stale(d, a)
      BY <1>1, Zenon DEF Stale
    <3> QED BY <3>1, <3>2, Zenon
  <2>6. \A d \in Callers, a \in Addresses :
          requests[d][a] = IF Stale(d, a)' /\ a \notin In(toFetch[d]) THEN 1 ELSE 0
    <3>1. \A d \in Callers, a \in Addresses :
            requests[d][a] = IF Stale(d, a) /\ a \notin In(toFetch[d]) THEN 1 ELSE 0
      BY Zenon DEF FetchInv
    <3> QED BY <2>4, <3>1, Zenon
  <2>7. toFetch' = toFetch /\ requests' = requests /\ verdicts' = verdicts
    BY <1>1, Zenon
  <2> QED
    <3>1. \A d \in Callers : Once(asked[d])' /\ Once(toFetch[d])'
      BY <2>2, Zenon DEF Once
    <3>2. \A d \in Callers : \A v \in verdicts' : v.who = d => v.ip \notin In(asked[d])'
      BY <2>3, <2>7, Zenon DEF In
    <3>3. \A d \in Callers : In(toFetch[d])' = In(toFetch[d])
      BY <2>7, Zenon DEF In
    <3>4. \A d \in Callers : \A a \in In(toFetch[d])' : Stale(d, a)'
      BY <2>5, <3>3, Zenon
    <3>5. \A d \in Callers, a \in Addresses :
            requests'[d][a] = IF Stale(d, a)' /\ a \notin In(toFetch[d])' THEN 1 ELSE 0
      BY <2>6, <2>7, <3>3, Zenon
    <3> QED BY <3>1, <3>2, <3>4, <3>5, Zenon DEF FetchInv
<1>2. ASSUME NEW c \in Callers, Enrich(c) PROVE FetchInv'
  <2> DEFINE s == [i \in Addresses |-> i]
  <2>1. s \in Seq(Addresses) /\ Once(s)
    BY GeoAssumption DEF Addresses, Once
  <2>2. asked' = [asked EXCEPT ![c] = s] /\ UNCHANGED <<toFetch, requests, verdicts>> /\ \A v \in verdicts : v.who # c
    BY <1>2, Zenon DEF Enrich
  <2> HIDE DEF s
  <2> QED BY <1>1, <2>1, <2>2, Zenon
<1>3. ASSUME NEW c \in Callers, NEW a \in Addresses, LookupOne(c, a) PROVE FetchInv'
  <2>1. <<a>> \in Seq(Addresses) /\ Once(<<a>>)
    BY DEF Once
  <2>2. asked' = [asked EXCEPT ![c] = <<a>>] /\ UNCHANGED <<toFetch, requests, verdicts>> /\ \A v \in verdicts : v.who # c
    BY <1>3, Zenon DEF LookupOne
  <2> QED BY <1>1, <2>1, <2>2, Zenon
<1>4. ASSUME NEW c \in Callers, Lookup(c) PROVE FetchInv'
  <2> DEFINE a == Head(asked[c])
             w == [who |-> c, ip |-> a, age |-> halfDay - entry[a], known |-> entry[a] # Missing,
                   reused |-> Fresh(entry[a])]
  <2>1. /\ asked[c] \in Seq(Addresses) /\ asked[c] # << >> /\ Once(asked[c])
        /\ toFetch[c] \in Seq(Addresses) /\ Once(toFetch[c])
    BY <1>4, Zenon DEF GeoTypes, FetchInv, Lookup
  <2>2. /\ a \in Addresses /\ a \in In(asked[c])
        /\ In(Tail(asked[c])) \subseteq In(asked[c]) /\ a \notin In(Tail(asked[c])) /\ Once(Tail(asked[c]))
    BY <2>1, InTail, Zenon
  <2>3. /\ asked' = [asked EXCEPT ![c] = Tail(asked[c])] /\ verdicts' = verdicts \cup {w}
        /\ toFetch' = [toFetch EXCEPT ![c] = IF Fresh(entry[a]) THEN toFetch[c] ELSE Append(toFetch[c], a)]
        /\ requests' = requests
    BY <1>4, Zenon DEF Lookup
  <2>4. w.who = c /\ w.ip = a /\ w.reused = Fresh(entry[a])
    BY Zenon
  <2> HIDE DEF w, a
  <2>5. ~Stale(c, a) /\ \A v \in verdicts : v.who = c => v.ip # a
    BY <2>2 DEF Stale, FetchInv
  <2>6. a \notin In(toFetch[c])
    BY <2>5, Zenon DEF FetchInv
  <2>7. ASSUME NEW d \in Callers, NEW x \in Addresses
        PROVE  Stale(d, x)' <=> Stale(d, x) \/ (d = c /\ x = a /\ ~Fresh(entry[a]))
    BY <2>3, <2>4, Zenon DEF Stale
  <2>8. ASSUME NEW d \in Callers
        PROVE  /\ Once(asked'[d]) /\ In(asked'[d]) \subseteq In(asked[d])
               /\ d = c => a \notin In(asked'[d])
    <3>1. CASE d = c
      BY <2>2, <2>3, <3>1, Zenon DEF GeoTypes
    <3>2. CASE d # c
      BY <2>3, <3>2, Zenon DEF GeoTypes, FetchInv
    <3> QED BY <3>1, <3>2, Zenon
  <2>9. ASSUME NEW d \in Callers
        PROVE  /\ Once(toFetch'[d])
               /\ In(toFetch'[d]) = In(toFetch[d]) \cup (IF d = c /\ ~Fresh(entry[a]) THEN {a} ELSE {})
    <3>1. CASE d = c /\ ~Fresh(entry[a])
      <4>1. toFetch'[d] = Append(toFetch[c], a)
        BY <2>3, <3>1, Zenon DEF GeoTypes
      <4> QED BY <2>1, <2>2, <2>6, <3>1, <4>1, InAppend
    <3>2. CASE ~(d = c /\ ~Fresh(entry[a]))
      <4>1. toFetch'[d] = toFetch[d]
        BY <2>3, <3>2, Zenon DEF GeoTypes
      <4> QED BY <3>2, <4>1, Zenon DEF FetchInv
    <3> QED BY <3>1, <3>2, Zenon
  <2>10. \A d \in Callers : \A v \in verdicts' : v.who = d => v.ip \notin In(asked'[d])
    <3> SUFFICES ASSUME NEW d \in Callers, NEW v \in verdicts', v.who = d PROVE v.ip \notin In(asked'[d])
      BY Zenon
    <3>1. CASE v \in verdicts
      BY <2>8, <3>1 DEF FetchInv
    <3>2. CASE v = w
      BY <2>4, <2>8, <3>2, Zenon
    <3> QED BY <2>3, <3>1, <3>2, Zenon
  <2>11. ASSUME NEW d \in Callers, NEW x \in In(toFetch'[d]) PROVE Stale(d, x)'
    <3>1. x \in Addresses
      <4>1. In(toFetch[d]) \subseteq Addresses
        BY DEF GeoTypes, In
      <4> QED BY <2>2, <2>9, <4>1, Zenon
    <3>2. CASE x \in In(toFetch[d])
      BY <2>7, <3>1, <3>2, Zenon DEF FetchInv
    <3>3. CASE x \notin In(toFetch[d])
      BY <2>7, <2>9, <3>1, <3>3
    <3> QED BY <3>2, <3>3, Zenon
  <2>12. ASSUME NEW d \in Callers, NEW x \in Addresses
         PROVE  requests'[d][x] = IF Stale(d, x)' /\ x \notin In(toFetch'[d]) THEN 1 ELSE 0
    <3>1. requests'[d][x] = IF Stale(d, x) /\ x \notin In(toFetch[d]) THEN 1 ELSE 0
      BY <2>3, Zenon DEF FetchInv
    <3>2. (Stale(d, x) /\ x \notin In(toFetch[d])) <=> (Stale(d, x)' /\ x \notin In(toFetch'[d]))
      BY <2>5, <2>7, <2>9, Zenon
    <3> QED BY <3>1, <3>2, Zenon
  <2> QED BY <2>8, <2>9, <2>10, <2>11, <2>12, Zenon DEF FetchInv, In, Once
<1>5. ASSUME NEW c \in Callers, FetchBatch(c) PROVE FetchInv'
  <2> DEFINE sent == {toFetch[c][i] : i \in 1..BatchEnd(c)}
             rest == Rest(c)
  <2>1. toFetch[c] \in Seq(Addresses) /\ Once(toFetch[c]) /\ BatchEnd(c) \in Nat
    BY GeoAssumption DEF GeoTypes, FetchInv, BatchEnd
  <2>2. Once(rest) /\ In(rest) = In(toFetch[c]) \ sent /\ sent \subseteq In(toFetch[c])
    BY <2>1, InRest, GeoAssumption, Zenon DEF BatchEnd, Rest
  <2>3. /\ toFetch' = [toFetch EXCEPT ![c] = rest] /\ asked' = asked /\ verdicts' = verdicts
        /\ requests' = [requests EXCEPT ![c] = [a \in Addresses |-> IF a \in sent THEN @[a] + 1 ELSE @[a]]]
    BY <1>5, Zenon DEF FetchBatch
  <2> HIDE DEF sent, rest
  <2>4. ASSUME NEW d \in Callers
        PROVE  /\ Once(toFetch'[d]) /\ In(toFetch'[d]) = In(toFetch[d]) \ (IF d = c THEN sent ELSE {})
               /\ \A x \in Addresses : requests'[d][x] = IF d = c /\ x \in sent THEN requests[d][x] + 1 ELSE requests[d][x]
    <3>1. CASE d = c
      BY <2>2, <2>3, <3>1, Zenon DEF GeoTypes
    <3>2. CASE d # c
      BY <2>3, <3>2 DEF GeoTypes, FetchInv
    <3> QED BY <3>1, <3>2, Zenon
  <2>5. ASSUME NEW d, NEW x PROVE Stale(d, x)' = Stale(d, x)
    BY <2>3, Zenon DEF Stale
  <2>6. ASSUME NEW d \in Callers, NEW x \in In(toFetch'[d]) PROVE Stale(d, x)'
    BY <2>4, <2>5 DEF FetchInv
  <2>7. ASSUME NEW d \in Callers, NEW x \in Addresses
        PROVE  requests'[d][x] = IF Stale(d, x)' /\ x \notin In(toFetch'[d]) THEN 1 ELSE 0
    <3>1. requests[d][x] = IF Stale(d, x) /\ x \notin In(toFetch[d]) THEN 1 ELSE 0
      BY Zenon DEF FetchInv
    <3>2. CASE d = c /\ x \in sent
      <4>1. x \in In(toFetch[d]) /\ Stale(d, x) /\ x \notin In(toFetch'[d])
        BY <2>2, <2>4, <3>2, Zenon DEF FetchInv
      <4> QED BY <2>4, <2>5, <3>1, <3>2, <4>1
    <3>3. CASE ~(d = c /\ x \in sent)
      <4>1. x \in In(toFetch[d]) <=> x \in In(toFetch'[d])
        BY <2>4, <3>3, Zenon
      <4> QED BY <2>4, <2>5, <3>1, <3>3, <4>1, Zenon
    <3> QED BY <3>2, <3>3, Zenon
  <2>8. \A d \in Callers : Once(asked'[d]) /\ \A v \in verdicts' : v.who = d => v.ip \notin In(asked'[d])
    BY <2>3, Zenon DEF FetchInv
  <2> QED BY <2>4, <2>6, <2>7, <2>8, Zenon DEF FetchInv, In, Once
<1>6. ASSUME UNCHANGED <<asked, toFetch, requests, verdicts>> PROVE FetchInv'
  <2>1. asked' = asked /\ toFetch' = toFetch /\ requests' = requests /\ verdicts' = verdicts
    BY <1>6, Zenon
  <2> QED BY ONLY FetchInv, <2>1 DEF FetchInv, Stale, In, Once
<1>7. ASSUME NEW c \in Callers, Upsert(c) PROVE FetchInv'
  BY <1>6, <1>7, Zenon DEF Upsert
<1>8. CASE HalfDayPasses
  BY <1>6, <1>8, Zenon DEF HalfDayPasses
<1>9. CASE UNCHANGED geoVars
  BY <1>6, <1>9, Zenon DEF geoVars
<1> QED BY <1>2, <1>3, <1>4, <1>5, <1>7, <1>8, <1>9, Zenon DEF GeoNext

LEMMA AgeStep == GeoTypes /\ FetchInv /\ AgeInv /\ [GeoNext]_geoVars => AgeInv'
<1> SUFFICES ASSUME GeoTypes, FetchInv, AgeInv, [GeoNext]_geoVars PROVE AgeInv'
  BY Zenon
<1>1. ASSUME NEW c \in Callers, Lookup(c) PROVE AgeInv'
  <2> DEFINE a == Head(asked[c])
             w == [who |-> c, ip |-> a, age |-> halfDay - entry[a], known |-> entry[a] # Missing,
                   reused |-> Fresh(entry[a])]
  <2>1. a \in Addresses
    BY <1>1, InTail, Zenon DEF GeoTypes, FetchInv, Lookup
  <2>2. verdicts' = verdicts \cup {w} /\ UNCHANGED <<halfDay, entry>>
    BY <1>1, Zenon DEF Lookup
  <2>3. w.age = halfDay - entry[a] /\ w.known = (entry[a] # Missing) /\ w.reused = Fresh(entry[a])
    BY Zenon
  <2> HIDE DEF w, a
  <2>4. PICK t \in Nat, h \in Nat : t = entry[a] /\ h = halfDay /\ t <= h
    BY <2>1, Zenon DEF GeoTypes, AgeInv
  <2>5. FreshDays \in Nat
    BY GeoAssumption, Zenon
  <2>6. /\ Day(t) \in Nat /\ 2 * Day(t) <= t /\ t <= 2 * Day(t) + 1
        /\ Day(h) \in Nat /\ 2 * Day(h) <= h /\ h <= 2 * Day(h) + 1
    BY DayHalves, Zenon
  <2>7. Fresh(t) <=> t # Missing /\ Day(t) + FreshDays >= Day(h)
    BY <2>4, Zenon DEF Fresh
  <2>8. t # Missing => (Fresh(t) => h - t < 2 * FreshDays + 2) /\ (h - t < 2 * FreshDays => Fresh(t))
    <3>1. Day(t) + FreshDays >= Day(h) => h - t < 2 * FreshDays + 2
      BY ONLY <2>5, <2>6, t \in Nat, h \in Nat
    <3>2. h - t < 2 * FreshDays => Day(t) + FreshDays >= Day(h)
      BY ONLY <2>5, <2>6, t \in Nat, h \in Nat
    <3> QED BY <2>7, <3>1, <3>2, Zenon
  <2>9. w.known => (w.reused => w.age < 2 * FreshDays + 2) /\ (w.age < 2 * FreshDays => w.reused)
    BY <2>3, <2>4, <2>8, Zenon
  <2> QED BY <2>2, <2>9, Zenon DEF AgeInv, ReusedWhileFresh
<1>2. ASSUME NEW c \in Callers, Upsert(c) PROVE AgeInv'
  <2>1. verdicts' = verdicts /\ halfDay' = halfDay /\ \A a \in Addresses : entry'[a] = entry[a] \/ entry'[a] = halfDay
    BY <1>2, Zenon DEF Upsert, GeoTypes
  <2>2. \A a \in Addresses : entry'[a] <= halfDay
    <3>1. halfDay \in Nat /\ halfDay <= halfDay /\ \A a \in Addresses : entry[a] <= halfDay
      BY DEF GeoTypes, AgeInv
    <3> QED BY <2>1, <3>1, Zenon
  <2> QED BY <2>1, <2>2, Zenon DEF AgeInv, ReusedWhileFresh
<1>3. CASE HalfDayPasses
  <2>1. verdicts' = verdicts /\ entry' = entry /\ halfDay' = halfDay + 1
    BY <1>3, Zenon DEF HalfDayPasses
  <2>2. \A a \in Addresses : entry'[a] <= halfDay'
    BY <2>1 DEF GeoTypes, AgeInv
  <2> QED BY <2>1, <2>2, Zenon DEF AgeInv, ReusedWhileFresh
<1>4. ASSUME UNCHANGED <<verdicts, entry, halfDay>> PROVE AgeInv'
  BY <1>4, Zenon DEF AgeInv, ReusedWhileFresh
<1>5. ASSUME NEW c \in Callers, Enrich(c) \/ FetchBatch(c) PROVE AgeInv'
  BY <1>4, <1>5, Zenon DEF Enrich, FetchBatch
<1>6. ASSUME NEW c \in Callers, NEW a \in Addresses, LookupOne(c, a) PROVE AgeInv'
  BY <1>4, <1>6, Zenon DEF LookupOne
<1>7. CASE UNCHANGED geoVars
  BY <1>4, <1>7, Zenon DEF geoVars
<1> QED BY <1>1, <1>2, <1>3, <1>5, <1>6, <1>7, Zenon DEF GeoNext

(* A caller asks the service for exactly the addresses without a fresh      *)
(* entry, once each, for any number of callers and addresses and any size   *)
(* of batch; and an entry is fresh for the days it is meant to be, give or  *)
(* take the day that comparing by the day costs.                            *)
THEOREM EnrichmentFetches == GeoSpec => []FetchedIfStale
<1>1. GeoInit => GeoTypes /\ FetchInv /\ AgeInv
  <2> SUFFICES ASSUME GeoInit PROVE GeoTypes /\ FetchInv /\ AgeInv
    BY Zenon
  <2>1. GeoTypes
    BY DEF GeoInit, GeoTypes, Missing
  <2>2. FetchInv
    BY DEF GeoInit, FetchInv, Once, In, Stale
  <2>3. AgeInv
    BY DEF GeoInit, AgeInv, ReusedWhileFresh, Missing
  <2> QED BY <2>1, <2>2, <2>3, Zenon
<1>2. GeoTypes /\ FetchInv /\ AgeInv => FetchedIfStale
  <2> SUFFICES ASSUME GeoTypes, FetchInv, AgeInv PROVE FetchedOnce
    BY Zenon DEF FetchedIfStale, AgeInv
  <2>1. In(<< >>) = {}
    BY DEF In
  <2> QED BY <2>1, Zenon DEF FetchedOnce, FetchInv
<1> QED BY <1>1, <1>2, GeoTypesStep, FetchStep, AgeStep, PTL DEF GeoSpec

(***************************************************************************)
(* WSHub.                                                                  *)
(***************************************************************************)

(* The type invariant holds in every reachable state; in particular no      *)
(* Client.send ever holds more than its capacity.                           *)
THEOREM HubTypeCorrect == Spec => []TypeOK
<1>1. Init => TypeOK
  BY HubConstants DEF Init, TypeOK
<1>2. ASSUME TypeOK, [Next]_vars PROVE TypeOK'
  <2> USE <1>2 DEF TypeOK
  <2>1. CASE Broadcast
    BY <2>1 DEF Broadcast
  <2>2. CASE Deliver
    <3>1. Head(broadcast) \in Nat /\ Tail(broadcast) \in Seq(Nat)
      BY <2>2 DEF Deliver
    <3>2. ASSUME NEW c \in Clients
          PROVE  send'[c] \in Seq(Nat) /\ Len(send'[c]) <= SendCap /\ closes'[c] \in Nat
      <4>1. CASE c \in clients \ Full
        <5>1. send'[c] = Append(send[c], Head(broadcast)) /\ closes'[c] = closes[c]
          BY <2>2, <4>1, Zenon DEF Deliver
        <5>2. SendCap \in Nat /\ Len(send[c]) \in Nat
          BY HubConstants
        <5>3. Len(send[c]) < SendCap
          BY <4>1, <5>2 DEF Full
        <5> QED BY <3>1, <5>1, <5>2, <5>3
      <4>2. CASE c \notin clients \ Full
        BY <2>2, <4>2 DEF Deliver
      <4> QED BY <4>1, <4>2, Zenon
    <3>3. send' \in [Clients -> Seq(Nat)] /\ closes' \in [Clients -> Nat]
      <4>1. send' = [c \in Clients |-> send'[c]] /\ closes' = [c \in Clients |-> closes'[c]]
        BY <2>2, Zenon DEF Deliver
      <4> QED BY <3>2, <4>1, Zenon
    <3> QED BY <2>2, <3>1, <3>2, <3>3, Zenon DEF Deliver
  <2>3. ASSUME NEW c \in Clients, Register(c) \/ Unregister(c) PROVE TypeOK'
    <3>1. CASE Register(c)
      BY <3>1, Zenon DEF Register
    <3>2. CASE Unregister(c)
      <4>1. closes' \in [Clients -> Nat]
        BY <3>2 DEF Unregister
      <4> QED BY <3>2, <4>1, Zenon DEF Unregister
    <3> QED BY <2>3, <3>1, <3>2, Zenon
  <2>4. ASSUME NEW c \in Clients, Upgrade(c) \/ Break(c) PROVE TypeOK'
    BY <2>4, Zenon DEF Upgrade, Break
  <2>5. ASSUME NEW c \in Clients, ReadPump(c) PROVE TypeOK'
    BY <2>5, Zenon DEF ReadPump, ReadError, ReadClose
  <2>6. ASSUME NEW c \in Clients, WriteClose(c) \/ PingError(c) PROVE TypeOK'
    BY <2>6, Zenon DEF WriteClose, PingError, WriteEnds
  <2>7. ASSUME NEW c \in Clients, WriteMessage(c) \/ WriteError(c) PROVE TypeOK'
    <3>1. /\ Head(send[c]) \in Nat /\ Tail(send[c]) \in Seq(Nat)
          /\ Len(Tail(send[c])) <= SendCap /\ Append(written[c], Head(send[c])) \in Seq(Nat)
      <4>1. SendCap \in Nat /\ send[c] \in Seq(Nat) /\ send[c] # << >> /\ Len(send[c]) <= SendCap
        BY <2>7, HubConstants, Zenon DEF WriteMessage, WriteError
      <4>2. Head(send[c]) \in Nat /\ Tail(send[c]) \in Seq(Nat) /\ Len(Tail(send[c])) = Len(send[c]) - 1
        BY <4>1
      <4> QED BY <4>1, <4>2
    <3>2. send' = [send EXCEPT ![c] = Tail(@)]
      BY <2>7, Zenon DEF WriteMessage, WriteError
    <3>3. /\ send' \in [Clients -> Seq(Nat)]
          /\ \A d \in Clients : Len(send'[d]) <= SendCap
      BY <3>1, <3>2, Zenon
    <3>4. written' \in [Clients -> Seq(Nat)]
      BY <2>7, <3>1, Zenon DEF WriteMessage, WriteError
    <3> QED BY <2>7, <3>3, <3>4, Zenon DEF WriteMessage, WriteError, WriteEnds
  <2>8. CASE UNCHANGED vars
    BY <2>8, Zenon DEF vars
  <2> QED
    BY <1>2, <2>1, <2>2, <2>3, <2>4, <2>5, <2>6, <2>7, <2>8, Zenon DEF Next, Hub, WritePump
<1> QED BY <1>1, <1>2, PTL DEF Spec

-----------------------------------------------------------------------------
(* Client.send is closed only once the client was registered, and then the  *)
(* client is gone for good.                                                 *)
CloseInv ==
  \A c \in Clients :
    /\ closes[c] \in {0, 1}
    /\ c \in clients => closes[c] = 0 /\ hpc[c] = "done"
    /\ closes[c] = 1 => hpc[c] = "done"

(* The hub neither sends on a closed channel nor closes one twice.          *)
THEOREM HubIsSafe == Spec => []SendOpen
<1>1. Init => CloseInv
  BY DEF Init, CloseInv
<1>2. ASSUME TypeOK, CloseInv, [Next]_vars PROVE CloseInv'
  <2> USE <1>2 DEF TypeOK, CloseInv
  <2>1. ASSUME UNCHANGED <<clients, closes, hpc>> PROVE CloseInv'
    BY <2>1, Zenon
  <2>2. CASE Deliver
    BY <2>2 DEF Deliver, Full
  <2>3. ASSUME NEW c \in Clients, Register(c) PROVE CloseInv'
    BY <2>3, Zenon DEF Register
  <2>4. ASSUME NEW c \in Clients, Unregister(c) PROVE CloseInv'
    <3>1. CASE c \in clients
      BY <2>4, <3>1 DEF Unregister
    <3>2. CASE c \notin clients
      BY <2>4, <3>2, Zenon DEF Unregister
    <3> QED BY <3>1, <3>2, Zenon
  <2>5. ASSUME NEW c \in Clients, Upgrade(c) PROVE CloseInv'
    BY <2>5, Zenon DEF Upgrade
  <2>6. ASSUME NEW c \in Clients, Break(c) \/ ReadPump(c) \/ WritePump(c) PROVE CloseInv'
    BY <2>1, <2>6, Zenon DEF Break, ReadPump, ReadError, ReadClose, WritePump, WriteMessage, WriteError,
        WriteClose, PingError
  <2>7. CASE Broadcast \/ UNCHANGED vars
    BY <2>1, <2>7, Zenon DEF Broadcast, vars
  <2> QED BY <1>2, <2>2, <2>3, <2>4, <2>5, <2>6, <2>7, Zenon DEF Next, Hub
<1>3. CloseInv => SendOpen
  BY DEF CloseInv, SendOpen
<1> QED BY <1>1, <1>2, <1>3, HubTypeCorrect, PTL DEF Spec

-----------------------------------------------------------------------------
(* What a client has queued is an unbroken run that continues what was      *)
(* written to it and, while the hub knows it, ends with the last message    *)
(* delivered; the broadcast channel continues from there.                   *)
StreamInv ==
  /\ \A i \in 1 .. Len(broadcast) : broadcast[i] = delivered + i
  /\ accepted = delivered + Len(broadcast)
  /\ \A c \in Clients :
       /\ Consecutive(written[c]) /\ Consecutive(send[c])
       /\ hpc[c] # "done" => c \notin clients /\ written[c] = << >> /\ send[c] = << >>
       /\ c \in clients /\ send[c] # << >> => send[c][Len(send[c])] = delivered
       /\ wpc[c] = "select" /\ written[c] # << >> =>
            LET w == written[c][Len(written[c])] IN
            /\ send[c] # << >> => send[c][1] = w + 1
            /\ c \in clients /\ send[c] = << >> => w = delivered

LEMMA AppendFacts ==
  ASSUME NEW s \in Seq(Nat), NEW n \in Nat
  PROVE  /\ Append(s, n) \in Seq(Nat) /\ Append(s, n) # << >>
         /\ Len(Append(s, n)) = Len(s) + 1 /\ Append(s, n)[Len(Append(s, n))] = n
         /\ \A i \in 1 .. Len(s) : Append(s, n)[i] = s[i]
         /\ Append(s, n)[1] = IF s = << >> THEN n ELSE s[1]
OBVIOUS

LEMMA EmptyLen ==
  ASSUME NEW s \in Seq(Nat)
  PROVE  s = << >> <=> Len(s) = 0
OBVIOUS

LEMMA TailFacts ==
  ASSUME NEW s \in Seq(Nat), s # << >>
  PROVE  /\ Tail(s) \in Seq(Nat) /\ Len(Tail(s)) = Len(s) - 1
         /\ Head(s) = s[1] /\ s[1] \in Nat /\ Len(s) \in Nat \ {0}
         /\ \A i \in 1 .. Len(s) - 1 : Tail(s)[i] = s[i + 1]
         /\ Tail(s) = << >> => Len(s) = 1
         /\ Tail(s) # << >> =>
              /\ 1 \in 1 .. Len(s) - 1
              /\ Tail(s)[1] = s[2] /\ Tail(s)[Len(Tail(s))] = s[Len(s)]
<1>1. Len(s) \in Nat \ {0} /\ Head(s) = s[1] /\ s[1] \in Nat
  OBVIOUS
<1>2. Tail(s) \in Seq(Nat) /\ Len(Tail(s)) = Len(s) - 1
  OBVIOUS
<1>3. \A i \in 1 .. Len(s) - 1 : Tail(s)[i] = s[i + 1]
  BY <1>1
<1>4. Tail(s) = << >> <=> Len(Tail(s)) = 0
  BY <1>2, EmptyLen, Zenon
<1>5. ASSUME Tail(s) # << >>
      PROVE  1 \in 1 .. Len(s) - 1 /\ Tail(s)[1] = s[2] /\ Tail(s)[Len(Tail(s))] = s[Len(s)]
  <2>1. 1 \in 1 .. Len(s) - 1 /\ Len(s) - 1 \in 1 .. Len(s) - 1
    BY <1>1, <1>2, <1>4, <1>5
  <2> QED BY <1>1, <1>2, <1>3, <2>1
<1> QED BY <1>1, <1>2, <1>3, <1>4, <1>5

LEMMA ConsecutiveAppend ==
  ASSUME NEW s \in Seq(Nat), NEW n \in Nat, Consecutive(s),
         s # << >> => n = s[Len(s)] + 1
  PROVE  Consecutive(Append(s, n))
<1> DEFINE t == Append(s, n)
<1>1. Len(t) = Len(s) + 1 /\ t[Len(t)] = n /\ \A i \in 1 .. Len(s) : t[i] = s[i]
  OBVIOUS
<1>2. ASSUME NEW i \in 1 .. Len(t) - 1 PROVE t[i + 1] = t[i] + 1
  <2>1. CASE i = Len(s)
    BY <1>1, <2>1
  <2>2. CASE i # Len(s)
    BY <1>1, <2>2 DEF Consecutive
  <2> QED BY <2>1, <2>2, Zenon
<1> QED BY <1>2, Zenon DEF Consecutive

LEMMA ConsecutiveTail ==
  ASSUME NEW s \in Seq(Nat), s # << >>, Consecutive(s)
  PROVE  Consecutive(Tail(s))
BY DEF Consecutive

LEMMA ConcatLast ==
  ASSUME NEW s \in Seq(Nat), NEW t \in Seq(Nat), t # << >>
  PROVE  (s \o t)[Len(s \o t)] = t[Len(t)]
<1>1. Len(s \o t) = Len(s) + Len(t) /\ Len(s) \in Nat /\ Len(t) \in Nat \ {0}
  OBVIOUS
<1>2. Len(s) + Len(t) \in 1 .. Len(s) + Len(t) /\ ~ (Len(s) + Len(t) <= Len(s))
  BY <1>1
<1> QED BY <1>1, <1>2

LEMMA ConsecutiveConcat ==
  ASSUME NEW s \in Seq(Nat), NEW t \in Seq(Nat), Consecutive(s), Consecutive(t),
         s # << >> /\ t # << >> => t[1] = s[Len(s)] + 1
  PROVE  Consecutive(s \o t)
<1>1. /\ Len(s \o t) = Len(s) + Len(t)
      /\ \A i \in 1 .. Len(s) + Len(t) : (s \o t)[i] = IF i <= Len(s) THEN s[i] ELSE t[i - Len(s)]
  OBVIOUS
<1>2. ASSUME NEW i \in 1 .. Len(s) + Len(t) - 1 PROVE (s \o t)[i + 1] = (s \o t)[i] + 1
  <2>1. CASE i < Len(s)
    BY <1>1, <2>1 DEF Consecutive
  <2>2. CASE i = Len(s)
    BY <1>1, <2>2
  <2>3. CASE i > Len(s)
    BY <1>1, <2>3 DEF Consecutive
  <2> QED BY <2>1, <2>2, <2>3
<1> QED BY <1>1, <1>2 DEF Consecutive

(* The hub never skips a client: what is written to a connection has no gap, *)
(* and what a registered client was sent reaches up to the last message the  *)
(* hub took from its channel, whatever the capacities and however evictions, *)
(* registrations and the pumps interleave.                                   *)
THEOREM StreamIsUnbroken == Spec => [](NoGap /\ UpToDate)
<1>1. Init => StreamInv
  BY DEF Init, StreamInv, Consecutive
<1>2. ASSUME TypeOK, TypeOK', StreamInv, [Next]_vars PROVE StreamInv'
  <2> USE <1>2 DEF TypeOK
  <2> DEFINE Ahead == /\ \A i \in 1 .. Len(broadcast) : broadcast[i] = delivered + i
                      /\ accepted = delivered + Len(broadcast)
             Own(c) ==
               /\ Consecutive(written[c]) /\ Consecutive(send[c])
               /\ hpc[c] # "done" => c \notin clients /\ written[c] = << >> /\ send[c] = << >>
               /\ c \in clients /\ send[c] # << >> => send[c][Len(send[c])] = delivered
               /\ wpc[c] = "select" /\ written[c] # << >> =>
                    LET w == written[c][Len(written[c])] IN
                    /\ send[c] # << >> => send[c][1] = w + 1
                    /\ c \in clients /\ send[c] = << >> => w = delivered
  <2>1. Ahead /\ \A c \in Clients : Own(c)
    BY Zenon DEF StreamInv
  <2>2. SUFFICES Ahead' /\ \A c \in Clients : Own(c)'
    BY Zenon DEF StreamInv
  <2>3. ASSUME UNCHANGED <<broadcast, delivered, accepted>> PROVE Ahead'
    BY <2>1, <2>3, Zenon
  <2>4. ASSUME NEW c \in Clients, written'[c] = written[c], send'[c] = send[c],
               UNCHANGED <<hpc, delivered>>, c \in clients' => c \in clients,
               wpc'[c] = "select" => wpc[c] = "select"
        PROVE  Own(c)'
    BY <2>1, <2>4, Zenon
  <2> HIDE DEF Ahead, Own
  <2>5. CASE Broadcast
    <3>1. Ahead'
      <4>1. broadcast' = Append(broadcast, accepted + 1) /\ accepted' = accepted + 1 /\ delivered' = delivered
        BY <2>5, Zenon DEF Broadcast
      <4>2. /\ Len(broadcast') = Len(broadcast) + 1 /\ broadcast'[Len(broadcast')] = accepted + 1
            /\ \A i \in 1 .. Len(broadcast) : broadcast'[i] = broadcast[i]
        BY <4>1, AppendFacts
      <4>3. ASSUME NEW i \in 1 .. Len(broadcast') PROVE broadcast'[i] = delivered' + i
        <5>1. CASE i = Len(broadcast')
          BY <2>1, <4>1, <4>2, <5>1 DEF Ahead
        <5>2. CASE i # Len(broadcast')
          <6>1. i \in 1 .. Len(broadcast)
            BY <4>2, <5>2
          <6> QED BY <2>1, <4>1, <4>2, <6>1, Zenon DEF Ahead
        <5> QED BY <5>1, <5>2, Zenon
      <4> QED BY <2>1, <4>1, <4>2, <4>3 DEF Ahead
    <3> QED BY <2>4, <2>5, <3>1, Zenon DEF Broadcast
  <2>6. CASE Deliver
    <3>1. Head(broadcast) = delivered + 1 /\ delivered' = delivered + 1
      BY <2>1, <2>6 DEF Deliver, Ahead
    <3>2. Ahead'
      <4>1. /\ Len(broadcast') = Len(broadcast) - 1 /\ accepted' = accepted
            /\ \A i \in 1 .. Len(broadcast) - 1 : broadcast'[i] = broadcast[i + 1]
        BY <2>6, TailFacts DEF Deliver
      <4>2. Len(broadcast) \in Nat
        OBVIOUS
      <4>3. ASSUME NEW i \in 1 .. Len(broadcast') PROVE broadcast'[i] = delivered' + i
        <5>1. i \in 1 .. Len(broadcast) - 1 /\ i + 1 \in 1 .. Len(broadcast)
          BY <4>1, <4>2
        <5> QED BY <2>1, <3>1, <4>1, <5>1 DEF Ahead
      <4> QED BY <2>1, <3>1, <4>1, <4>2, <4>3 DEF Ahead
    <3>3. ASSUME NEW c \in Clients PROVE Own(c)'
      <4>1. CASE c \in clients \ Full
        <5>1. /\ send'[c] = Append(send[c], delivered + 1) /\ send'[c] # << >>
              /\ send'[c][Len(send'[c])] = delivered'
              /\ send'[c][1] = IF send[c] = << >> THEN delivered + 1 ELSE send[c][1]
          <6>1. send'[c] = Append(send[c], delivered + 1)
            BY <2>6, <3>1, <4>1, Zenon DEF Deliver
          <6>2. send[c] \in Seq(Nat) /\ delivered + 1 \in Nat
            OBVIOUS
          <6> DEFINE t == Append(send[c], delivered + 1)
          <6>3. /\ t # << >> /\ t[Len(t)] = delivered + 1
                /\ t[1] = IF send[c] = << >> THEN delivered + 1 ELSE send[c][1]
            BY <6>2, AppendFacts, ZenonT(30)
          <6> QED BY <3>1, <6>1, <6>3, Zenon
        <5>2. Consecutive(send'[c])
          <6>1. send[c] \in Seq(Nat) /\ delivered + 1 \in Nat
            OBVIOUS
          <6>2. Consecutive(send[c]) /\ (send[c] # << >> => delivered + 1 = send[c][Len(send[c])] + 1)
            BY <2>1, <4>1, Zenon DEF Own
          <6> QED BY <5>1, <6>1, <6>2, ConsecutiveAppend, SMTT(30)
        <5>3. hpc'[c] = "done" /\ UNCHANGED <<wpc, hpc, written>>
          BY <2>1, <2>6, <4>1, Zenon DEF Deliver, Own
        <5> QED BY <2>1, <4>1, <5>1, <5>2, <5>3, Zenon DEF Own
      <4>2. CASE c \notin clients \ Full
        <5>1. c \notin clients' /\ UNCHANGED <<wpc, hpc, written>> /\ send'[c] = send[c]
          BY <2>6, <4>2, Zenon DEF Deliver
        <5> QED BY <2>1, <5>1, Zenon DEF Own
      <4> QED BY <4>1, <4>2, Zenon
    <3> QED BY <3>2, <3>3, Zenon
  <2>7. ASSUME NEW c \in Clients, WriteMessage(c) PROVE Ahead' /\ \A d \in Clients : Own(d)'
    <3>1. Ahead'
      BY <2>3, <2>7, Zenon DEF WriteMessage
    <3>2. ASSUME NEW d \in Clients, d # c PROVE Own(d)'
      BY <2>4, <2>7, <3>2, Zenon DEF WriteMessage
    <3>3. Own(c)'
      <4>1. /\ send[c] \in Seq(Nat) /\ send[c] # << >> /\ wpc[c] = "select"
            /\ send'[c] = Tail(send[c]) /\ written'[c] = Append(written[c], send[c][1])
            /\ UNCHANGED <<clients, delivered, hpc, wpc>>
        BY <2>7, TailFacts, Zenon DEF WriteMessage
      <4>2. written'[c] # << >> /\ written'[c][Len(written'[c])] = send[c][1] /\ send[c][1] \in Nat
        <5>1. written[c] \in Seq(Nat) /\ send[c][1] \in Nat
          <6>1. written[c] \in Seq(Nat)
            BY Zenon
          <6> QED BY <4>1, <6>1, TailFacts, Zenon
        <5>2. PICK n \in Nat : n = send[c][1]
          BY <5>1, Zenon
        <5>3. Append(written[c], n) # << >> /\ Append(written[c], n)[Len(Append(written[c], n))] = n
          BY <5>1, AppendFacts, ZenonT(30)
        <5> QED BY <4>1, <5>1, <5>2, <5>3, Zenon
      <4>3. Consecutive(written'[c]) /\ Consecutive(send'[c])
        <5>1. /\ written[c] \in Seq(Nat) /\ Consecutive(written[c]) /\ Consecutive(send[c])
              /\ written[c] # << >> => send[c][1] = written[c][Len(written[c])] + 1
          BY <2>1, <4>1, Zenon DEF Own
        <5>2. Consecutive(Append(written[c], send[c][1]))
          BY <4>2, <5>1, ConsecutiveAppend, Zenon
        <5>3. Consecutive(Tail(send[c]))
          BY <4>1, <5>1, ConsecutiveTail, Zenon
        <5> QED BY <4>1, <5>2, <5>3, Zenon
      <4>4. ASSUME send'[c] # << >>
            PROVE  send'[c][1] = send[c][1] + 1 /\ send'[c][Len(send'[c])] = send[c][Len(send[c])]
        <5>1. Tail(send[c]) # << >>
          BY <4>1, <4>4, Zenon
        <5>2. /\ 1 \in 1 .. Len(send[c]) - 1
              /\ Tail(send[c])[1] = send[c][2]
              /\ Tail(send[c])[Len(Tail(send[c]))] = send[c][Len(send[c])]
          BY <4>1, <5>1, TailFacts, Zenon
        <5>3. send[c][2] = send[c][1] + 1
          BY <2>1, <5>2 DEF Own, Consecutive
        <5> QED BY <4>1, <5>2, <5>3, Zenon
      <4>5. ASSUME send'[c] = << >> PROVE Len(send[c]) = 1
        BY <4>1, <4>5, TailFacts, Zenon
      <4>6. hpc[c] = "done"
        BY <2>1, <4>1, Zenon DEF Own
      <4> QED BY <2>1, <4>1, <4>2, <4>3, <4>4, <4>5, <4>6, Zenon DEF Own
    <3> QED BY <3>1, <3>2, <3>3, Zenon
  <2>8. ASSUME NEW c \in Clients, WriteError(c) PROVE Ahead' /\ \A d \in Clients : Own(d)'
    <3>1. Ahead'
      BY <2>3, <2>8, Zenon DEF WriteError
    <3>2. ASSUME NEW d \in Clients, d # c PROVE Own(d)'
      BY <2>4, <2>8, <3>2 DEF WriteError, WriteEnds
    <3>3. Own(c)'
      <4>1. /\ send[c] \in Seq(Nat) /\ send[c] # << >> /\ wpc'[c] = "done"
            /\ send'[c] = Tail(send[c]) /\ UNCHANGED <<clients, delivered, hpc, written>>
        BY <2>8, Zenon DEF WriteError, WriteEnds
      <4>2. Consecutive(send'[c])
        BY <2>1, <4>1, ConsecutiveTail, Zenon DEF Own
      <4>3. send'[c] # << >> => send'[c][Len(send'[c])] = send[c][Len(send[c])]
        BY <4>1, TailFacts, Zenon
      <4>4. hpc[c] = "done"
        BY <2>1, <4>1, Zenon DEF Own
      <4> QED BY <2>1, <4>1, <4>2, <4>3, <4>4, Zenon DEF Own
    <3> QED BY <3>1, <3>2, <3>3, Zenon
  <2>9. ASSUME NEW c \in Clients, Register(c) PROVE Ahead' /\ \A d \in Clients : Own(d)'
    <3>1. Ahead'
      BY <2>3, <2>9, Zenon DEF Register
    <3>2. ASSUME NEW d \in Clients, d # c PROVE Own(d)'
      BY <2>1, <2>9, <3>2 DEF Register, Own
    <3>3. Own(c)'
      BY <2>1, <2>9, Zenon DEF Register, Own
    <3> QED BY <3>1, <3>2, <3>3, Zenon
  <2>10. ASSUME NEW c \in Clients, Upgrade(c) PROVE Ahead' /\ \A d \in Clients : Own(d)'
    <3>1. Ahead'
      BY <2>3, <2>10, Zenon DEF Upgrade
    <3>2. ASSUME NEW d \in Clients PROVE Own(d)'
      BY <2>1, <2>10, Zenon DEF Upgrade, Own
    <3> QED BY <3>1, <3>2, Zenon
  <2>11. ASSUME NEW c \in Clients,
                Unregister(c) \/ Break(c) \/ ReadPump(c) \/ WriteClose(c) \/ PingError(c)
         PROVE  Ahead' /\ \A d \in Clients : Own(d)'
    <3>1. Ahead'
      BY <2>3, <2>11, Zenon DEF Unregister, Break, ReadPump, ReadError, ReadClose, WriteClose, PingError
    <3>2. ASSUME NEW d \in Clients PROVE Own(d)'
      BY <2>4, <2>11, Zenon DEF Unregister, Break, ReadPump, ReadError, ReadClose, WriteClose, PingError,
          WriteEnds
    <3> QED BY <3>1, <3>2, Zenon
  <2>12. CASE UNCHANGED vars
    BY <2>3, <2>4, <2>12, Zenon DEF vars
  <2> QED
    BY <1>2, <2>5, <2>6, <2>7, <2>8, <2>9, <2>10, <2>11, <2>12, Zenon DEF Next, Hub, WritePump
<1>3. TypeOK /\ StreamInv => NoGap /\ UpToDate
  <2> SUFFICES ASSUME TypeOK, StreamInv PROVE NoGap /\ UpToDate
    BY Zenon
  <2>1. NoGap
    BY Zenon DEF StreamInv, NoGap
  <2>2. ASSUME NEW c \in clients, wpc[c] = "select", written[c] \o send[c] # << >>
        PROVE  LET s == written[c] \o send[c] IN s[Len(s)] = delivered /\ Consecutive(s)
    <3> DEFINE s == written[c] \o send[c]
    <3>1. c \in Clients /\ written[c] \in Seq(Nat) /\ send[c] \in Seq(Nat)
      BY Zenon DEF TypeOK
    <3>2. Consecutive(s)
      BY <2>2, <3>1, ConsecutiveConcat, Zenon DEF StreamInv
    <3>3. s[Len(s)] = delivered
      <4>1. CASE send[c] = << >>
        BY <2>2, <3>1, <4>1 DEF StreamInv
      <4>2. CASE send[c] # << >>
        <5>1. s[Len(s)] = send[c][Len(send[c])]
          BY <3>1, <4>2, ConcatLast, Zenon
        <5> QED BY <3>1, <4>2, <5>1, Zenon DEF StreamInv
      <4> QED BY <4>1, <4>2, Zenon
    <3> QED BY <3>2, <3>3, Zenon
  <2> QED BY <2>1, <2>2, Zenon DEF UpToDate
<1> QED BY <1>1, <1>2, <1>3, HubTypeCorrect, PTL DEF Spec
=============================================================================

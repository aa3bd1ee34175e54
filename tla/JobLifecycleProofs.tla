------------------------ MODULE JobLifecycleProofs ------------------------
(* Proofs about JobLifecycle, for any number of jobs, requests, executions *)
(* and restarts.                                                           *)
EXTENDS JobLifecycle, TLAPS

USE DEF modes, db, exec, handlers

Row == Runs \X (1..FlowRows)

LEMMA RowsType ==
  ASSUME TypeOK, NEW k \in Runs, NEW t \in Tables
  PROVE  Rows(k, t) \subseteq Row
BY JobConstants DEF TypeOK, Rows, Row, Runs

LEMMA InsertedType ==
  ASSUME TypeOK, NEW k \in Runs, NEW t \in Tables, job[k] \in Jobs
  PROVE  Inserted(k, t) \subseteq Row
<1>1. data[job[k]][t] \subseteq Row
  BY DEF TypeOK, Row
<1>2. CASE t = "telecom"
  BY <1>2, RowsType, Zenon DEF Inserted
<1>3. CASE t = "calls"
  BY <1>1, <1>3, RowsType, Zenon DEF Inserted
<1>4. CASE t \notin {"telecom", "calls"}
  BY <1>1, <1>4, RowsType, Zenon DEF Inserted
<1> QED BY <1>2, <1>3, <1>4, Zenon

LEMMA StoreType ==
  ASSUME TypeOK, NEW k \in Runs, NEW t \in Tables,
         Commits(k, t, Inserted(k, t)) \/ Aborts(k, t)
  PROVE  data' \in [Jobs -> [Tables -> SUBSET Row]]
<1> DEFINE rs == Inserted(k, t)
<1>1. data \in [Jobs -> [Tables -> SUBSET Row]]
  BY Zenon DEF TypeOK, Row
<1>2. CASE Aborts(k, t) \/ t \notin found[k]
  BY <1>1, <1>2, Zenon DEF Aborts, Commits
<1>3. CASE Commits(k, t, rs) /\ t \in found[k] /\ job[k] \in Jobs
  <2>1. rs \in SUBSET Row
    BY <1>3, InsertedType, Zenon
  <2> HIDE DEF rs
  <2> QED BY <1>1, <1>3, <2>1, Zenon DEF Commits
<1>4. CASE Commits(k, t, rs) /\ t \in found[k] /\ job[k] \notin Jobs
  <2> HIDE DEF rs
  <2> QED BY <1>1, <1>4, Zenon DEF Commits
<1> QED BY <1>2, <1>3, <1>4, Zenon

(* A handler has a job exactly while it serves a request. *)
HandlerInv == \A h \in Requests : hpc[h] = "idle" <=> hjob[h] = None

(* The type invariant holds in every reachable state; in particular          *)
(* StoreFlows inserts no more than its flows and a handler never runs past   *)
(* the statements of ClearJobData.                                           *)
THEOREM JobTypeCorrect == Spec => [](TypeOK /\ HandlerInv)
<1>1. Init => TypeOK /\ HandlerInv
  BY JobConstants DEF Init, TypeOK, Steps, Present, Runs, ClearOrder, HandlerInv
<1>2. ASSUME TypeOK, HandlerInv, [Next]_vars PROVE TypeOK' /\ HandlerInv'
  <2> USE <1>2, JobConstants
  <2>0. Len(ClearOrder) = 5
    BY Zenon DEF ClearOrder
  <2>1. ASSUME NEW h \in Requests, NEW j \in Jobs, Upload(h, j) PROVE TypeOK' /\ HandlerInv'
    BY <2>1, Zenon DEF TypeOK, HandlerInv, Upload, Present
  <2>2. ASSUME NEW h \in Requests, NEW j \in Jobs, Reprocess(h, j) PROVE TypeOK' /\ HandlerInv'
    BY <2>0, <2>2 DEF TypeOK, HandlerInv, Reprocess
  <2>3. ASSUME NEW h \in Requests, Spawn(h) PROVE TypeOK' /\ HandlerInv'
    BY <2>0, <2>3 DEF TypeOK, HandlerInv, Spawn, Return, Steps, Runs
  <2>4. ASSUME NEW h \in Requests, Clear(h) PROVE TypeOK' /\ HandlerInv'
    <3>1. hjob[h] \in Jobs
      BY <2>4, Zenon DEF TypeOK, HandlerInv, Clear
    <3>2. hpos' \in [Requests -> 0..(Len(ClearOrder) + 1)]
      <4>1. hpos[h] <= Len(ClearOrder) /\ hpos' = [hpos EXCEPT ![h] = @ + 1]
        BY <2>4, Zenon DEF Clear
      <4> QED BY <2>0, <4>1 DEF TypeOK
    <3>3. data' \in [Jobs -> [Tables -> SUBSET (Runs \X (1..FlowRows))]] /\ torn' \subseteq Jobs
      <4> DEFINE t == ClearOrder[hpos[h]]
      <4> HIDE DEF t
      <4>1. CASE data' = [data EXCEPT ![hjob[h]][t] = {}] /\ UNCHANGED torn
        BY <3>1, <4>1, Zenon DEF TypeOK
      <4>2. CASE torn' = torn \cup {hjob[h]} /\ UNCHANGED data
        BY <3>1, <4>2, Zenon DEF TypeOK
      <4> QED BY <2>4, <4>1, <4>2, Zenon DEF Clear, t
    <3> QED BY <2>4, <3>2, <3>3, Zenon DEF TypeOK, HandlerInv, Clear
  <2>5. ASSUME NEW h \in Requests, ResetStatus(h) PROVE TypeOK' /\ HandlerInv'
    <3>1. hjob[h] \in Jobs
      BY <2>5, Zenon DEF TypeOK, HandlerInv, ResetStatus
    <3>2. CASE /\ row' = IF row[hjob[h]] \in Present THEN [row EXCEPT ![hjob[h]] = "running"] ELSE row
               /\ hpc' = [hpc EXCEPT ![h] = "spawn"]
               /\ UNCHANGED <<torn, hjob, hpos>>
      BY <2>0, <2>5, <3>1, <3>2, Zenon DEF TypeOK, HandlerInv, ResetStatus, Present
    <3>3. CASE torn' = torn \cup {hjob[h]} /\ Return(h) /\ UNCHANGED row
      BY <2>0, <2>5, <3>1, <3>3 DEF TypeOK, HandlerInv, ResetStatus, Return
    <3> QED BY <2>5, <3>2, <3>3, Zenon DEF ResetStatus
  <2>6. ASSUME NEW j \in Jobs, Delete(j) PROVE TypeOK' /\ HandlerInv'
    BY <2>6, Zenon DEF TypeOK, HandlerInv, Delete
  <2>7. ASSUME Purge PROVE TypeOK' /\ HandlerInv'
    BY <2>7, Zenon DEF TypeOK, HandlerInv, Purge
  <2>8. ASSUME NEW k \in Runs, Decode(k) PROVE TypeOK' /\ HandlerInv'
    BY <2>8, ZenonT(30) DEF TypeOK, HandlerInv, Decode, Goto, Steps
  <2>9. ASSUME NEW k \in Runs, NEW t \in Tables, NEW s \in Steps, StoreLogged(k, t, s)
        PROVE TypeOK' /\ HandlerInv'
    <3>1. data' \in [Jobs -> [Tables -> SUBSET Row]]
      BY <2>9, StoreType, Zenon DEF StoreLogged
    <3> QED BY <2>9, <3>1, Zenon DEF TypeOK, HandlerInv, StoreLogged, Goto, Row
  <2>10. ASSUME NEW k \in Runs, NEW t \in Tables, NEW s \in Steps, StoreOrFail(k, t, s)
         PROVE TypeOK' /\ HandlerInv'
    <3>1. data' \in [Jobs -> [Tables -> SUBSET Row]]
      BY <2>10, StoreType, Zenon DEF StoreOrFail
    <3>2. pc' \in [Runs -> Steps]
      BY <2>10, Zenon DEF TypeOK, StoreOrFail, Goto, Steps
    <3> QED BY <2>10, <3>1, <3>2, Zenon DEF TypeOK, HandlerInv, StoreOrFail, Row
  <2>11. ASSUME NEW k \in Runs, StoreFlow(k) PROVE TypeOK' /\ HandlerInv'
    <3> DEFINE new == <<k, flowed[k] + 1>>
    <3>1. CASE /\ data' = [data EXCEPT ![job[k]]["flows"] = @ \cup {new}]
               /\ flowed' = [flowed EXCEPT ![k] = @ + 1]
               /\ UNCHANGED pc
      <4>1. flowed[k] \in 0..FlowRows /\ flowed[k] < FlowRows
        BY <2>11, Zenon DEF TypeOK, StoreFlow
      <4>2. flowed' \in [Runs -> 0..FlowRows]
        BY <3>1, <4>1 DEF TypeOK
      <4>3. new \in Runs \X (1..FlowRows)
        BY <4>1
      <4> HIDE DEF new
      <4>4. data' \in [Jobs -> [Tables -> SUBSET (Runs \X (1..FlowRows))]]
        <5>1. CASE job[k] \in Jobs
          BY <3>1, <4>3, <5>1 DEF TypeOK, Tables
        <5>2. CASE job[k] \notin Jobs
          BY <3>1, <5>2, Zenon DEF TypeOK
        <5> QED BY <5>1, <5>2, Zenon
      <4> QED BY <2>11, <3>1, <4>2, <4>4, Zenon DEF TypeOK, HandlerInv, StoreFlow
    <3>2. CASE Aborts(k, "flows") /\ Goto(k, "fail") /\ UNCHANGED flowed
      BY <2>11, <3>2, Zenon DEF TypeOK, HandlerInv, StoreFlow, Aborts, Goto, Steps
    <3> QED BY <2>11, <3>1, <3>2, Zenon DEF StoreFlow
  <2>12. ASSUME NEW k \in Runs, FlowsStored(k) PROVE TypeOK' /\ HandlerInv'
    BY <2>12, Zenon DEF TypeOK, HandlerInv, FlowsStored, Goto, Steps
  <2>13. ASSUME NEW k \in Runs, CompleteJob(k) \/ FailJob(k) PROVE TypeOK' /\ HandlerInv'
    BY <2>13, ZenonT(30) DEF TypeOK, HandlerInv, CompleteJob, FailJob, Settle, Goto, Steps, Present
  <2>14. ASSUME Crash PROVE TypeOK' /\ HandlerInv'
    <3>1. torn' \subseteq Jobs
      BY <2>14, Zenon DEF TypeOK, HandlerInv, Crash
    <3>2. crashes' \in 0..MaxCrashes
      BY <2>14 DEF TypeOK, Crash
    <3>3. /\ pc' \in [Runs -> Steps]
          /\ hpc' \in [Requests -> {"idle", "clear", "spawn"}]
          /\ hjob' \in [Requests -> Jobs \cup {None}]
          /\ hpos' \in [Requests -> 0..(Len(ClearOrder) + 1)]
      BY <2>0, <2>14 DEF Crash, Steps
    <3>4. HandlerInv'
      BY <2>14, Zenon DEF HandlerInv, Crash
    <3> QED BY <2>14, <3>1, <3>2, <3>3, <3>4, Zenon DEF TypeOK, Crash
  <2>15. ASSUME Restart PROVE TypeOK' /\ HandlerInv'
    BY <2>15, Zenon DEF TypeOK, HandlerInv, Restart, Present
  <2>16. ASSUME UNCHANGED vars PROVE TypeOK' /\ HandlerInv'
    BY <2>16, Zenon DEF TypeOK, HandlerInv, vars
  <2>17. ASSUME NEW k \in Runs, Execute(k) PROVE TypeOK' /\ HandlerInv'
    <3>1. Tables = {"events", "telecom", "flows", "calls", "rtp_legs", "packets"}
          /\ {"telecom", "flows", "rtp_legs", "packets", "complete"} \subseteq Steps
      BY Zenon DEF Tables, Steps
    <3> QED BY <2>17, <3>1, <2>8, <2>9, <2>10, <2>11, <2>12, <2>13, Zenon DEF Execute, StoreEvents,
          StoreTelecomSessions, StoreCalls, StoreRTPLegs, StorePackets
  <2> QED BY <2>1, <2>2, <2>3, <2>4, <2>5, <2>6, <2>7, <2>14, <2>15, <2>16, <2>17, Zenon DEF Next, Handle
<1> QED BY <1>1, <1>2, PTL DEF Spec

----------------------------------------------------------------------------
(* A step that removes no row of table jobs and inserts only for jobs that  *)
(* have one makes no orphans.                                               *)
LEMMA OrphanStep ==
  ASSUME NoOrphans,
         \A j \in Jobs : row[j] \in Present => row'[j] \in Present,
         \A j \in Jobs, t \in Tables : data'[j][t] = data[j][t] \/ data'[j][t] = {} \/ row[j] \in Present
  PROVE  NoOrphans'
BY Zenon DEF NoOrphans

LEMMA DataUpdate ==
  ASSUME TypeOK, NEW a, NEW b, NEW v, data' = [data EXCEPT ![a][b] = v],
         NEW j \in Jobs, NEW t \in Tables
  PROVE  data'[j][t] = data[j][t] \/ (j = a /\ t = b /\ data'[j][t] = v)
<1>1. data \in [Jobs -> [Tables -> SUBSET Row]]
  BY Zenon DEF TypeOK, Row
<1>2. CASE j = a
  BY <1>1, <1>2, Zenon
<1>3. CASE j # a
  BY <1>1, <1>3, Zenon
<1> QED BY <1>2, <1>3, Zenon

LEMMA StoreNoOrphans ==
  ASSUME TypeOK, NEW k \in Runs, NEW t \in Tables, NEW rs,
         Commits(k, t, rs) \/ Aborts(k, t)
  PROVE  \A j \in Jobs, u \in Tables : data'[j][u] = data[j][u] \/ row[j] \in Present
<1>1. CASE Aborts(k, t) \/ t \notin found[k]
  BY <1>1, Zenon DEF Aborts, Commits
<1>2. CASE Commits(k, t, rs) /\ t \in found[k]
  BY <1>2, Zenon DEF TypeOK, Commits, MayInsert
<1> QED BY <1>1, <1>2, Zenon

(* No job without a row in table jobs has rows in another table: DeleteJob   *)
(* removes them all, and the foreign keys keep an execution that still runs  *)
(* from inserting more.                                                      *)
THEOREM NothingIsOrphaned == Spec => []NoOrphans
<1>1. Init => NoOrphans
  BY DEF Init, NoOrphans
<1>2. ASSUME TypeOK, HandlerInv, NoOrphans, [Next]_vars PROVE NoOrphans'
  <2> USE <1>2
  <2> DEFINE Kept == \A j \in Jobs : row[j] \in Present => row'[j] \in Present
             Fed == \A j \in Jobs, t \in Tables :
                      data'[j][t] = data[j][t] \/ data'[j][t] = {} \/ row[j] \in Present
  <2>1. ASSUME NEW h \in Requests, NEW j \in Jobs, Upload(h, j) \/ Reprocess(h, j) PROVE Kept /\ Fed
    BY <2>1, Zenon DEF TypeOK, Upload, Reprocess, Present
  <2>2. ASSUME NEW h \in Requests, Spawn(h) PROVE Kept /\ Fed
    BY <2>2, Zenon DEF Spawn
  <2>3. ASSUME NEW h \in Requests, Clear(h) PROVE Kept /\ Fed
    <3> DEFINE t == ClearOrder[hpos[h]]
               a == hjob[h]
    <3>1. row' = row /\ (data' = data \/ data' = [data EXCEPT ![a][t] = {}])
      BY <2>3, Zenon DEF Clear
    <3> HIDE DEF t, a
    <3>2. CASE data' = [data EXCEPT ![a][t] = {}]
      <4>1. ASSUME NEW i \in Jobs, NEW u \in Tables PROVE data'[i][u] = data[i][u] \/ data'[i][u] = {}
        BY <3>2, DataUpdate
      <4> QED BY <3>1, <4>1, Zenon
    <3> QED BY <3>1, <3>2, Zenon
  <2>4. ASSUME NEW h \in Requests, ResetStatus(h) PROVE Kept /\ Fed
    BY <2>4 DEF TypeOK, ResetStatus, Present
  <2>5. ASSUME NEW j \in Jobs, Delete(j) PROVE NoOrphans'
    BY <2>5, Zenon DEF TypeOK, NoOrphans, Delete
  <2>6. ASSUME Purge PROVE Kept /\ Fed
    BY <2>6, Zenon DEF TypeOK, Purge
  <2>7. ASSUME NEW k \in Runs, Decode(k) \/ FlowsStored(k) PROVE Kept /\ Fed
    BY <2>7, Zenon DEF Decode, FlowsStored
  <2>8. ASSUME NEW k \in Runs, NEW t \in Tables, NEW s, StoreLogged(k, t, s) \/ StoreOrFail(k, t, s)
        PROVE  Kept /\ Fed
    <3>1. row' = row /\ (Commits(k, t, Inserted(k, t)) \/ Aborts(k, t))
      BY <2>8, Zenon DEF StoreLogged, StoreOrFail
    <3> QED BY <3>1, StoreNoOrphans, Zenon
  <2>9. ASSUME NEW k \in Runs, StoreFlow(k) PROVE Kept /\ Fed
    <3> DEFINE v == data[job[k]]["flows"] \cup {<<k, flowed[k] + 1>>}
    <3>1. row' = row
      BY <2>9, Zenon DEF StoreFlow
    <3>2. CASE Aborts(k, "flows")
      BY <3>1, <3>2, Zenon DEF Aborts
    <3>3. CASE MayInsert(job[k]) /\ data' = [data EXCEPT ![job[k]]["flows"] = v]
      <4> HIDE DEF v
      <4> QED BY <3>1, <3>3, DataUpdate DEF MayInsert
    <3> QED BY <2>9, <3>2, <3>3, Zenon DEF StoreFlow
  <2>10. ASSUME NEW k \in Runs, CompleteJob(k) \/ FailJob(k) PROVE Kept /\ Fed
    BY <2>10, Zenon DEF TypeOK, CompleteJob, FailJob, Settle, Present
  <2>11. ASSUME Crash \/ Restart PROVE Kept /\ Fed
    BY <2>11, Zenon DEF TypeOK, Crash, Restart, Present
  <2>12. ASSUME UNCHANGED vars PROVE Kept /\ Fed
    BY <2>12, Zenon DEF vars
  <2>13. ASSUME NEW k \in Runs, Execute(k) PROVE Kept /\ Fed
    <3>1. Tables = {"events", "telecom", "flows", "calls", "rtp_legs", "packets"}
      BY Zenon DEF Tables
    <3> HIDE DEF Kept, Fed
    <3> QED BY <2>13, <3>1, <2>7, <2>8, <2>9, <2>10, Zenon DEF Execute, StoreEvents, StoreTelecomSessions,
          StoreCalls, StoreRTPLegs, StorePackets
  <2>14. Kept /\ Fed => NoOrphans'
    BY OrphanStep, Zenon
  <2> HIDE DEF Kept, Fed
  <2> QED BY <2>1, <2>2, <2>3, <2>4, <2>5, <2>6, <2>11, <2>12, <2>13, <2>14, Zenon DEF Next, Handle
<1> QED BY <1>1, <1>2, JobTypeCorrect, PTL DEF Spec

----------------------------------------------------------------------------
(* A job that a running server shows as running is worked on, as long as     *)
(* status updates succeed: reprocessing, deletion and restarts included.     *)
THEOREM RunningJobsAreWorked == Spec => []RunningIsWorked
<1>1. Init => RunningIsWorked
  BY Zenon DEF Init, RunningIsWorked
<1>2. ASSUME TypeOK, HandlerInv, RunningIsWorked, [Next]_vars PROVE RunningIsWorked'
  <2> DEFINE Busy(j) == \/ \E k \in 1..nruns : job[k] = j /\ pc[k] # "done"
                        \/ \E h \in Requests : hjob[h] = j
  <2> SUFFICES ASSUME NEW j \in Jobs, up', sound', row'[j] = "running" PROVE Busy(j)'
    BY Zenon DEF RunningIsWorked, Idle
  <2>s. ASSUME UNCHANGED <<sound, up>> PROVE sound /\ up
    BY <2>s, Zenon
  <2>0. ASSUME UNCHANGED <<sound, up>>, row[j] = "running" PROVE Busy(j)
    BY <1>2, <2>0, Zenon DEF RunningIsWorked, Idle
  <2>1. ASSUME NEW h \in Requests, NEW i \in Jobs, Upload(h, i) \/ Reprocess(h, i) PROVE Busy(j)'
    <3>1. UNCHANGED <<sound, up, nruns, job, pc>> /\ hpc[h] = "idle" /\ hjob' = [hjob EXCEPT ![h] = i]
          /\ (row' = row \/ row' = [row EXCEPT ![i] = "running"])
      BY <2>1, Zenon DEF Upload, Reprocess
    <3>2. CASE i = j
      BY <1>2, <3>1, <3>2, Zenon DEF TypeOK
    <3>3. CASE i # j
      <4>1. Busy(j)
        BY <1>2, <2>0, <3>1, <3>3, Zenon DEF TypeOK
      <4> QED BY <1>2, <3>1, <4>1, JobConstants DEF TypeOK, HandlerInv
    <3> QED BY <3>2, <3>3, Zenon
  <2>2. ASSUME NEW h \in Requests, Spawn(h) PROVE Busy(j)'
    <3>1. UNCHANGED <<sound, up, row>> /\ nruns < MaxRuns /\ nruns' = nruns + 1
          /\ pc' = [pc EXCEPT ![nruns + 1] = "decode"] /\ job' = [job EXCEPT ![nruns + 1] = hjob[h]]
          /\ hjob' = [hjob EXCEPT ![h] = None]
      BY <2>2, Zenon DEF Spawn, Return
    <3>2. nruns \in Nat /\ nruns + 1 \in Runs
      BY <1>2, <3>1, JobConstants DEF TypeOK, Runs
    <3>5. Busy(j)
      BY <2>0, <3>1, Zenon
    <3>3. CASE hjob[h] = j
      BY <1>2, <3>1, <3>2, <3>3 DEF TypeOK
    <3>4. CASE hjob[h] # j
      <4>1. CASE \E r \in Requests : hjob[r] = j
        BY <1>2, <3>1, <3>4, <4>1, Zenon DEF TypeOK
      <4>2. CASE \E k \in 1..nruns : job[k] = j /\ pc[k] # "done"
        BY <1>2, <3>1, <3>2, <4>2 DEF TypeOK
      <4> QED BY <3>5, <4>1, <4>2, Zenon
    <3> QED BY <3>3, <3>4, Zenon
  <2>3. ASSUME NEW h \in Requests, Clear(h) PROVE Busy(j)'
    <3>1. UNCHANGED <<sound, up, row, nruns, job, pc, hjob>>
      BY <2>3, Zenon DEF Clear
    <3> QED BY <2>0, <3>1, Zenon
  <2>4. ASSUME NEW h \in Requests, ResetStatus(h) PROVE Busy(j)'
    <3>1. UNCHANGED <<sound, up, nruns, job, pc>>
      BY <2>4, Zenon DEF ResetStatus
    <3>2. CASE UNCHANGED hjob /\ row' = [row EXCEPT ![hjob[h]] = "running"]
      <4>1. CASE hjob[h] = j
        BY <3>2, <4>1, Zenon
      <4>2. CASE hjob[h] # j
        BY <1>2, <2>0, <3>1, <3>2, <4>2, Zenon DEF TypeOK
      <4> QED BY <4>1, <4>2, Zenon
    <3>3. CASE UNCHANGED hjob /\ UNCHANGED row
      BY <2>0, <3>1, <3>3, Zenon
    <3>4. sound
      BY <2>s, <3>1, Zenon
    <3> QED BY <2>4, <3>2, <3>3, <3>4, Zenon DEF ResetStatus
  <2>5. ASSUME NEW i \in Jobs, Delete(i) PROVE Busy(j)'
    <3>1. UNCHANGED <<sound, up, nruns, job, pc, hjob>> /\ row' = [row EXCEPT ![i] = "deleted"]
      BY <2>5, Zenon DEF Delete
    <3> QED BY <1>2, <2>0, <3>1, Zenon DEF TypeOK
  <2>6. ASSUME Purge PROVE Busy(j)'
    <3>1. UNCHANGED <<sound, up, row, nruns, job, pc, hjob>>
      BY <2>6, Zenon DEF Purge
    <3> QED BY <2>0, <3>1, Zenon
  <2>7. ASSUME NEW k \in Runs, NEW step, NEW status \in {"completed", "failed"}, Settle(k, step, status) PROVE Busy(j)'
    <3>1. UNCHANGED <<sound, up, nruns, job, hjob>> /\ pc' = [pc EXCEPT ![k] = "done"]
      BY <2>7, Zenon DEF Settle, Goto
    <3>2. row' = IF row[job[k]] \in Present THEN [row EXCEPT ![job[k]] = status] ELSE row
      <4>1. sound
        BY <2>s, <3>1, Zenon
      <4> QED BY <2>7, <4>1, Zenon DEF Settle
    <3>3. row[j] = "running" /\ job[k] # j
      BY <1>2, <2>7, <3>2, Zenon DEF TypeOK, Present
    <3>4. Busy(j)
      BY <2>0, <3>1, <3>3, Zenon
    <3>5. ASSUME NEW i \in 1..nruns, job[i] = j, pc[i] # "done" PROVE job'[i] = j /\ pc'[i] # "done"
      BY <1>2, <3>1, <3>3, <3>5, JobConstants DEF TypeOK, Runs
    <3> QED BY <3>1, <3>4, <3>5, Zenon
  <2>8. ASSUME NEW k \in Runs, NEW s, s # "done", Goto(k, s) \/ UNCHANGED pc,
               UNCHANGED <<sound, up, row, nruns, job, hjob>>
        PROVE  Busy(j)'
    <3>1. Busy(j)
      BY <2>0, <2>8, Zenon
    <3>2. ASSUME NEW i \in 1..nruns, job[i] = j, pc[i] # "done" PROVE job'[i] = j /\ pc'[i] # "done"
      <4>1. i \in Runs
        BY <1>2, JobConstants DEF TypeOK, Runs
      <4> QED BY <1>2, <2>8, <3>2, <4>1, Zenon DEF TypeOK, Goto
    <3> QED BY <2>8, <3>1, <3>2, Zenon
  <2>9. ASSUME Crash PROVE Busy(j)'
    BY <2>9, Zenon DEF Crash
  <2>10. ASSUME Restart PROVE Busy(j)'
    <3>1. row' = [i \in Jobs |-> IF row[i] = "running" THEN "failed" ELSE row[i]]
      BY <2>10, Zenon DEF Restart
    <3> QED BY <3>1, Zenon
  <2>11. ASSUME UNCHANGED vars PROVE Busy(j)'
    BY <2>0, <2>11, Zenon DEF vars
  <2>12. ASSUME NEW k \in Runs, Execute(k) PROVE Busy(j)'
    <3> HIDE DEF Busy
    <3>1. CASE Decode(k)
      BY <2>8, <3>1, Zenon DEF Decode
    <3>2. ASSUME NEW t, NEW s, s # "done", StoreLogged(k, t, s) \/ StoreOrFail(k, t, s) PROVE Busy(j)'
      BY <2>8, <3>2, Zenon DEF StoreLogged, StoreOrFail
    <3>3. CASE StoreFlow(k) \/ FlowsStored(k)
      BY <2>8, <3>3, Zenon DEF StoreFlow, FlowsStored
    <3>4. CASE CompleteJob(k) \/ FailJob(k)
      BY <2>7, <3>4, Zenon DEF CompleteJob, FailJob
    <3> QED BY <2>12, <3>1, <3>2, <3>3, <3>4, Zenon DEF Execute, StoreEvents, StoreTelecomSessions,
          StoreCalls, StoreRTPLegs, StorePackets
  <2> HIDE DEF Busy
  <2> QED BY <1>2, <2>1, <2>2, <2>3, <2>4, <2>5, <2>6, <2>9, <2>10, <2>11, <2>12, Zenon DEF Next, Handle
<1> QED BY <1>1, <1>2, JobTypeCorrect, PTL DEF Spec

----------------------------------------------------------------------------
(* What a completed job holds. *)

(* Executions that have not ended were spawned; whatever works, or has      *)
(* worked, on a job works on one that was uploaded; nothing works while the *)
(* server is down; and the flows are counted from the step that stores them.*)
WorkerInv ==
  /\ \A k \in Runs : pc[k] # "done" => k <= nruns
  /\ \A k \in Runs : k > nruns => flowed[k] = 0
  /\ \A k \in Runs : k <= nruns => job[k] \in Jobs /\ row[job[k]] # "none"
  /\ \A h \in Requests : hpc[h] # "idle" => row[hjob[h]] # "none"
  /\ \A k \in Runs : pc[k] \in {"decode", "events", "telecom"} => flowed[k] = 0
  /\ ~up => (\A k \in Runs : pc[k] = "done") /\ (\A h \in Requests : hpc[h] = "idle")

(* With jobs reprocessed one at a time, one handler or one execution works  *)
(* on a job.                                                                *)
AloneInv == serial =>
  /\ \A g, h \in Requests : hjob[g] = hjob[h] /\ hpc[h] # "idle" => g = h
  /\ \A h \in Requests, k \in Runs : hjob[h] = job[k] /\ hpc[h] # "idle" => pc[k] = "done"
  /\ \A k, m \in Runs : job[k] = job[m] /\ pc[k] # "done" /\ pc[m] # "done" => k = m

(* The steps of an execution, as they look to the others. *)
Advances(k) ==
  /\ up /\ pc[k] # "done"
  /\ UNCHANGED <<modes, up, nruns, job, handlers>>
  /\ \A m \in Runs \ {k} : pc'[m] = pc[m] /\ flowed'[m] = flowed[m] /\ found'[m] = found[m]
  /\ pc'[k] # "decode"
  /\ pc'[k] \in {"events", "telecom"} => pc[k] \in {"decode", "events"} /\ flowed'[k] = flowed[k]
  /\ \A j \in Jobs : row'[j] = row[j] \/ (j = job[k] /\ row[j] \in Present /\ row'[j] \in Present)
  /\ torn' = torn

LEMMA ExecuteAdvances ==
  ASSUME TypeOK, NEW k \in Runs, Execute(k)
  PROVE  Advances(k)
<1>1. CASE Decode(k)
  BY <1>1, Zenon DEF TypeOK, Decode, Goto, Advances
<1>2. ASSUME NEW t \in {"events", "telecom", "packets"}, NEW s \in {"telecom", "flows", "complete"},
             (t = "events" /\ s = "telecom") \/ s # "telecom",
             StoreLogged(k, t, s)
      PROVE  Advances(k)
  BY <1>2, Zenon DEF TypeOK, StoreLogged, Goto, Advances
<1>3. ASSUME NEW t \in {"calls", "rtp_legs"}, NEW s \in {"rtp_legs", "packets"}, StoreOrFail(k, t, s)
      PROVE  Advances(k)
  BY <1>3, Zenon DEF TypeOK, StoreOrFail, Goto, Advances
<1>4. CASE StoreFlow(k)
  BY <1>4, Zenon DEF TypeOK, StoreFlow, Goto, Advances
<1>5. CASE FlowsStored(k)
  BY <1>5, Zenon DEF TypeOK, FlowsStored, Goto, Advances
<1>6. CASE CompleteJob(k) \/ FailJob(k)
  <2>1. ASSUME NEW s \in {"complete", "fail"}, NEW status \in {"completed", "failed"}, Settle(k, s, status)
        PROVE  Advances(k)
    <3>1. \A j \in Jobs : row'[j] = row[j] \/ (j = job[k] /\ row[j] \in Present /\ row'[j] \in Present)
      BY <2>1, Zenon DEF TypeOK, Settle, Present
    <3> QED BY <2>1, <3>1, Zenon DEF TypeOK, Settle, Goto, Advances
  <2> QED BY <1>6, <2>1, Zenon DEF CompleteJob, FailJob
<1> QED BY <1>1, <1>2, <1>3, <1>4, <1>5, <1>6, Zenon DEF Execute, StoreEvents, StoreTelecomSessions,
      StoreCalls, StoreRTPLegs, StorePackets

LEMMA ModesKept ==
  ASSUME [Next]_vars
  PROVE  serial' = serial
<1>1. ASSUME NEW k \in Runs, Execute(k) PROVE serial' = serial
  BY <1>1, Zenon DEF Execute, StoreEvents, StoreTelecomSessions, StoreCalls, StoreRTPLegs, StorePackets,
      Decode, StoreLogged, StoreOrFail, StoreFlow, FlowsStored, CompleteJob, FailJob, Settle
<1> QED BY <1>1, Zenon DEF Next, vars, Upload, Reprocess, Handle, Spawn, Clear, ResetStatus, Delete, Purge,
      Crash, Restart

LEMMA WorkersStep ==
  ASSUME TypeOK, HandlerInv, WorkerInv, AloneInv, [Next]_vars
  PROVE  WorkerInv' /\ AloneInv'
<1> USE JobConstants DEF Runs
<1>1. ASSUME NEW h \in Requests, NEW j \in Jobs, Upload(h, j) PROVE WorkerInv' /\ AloneInv'
  <2>1. WorkerInv'
    BY <1>1, Zenon DEF TypeOK, HandlerInv, WorkerInv, Upload
  <2>2. AloneInv'
    BY <1>1 DEF TypeOK, HandlerInv, WorkerInv, AloneInv, Upload
  <2> QED BY <2>1, <2>2, Zenon
<1>2. ASSUME NEW h \in Requests, NEW j \in Jobs, Reprocess(h, j) PROVE WorkerInv' /\ AloneInv'
  <2>1. WorkerInv'
    BY <1>2, Zenon DEF TypeOK, HandlerInv, WorkerInv, Reprocess, Present
  <2>2. AloneInv'
    BY <1>2 DEF TypeOK, HandlerInv, WorkerInv, AloneInv, Reprocess, Idle
  <2> QED BY <2>1, <2>2, Zenon
<1>3. ASSUME NEW h \in Requests, Spawn(h) PROVE WorkerInv' /\ AloneInv'
  <2>1. WorkerInv'
    BY <1>3 DEF TypeOK, HandlerInv, WorkerInv, Spawn, Return
  <2>2. AloneInv'
    BY <1>3 DEF TypeOK, HandlerInv, WorkerInv, AloneInv, Spawn, Return
  <2> QED BY <2>1, <2>2, Zenon
<1>4. ASSUME NEW h \in Requests, Clear(h) PROVE WorkerInv' /\ AloneInv'
  BY <1>4, Zenon DEF WorkerInv, AloneInv, Clear
<1>5. ASSUME NEW h \in Requests, ResetStatus(h) PROVE WorkerInv' /\ AloneInv'
  <2>1. /\ hjob[h] \in Jobs /\ up /\ UNCHANGED <<serial, up, nruns, pc, job, flowed>>
        /\ hpc' \in [Requests -> {"idle", "clear", "spawn"}]
        /\ \A g \in Requests : (hpc'[g] # "idle" => hpc[g] # "idle" /\ hjob'[g] = hjob[g])
        /\ \A g \in Requests : hjob'[g] = hjob[g] \/ hjob'[g] = None
    BY <1>5, Zenon DEF TypeOK, HandlerInv, ResetStatus, Return
  <2>2. \A j \in Jobs : row[j] # "none" => row'[j] # "none"
    BY <1>5, <2>1, Zenon DEF TypeOK, ResetStatus, Present
  <2>3. WorkerInv'
    <3>1. \A k \in Runs : k <= nruns' => job'[k] \in Jobs /\ row'[job'[k]] # "none"
      BY <2>1, <2>2, Zenon DEF WorkerInv
    <3>2. \A g \in Requests : hpc'[g] # "idle" => row'[hjob'[g]] # "none"
      <4> SUFFICES ASSUME NEW g \in Requests, hpc'[g] # "idle" PROVE row'[hjob'[g]] # "none"
        BY Zenon
      <4>1. hpc[g] # "idle" /\ hjob'[g] = hjob[g]
        BY <2>1, Zenon
      <4>2. hjob[g] \in Jobs /\ row[hjob[g]] # "none"
        BY <4>1, Zenon DEF TypeOK, HandlerInv, WorkerInv
      <4> QED BY <2>2, <4>1, <4>2, Zenon
    <3> QED BY <2>1, <3>1, <3>2, Zenon DEF WorkerInv
  <2>4. \A g \in Requests : hpc'[g] # "idle" => hjob'[g] # None
    BY <2>1, Zenon DEF HandlerInv
  <2>5. AloneInv'
    BY <2>1, <2>4 DEF AloneInv
  <2> QED BY <2>3, <2>5, Zenon
<1>6. ASSUME NEW j \in Jobs, Delete(j) PROVE WorkerInv' /\ AloneInv'
  BY <1>6 DEF TypeOK, HandlerInv, WorkerInv, AloneInv, Delete
<1>7. ASSUME Purge PROVE WorkerInv' /\ AloneInv'
  BY <1>7, Zenon DEF WorkerInv, AloneInv, Purge
<1>8. ASSUME NEW k \in Runs, Execute(k) PROVE WorkerInv' /\ AloneInv'
  <2>1. Advances(k)
    BY <1>8, ExecuteAdvances, Zenon
  <2>4. \A j \in Jobs : row[j] # "none" => row'[j] # "none"
    BY <2>1, Zenon DEF Advances, Present
  <2>5. \A g \in Requests : hpc[g] # "idle" => hjob[g] \in Jobs
    BY Zenon DEF TypeOK, HandlerInv
  <2>6. \A m \in Runs : pc'[m] \in {"decode", "events", "telecom"} => flowed'[m] = 0
    BY <2>1, Zenon DEF WorkerInv, Advances
  <2>7. \A m \in Runs : (pc'[m] # "done" => m <= nruns) /\ (m > nruns => flowed'[m] = 0)
    <3>1. k <= nruns /\ nruns \in Nat
      BY <2>1 DEF WorkerInv, Advances, TypeOK
    <3> QED BY <2>1, <3>1 DEF WorkerInv, Advances
  <2>8. up' /\ UNCHANGED <<nruns, job, hpc, hjob>>
    BY <2>1, Zenon DEF Advances
  <2>2. WorkerInv'
    BY <2>4, <2>5, <2>6, <2>7, <2>8, Zenon DEF WorkerInv
  <2>3. AloneInv'
    BY <2>1 DEF AloneInv, Advances
  <2> QED BY <2>2, <2>3, Zenon
<1>9. ASSUME Crash PROVE WorkerInv' /\ AloneInv'
  BY <1>9, Zenon DEF TypeOK, WorkerInv, AloneInv, Crash
<1>10. ASSUME Restart PROVE WorkerInv' /\ AloneInv'
  BY <1>10 DEF TypeOK, HandlerInv, WorkerInv, AloneInv, Restart
<1>11. ASSUME UNCHANGED vars PROVE WorkerInv' /\ AloneInv'
  BY <1>11, Zenon DEF WorkerInv, AloneInv, vars
<1> QED BY <1>1, <1>2, <1>3, <1>4, <1>5, <1>6, <1>7, <1>8, <1>9, <1>10, <1>11, Zenon DEF Next, Handle

(* The tables ClearJobData empties. *)
Cleared == {"flows", "calls", "rtp_legs", "events", "packets"}

(* What execution k has stored, by the step it is at. *)
StoredSoFar(k) ==
  LET d == data[job[k]] IN
  /\ pc[k] \in {"decode", "events"} => d["events"] = {}
  /\ pc[k] \in {"telecom", "flows", "calls", "rtp_legs", "packets", "complete"} =>
       d["events"] \in {{}, Rows(k, "events")}
  /\ pc[k] \in {"decode", "events", "telecom"} => d["flows"] = {}
  /\ pc[k] = "flows" => d["flows"] = {k} \X (1..flowed[k])
  /\ pc[k] = "flows" => "flows" \in found[k] \/ flowed[k] = 0
  /\ pc[k] \in {"calls", "rtp_legs", "packets", "complete"} => d["flows"] = Rows(k, "flows")
  /\ pc[k] \in {"decode", "events", "telecom", "flows", "calls"} => d["calls"] = {}
  /\ pc[k] \in {"rtp_legs", "packets", "complete"} => d["calls"] = Rows(k, "calls")
  /\ pc[k] \in {"decode", "events", "telecom", "flows", "calls", "rtp_legs"} => d["rtp_legs"] = {}
  /\ pc[k] \in {"packets", "complete"} => d["rtp_legs"] = Rows(k, "rtp_legs")
  /\ pc[k] \in {"decode", "events", "telecom", "flows", "calls", "rtp_legs", "packets"} =>
       d["packets"] = {}
  /\ pc[k] = "complete" => d["packets"] \in {{}, Rows(k, "packets")}

(* What a job holds, by who works on it: a handler that clears it, one that *)
(* is about to spawn an execution, an execution, or nobody.                 *)
JobInv(j) ==
  /\ \A h \in Requests : hjob[h] = j /\ hpc[h] = "clear" =>
        /\ row[j] \in Present
        /\ \A i \in 1..5 : i < hpos[h] => data[j][ClearOrder[i]] = {}
  /\ \A h \in Requests : hjob[h] = j /\ hpc[h] = "spawn" =>
        row[j] = "running" /\ \A t \in Cleared : data[j][t] = {}
  /\ \A k \in Runs : job[k] = j /\ pc[k] # "done" => row[j] = "running" /\ StoredSoFar(k)
  /\ row[j] = "completed" /\ Idle(j) => Whole(j)

WholeInv == serial => \A j \in Jobs \ torn : JobInv(j)

(* A step that leaves job j and what works on it alone, but may purge its   *)
(* packets.                                                                 *)
Quiet(j) ==
  /\ row'[j] = row[j]
  /\ \A t \in Tables : data'[j][t] = data[j][t] \/ (t = "packets" /\ data'[j][t] = {})
  /\ \A h \in Requests : hjob[h] = j \/ hjob'[h] = j =>
        hjob'[h] = hjob[h] /\ hpc'[h] = hpc[h] /\ hpos'[h] = hpos[h]
  /\ nruns <= nruns'
  /\ \A k \in Runs : k <= nruns /\ (job[k] = j \/ job'[k] = j) =>
        job'[k] = job[k] /\ pc'[k] = pc[k] /\ found'[k] = found[k] /\ flowed'[k] = flowed[k]
  /\ \A k \in Runs : k > nruns /\ k <= nruns' => job'[k] # j

LEMMA StoredSame ==
  ASSUME NEW k, NEW j, job[k] = j, job'[k] = j, StoredSoFar(k),
         \A t \in Tables : data'[j][t] = data[j][t] \/ (t = "packets" /\ data'[j][t] = {}),
         pc'[k] = pc[k], found'[k] = found[k], flowed'[k] = flowed[k]
  PROVE  StoredSoFar(k)'
<1>1. \A t \in Tables : Rows(k, t)' = Rows(k, t)
  BY Zenon DEF Rows
<1>2. \A t \in {"events", "flows", "calls", "rtp_legs"} : data'[j][t] = data[j][t]
  BY Zenon DEF Tables
<1>3. data'[j]["packets"] = data[j]["packets"] \/ data'[j]["packets"] = {}
  BY Zenon DEF Tables
<1>4. /\ Rows(k, "events")' = Rows(k, "events") /\ Rows(k, "flows")' = Rows(k, "flows")
      /\ Rows(k, "calls")' = Rows(k, "calls") /\ Rows(k, "rtp_legs")' = Rows(k, "rtp_legs")
      /\ Rows(k, "packets")' = Rows(k, "packets")
  BY <1>1, Zenon DEF Tables
<1> QED BY <1>2, <1>3, <1>4 DEF StoredSoFar

LEMMA WholeSame ==
  ASSUME NEW j \in Jobs, Whole(j), nruns \in Nat, nruns' \in Nat, nruns <= nruns', nruns <= MaxRuns,
         \A t \in Tables : data'[j][t] = data[j][t] \/ (t = "packets" /\ data'[j][t] = {}),
         \A k \in Runs : k <= nruns /\ job[k] = j => job'[k] = j /\ found'[k] = found[k]
  PROVE  Whole(j)'
<1>1. PICK k \in 1..nruns :
        /\ job[k] = j
        /\ \A t \in {"flows", "calls", "rtp_legs"} : data[j][t] = Rows(k, t)
        /\ \A t \in {"events", "packets"} : data[j][t] \in {{}, Rows(k, t)}
  BY Zenon DEF Whole
<1>2. k \in 1..nruns' /\ k \in Runs /\ k <= nruns
  BY JobConstants DEF Runs
<1>3. job'[k] = j /\ found'[k] = found[k]
  BY <1>1, <1>2, Zenon
<1>4. \A t \in Tables : Rows(k, t)' = Rows(k, t)
  BY <1>3, Zenon DEF Rows
<1>5. \A t \in {"flows", "calls", "rtp_legs"} : data'[j][t] = Rows(k, t)'
  BY <1>1, <1>4, Zenon DEF Tables
<1>6. \A t \in {"events", "packets"} : data'[j][t] \in {{}, Rows(k, t)'}
  BY <1>1, <1>4, Zenon DEF Tables
<1> QED BY <1>2, <1>3, <1>5, <1>6, Zenon DEF Whole

LEMMA QuietStep ==
  ASSUME TypeOK, TypeOK', WorkerInv', NEW j \in Jobs, JobInv(j), Quiet(j)
  PROVE  JobInv(j)'
<1> USE JobConstants
<1>0. nruns \in Nat /\ nruns' \in Nat /\ nruns <= MaxRuns /\ nruns' <= MaxRuns /\ nruns <= nruns'
  BY DEF TypeOK, Quiet
<1>1. ASSUME NEW h \in Requests, hjob'[h] = j, hpc'[h] = "clear"
      PROVE  /\ row'[j] \in Present
             /\ \A i \in 1..5 : i < hpos'[h] => data'[j][ClearOrder[i]] = {}
  <2>1. \A i \in 1..5 : ClearOrder[i] \in Tables
    BY DEF ClearOrder, Tables
  <2> QED BY <1>1, <2>1 DEF JobInv, Quiet
<1>2. ASSUME NEW h \in Requests, hjob'[h] = j, hpc'[h] = "spawn"
      PROVE  row'[j] = "running" /\ \A t \in Cleared : data'[j][t] = {}
  BY <1>2 DEF JobInv, Quiet, Cleared, Tables
<1>3. ASSUME NEW k \in Runs, job'[k] = j, pc'[k] # "done"
      PROVE  row'[j] = "running" /\ StoredSoFar(k)'
  <2>1. k <= nruns' /\ k \in Nat
    BY <1>3 DEF WorkerInv, Runs
  <2>2. k <= nruns
    <3>1. ~ (k > nruns)
      BY <1>3, <2>1, Zenon DEF Quiet
    <3> QED BY ONLY <1>0, <2>1, <3>1
  <2>4. job[k] = j /\ pc'[k] = pc[k] /\ found'[k] = found[k] /\ flowed'[k] = flowed[k]
    BY <1>3, <2>2, Zenon DEF Quiet
  <2> QED BY <1>3, <2>4, StoredSame, Zenon DEF JobInv, Quiet
<1>4. ASSUME row'[j] = "completed", Idle(j)' PROVE Whole(j)'
  <2>1. Idle(j)
    <3>1. ASSUME NEW k \in 1..nruns, job[k] = j PROVE pc[k] = "done"
      <4>1. k \in Runs /\ k <= nruns /\ k \in 1..nruns'
        BY ONLY <1>0, k \in 1..nruns, JobConstants DEF Runs
      <4>2. job'[k] = j /\ pc'[k] = pc[k]
        BY <3>1, <4>1, Zenon DEF Quiet
      <4> QED BY <1>4, <4>1, <4>2, Zenon DEF Idle
    <3>2. ASSUME NEW h \in Requests PROVE hjob[h] # j
      BY <1>4, Zenon DEF Idle, Quiet
    <3> QED BY <3>1, <3>2, Zenon DEF Idle
  <2>2. Whole(j)
    BY <1>4, <2>1, Zenon DEF JobInv, Quiet
  <2> QED BY <1>0, <2>2, WholeSame, Zenon DEF Quiet
<1> QED BY <1>1, <1>2, <1>3, <1>4, Zenon DEF JobInv

LEMMA Unworked ==
  ASSUME TypeOK', HandlerInv', WorkerInv', NEW j \in Jobs, Idle(j)',
         row'[j] # "completed" \/ Whole(j)'
  PROVE  JobInv(j)'
<1>1. \A k \in Runs : job'[k] = j => pc'[k] = "done"
  <2> SUFFICES ASSUME NEW k \in Runs, job'[k] = j, pc'[k] # "done" PROVE FALSE
    BY Zenon
  <2>1. k \in 1..nruns'
    BY DEF WorkerInv, TypeOK, Runs
  <2> QED BY <2>1, Zenon DEF Idle
<1>2. \A h \in Requests : hjob'[h] # j
  BY Zenon DEF Idle
<1> QED BY <1>1, <1>2, Zenon DEF JobInv

LEMMA HandlerWorks ==
  ASSUME TypeOK', HandlerInv', AloneInv', serial', NEW j \in Jobs, NEW h \in Requests, hjob'[h] = j,
         hpc'[h] # "idle",
         hpc'[h] = "clear" => /\ row'[j] \in Present
                              /\ \A i \in 1..5 : i < hpos'[h] => data'[j][ClearOrder[i]] = {},
         hpc'[h] = "spawn" => row'[j] = "running" /\ \A t \in Cleared : data'[j][t] = {}
  PROVE  JobInv(j)'
<1>1. \A g \in Requests : hjob'[g] = j => g = h
  BY Zenon DEF AloneInv
<1>2. \A k \in Runs : job'[k] = j => pc'[k] = "done"
  BY Zenon DEF AloneInv
<1>3. ~Idle(j)'
  BY Zenon DEF Idle
<1> QED BY <1>1, <1>2, <1>3, Zenon DEF JobInv

LEMMA ExecutionWorks ==
  ASSUME TypeOK', HandlerInv', WorkerInv', AloneInv', serial', NEW j \in Jobs, NEW k \in Runs,
         job'[k] = j, pc'[k] # "done", row'[j] = "running", StoredSoFar(k)'
  PROVE  JobInv(j)'
<1>1. \A h \in Requests : hjob'[h] # j
  BY JobConstants, Zenon DEF AloneInv, HandlerInv
<1>2. \A m \in Runs : job'[m] = j /\ pc'[m] # "done" => m = k
  BY Zenon DEF AloneInv
<1> QED BY <1>1, <1>2, Zenon DEF JobInv

(* An insert into a table of its job that was empty leaves the rows of the  *)
(* execution there.                                                         *)
LEMMA StoresRows ==
  ASSUME TypeOK, NEW k \in Runs, NEW t \in Tables, t # "telecom", NEW j \in Jobs, job[k] = j,
         data[j][t] = {}, Commits(k, t, Inserted(k, t))
  PROVE  data'[j][t] = Rows(k, t)
<1>1. Inserted(k, t) = Rows(k, t)
  BY Zenon DEF Inserted
<1>2. CASE t \in found[k]
  BY <1>1, <1>2, Zenon DEF TypeOK, Commits
<1>3. CASE t \notin found[k]
  BY <1>3, Zenon DEF Commits, Rows
<1> QED BY <1>2, <1>3, Zenon

(* A store touches one table of one job. *)
LEMMA StoresOne ==
  ASSUME TypeOK, NEW k \in Runs, NEW t \in Tables, NEW rs, Commits(k, t, rs) \/ Aborts(k, t)
  PROVE  /\ \A i \in Jobs : i # job[k] => data'[i] = data[i]
         /\ \A i \in Jobs, u \in Tables : u # t => data'[i][u] = data[i][u]
<1>1. CASE data' = data
  BY <1>1, Zenon
<1>2. CASE data' = [data EXCEPT ![job[k]][t] = rs]
  BY <1>2, Zenon DEF TypeOK
<1> QED BY <1>1, <1>2, Zenon DEF Commits, Aborts

(* Every step of an execution leaves the data of other jobs alone, and its  *)
(* own job holds what it has stored so far; when it completes the job, the  *)
(* job is whole.                                                            *)
LEMMA ExecuteData ==
  ASSUME TypeOK, NEW k \in Runs, Execute(k)
  PROVE  \A i \in Jobs : i # job[k] => data'[i] = data[i]
<1>1. CASE Decode(k) \/ FlowsStored(k) \/ CompleteJob(k) \/ FailJob(k)
  BY <1>1, Zenon DEF Decode, FlowsStored, CompleteJob, FailJob, Settle
<1>2. ASSUME NEW t \in Tables, NEW s, StoreLogged(k, t, s) \/ StoreOrFail(k, t, s)
      PROVE  \A i \in Jobs : i # job[k] => data'[i] = data[i]
  <2>1. Commits(k, t, Inserted(k, t)) \/ Aborts(k, t)
    BY <1>2, Zenon DEF StoreLogged, StoreOrFail
  <2> QED BY <2>1, StoresOne, Zenon
<1>3. CASE StoreFlow(k)
  <2>1. data' = data \/ data' = [data EXCEPT ![job[k]]["flows"] = @ \cup {<<k, flowed[k] + 1>>}]
    BY <1>3, Zenon DEF StoreFlow, Aborts
  <2> QED BY <2>1, Zenon DEF TypeOK
<1>4. \A t \in {"events", "telecom", "calls", "rtp_legs", "packets"} : t \in Tables
  BY Zenon DEF Tables
<1> QED BY <1>1, <1>2, <1>3, <1>4, Zenon DEF Execute, StoreEvents, StoreTelecomSessions, StoreCalls,
      StoreRTPLegs, StorePackets

(* What an execution of a job that is running stores, step by step. *)
LEMMA ExecuteStores ==
  ASSUME TypeOK, TypeOK', WorkerInv, NEW k \in Runs, NEW j \in Jobs, job[k] = j, row[j] = "running",
         pc[k] # "done", StoredSoFar(k), Execute(k)
  PROVE  \/ pc'[k] # "done" /\ row'[j] = "running" /\ StoredSoFar(k)'
         \/ pc'[k] = "done" /\ row'[j] # "completed"
         \/ pc'[k] = "done" /\ Whole(j)'
<1>0. job'[k] = j
  BY ExecuteAdvances, Zenon DEF Advances
<1>f. ASSUME pc'[k] = "fail", row' = row PROVE pc'[k] # "done" /\ row'[j] = "running" /\ StoredSoFar(k)'
  BY <1>f, Zenon DEF StoredSoFar
<1>1. CASE Decode(k)
  <2>1. row' = row /\ data' = data /\ job' = job /\ flowed' = flowed /\ pc[k] = "decode"
        /\ (pc'[k] = "fail" \/ pc'[k] = "events")
    BY <1>1, Zenon DEF TypeOK, Decode, Goto
  <2>2. ASSUME pc'[k] = "events" PROVE StoredSoFar(k)'
    BY <2>1, <2>2, Zenon DEF StoredSoFar
  <2> QED BY <1>f, <2>1, <2>2, Zenon
<1>r. ASSUME found' = found PROVE \A t \in Tables : Rows(k, t)' = Rows(k, t)
  BY <1>r, Zenon DEF Rows
<1>t. Tables = {"events", "telecom", "flows", "calls", "rtp_legs", "packets"}
  BY Zenon DEF Tables
<1>s. ASSUME NEW t \in Tables, NEW s \in Steps, s # "done", StoreLogged(k, t, s) \/ StoreOrFail(k, t, s)
      PROVE  /\ row' = row /\ job' = job /\ flowed' = flowed /\ found' = found /\ pc[k] = t
             /\ \A u \in Tables : u # t => data'[j][u] = data[j][u]
             /\ \/ pc'[k] = "fail"
                \/ pc'[k] = s /\ Commits(k, t, Inserted(k, t))
                \/ pc'[k] = s /\ StoreLogged(k, t, s) /\ data' = data
  <2>1. Commits(k, t, Inserted(k, t)) \/ Aborts(k, t)
    BY <1>s, Zenon DEF StoreLogged, StoreOrFail
  <2>2. \A u \in Tables : u # t => data'[j][u] = data[j][u]
    BY <2>1, StoresOne, Zenon
  <2>3. row' = row /\ job' = job /\ flowed' = flowed /\ found' = found /\ pc[k] = t
    BY <1>s, Zenon DEF StoreLogged, StoreOrFail
  <2>4. CASE StoreLogged(k, t, s)
    BY <2>2, <2>3, <2>4, Zenon DEF TypeOK, StoreLogged, Goto, Aborts
  <2>5. CASE StoreOrFail(k, t, s)
    BY <2>2, <2>3, <2>5, Zenon DEF TypeOK, StoreOrFail, Goto
  <2> QED BY <1>s, <2>4, <2>5, Zenon
<1>2. CASE StoreEvents(k)
  <2>1. /\ row' = row /\ job' = job /\ flowed' = flowed /\ found' = found /\ pc[k] = "events"
        /\ \A u \in Tables : u # "events" => data'[j][u] = data[j][u]
        /\ \/ pc'[k] = "fail"
           \/ pc'[k] = "telecom" /\ Commits(k, "events", Inserted(k, "events"))
           \/ pc'[k] = "telecom" /\ data' = data
    BY <1>2, <1>s, <1>t, Zenon DEF StoreEvents, Steps
  <2>2. data[j]["events"] = {}
    BY <2>1, Zenon DEF StoredSoFar
  <2>3. pc'[k] = "telecom" => data'[j]["events"] \in {{}, Rows(k, "events")'}
    BY <1>r, <1>t, <2>1, <2>2, StoresRows, Zenon
  <2>4. pc'[k] = "telecom" => StoredSoFar(k)'
    BY <1>0, <1>t, <2>1, <2>3, Zenon DEF StoredSoFar
  <2> QED BY <1>f, <2>1, <2>4, Zenon
<1>3. CASE StoreTelecomSessions(k)
  <2>1. /\ row' = row /\ job' = job /\ flowed' = flowed /\ found' = found /\ pc[k] = "telecom"
        /\ \A u \in Tables : u # "telecom" => data'[j][u] = data[j][u]
        /\ (pc'[k] = "fail" \/ pc'[k] = "flows")
    <3>1. StoreLogged(k, "telecom", "flows")
      BY <1>3, Zenon DEF StoreTelecomSessions
    <3>2. "telecom" \in Tables /\ "flows" \in Steps
      BY <1>t, Zenon DEF Steps
    <3> QED BY <1>s, <3>1, <3>2, Zenon
  <2>2. flowed[k] = 0
    BY <2>1, Zenon DEF WorkerInv
  <2>3. {k} \X (1..flowed'[k]) = {}
    BY <2>1, <2>2
  <2>4. pc'[k] = "flows" => StoredSoFar(k)'
    BY <1>0, <1>t, <1>r, <2>1, <2>2, <2>3, Zenon DEF StoredSoFar
  <2> QED BY <1>f, <2>1, <2>4, Zenon
<1>4. CASE StoreFlow(k)
  <2>1. row' = row /\ job' = job /\ found' = found /\ pc[k] = "flows" /\ "flows" \in found[k]
    BY <1>4, Zenon DEF StoreFlow
  <2>2. CASE Goto(k, "fail")
    BY <1>f, <2>1, <2>2, Zenon DEF TypeOK, Goto
  <2>3. CASE /\ data' = [data EXCEPT ![job[k]]["flows"] = @ \cup {<<k, flowed[k] + 1>>}]
             /\ flowed' = [flowed EXCEPT ![k] = @ + 1]
             /\ UNCHANGED pc
    <3>1. flowed[k] \in Nat /\ flowed'[k] = flowed[k] + 1
      BY <2>3 DEF TypeOK
    <3>2. data[j]["flows"] = {k} \X (1..flowed[k])
      BY <2>1, Zenon DEF StoredSoFar
    <3>3. data'[j]["flows"] = data[j]["flows"] \cup {<<k, flowed[k] + 1>>}
      BY <2>3, <1>t DEF TypeOK
    <3>4. \A u \in Tables : u # "flows" => data'[j][u] = data[j][u]
      BY <2>3, Zenon DEF TypeOK
    <3>5. data'[j]["flows"] = {k} \X (1..flowed'[k])
      BY ONLY <3>1, <3>2, <3>3
    <3>6. StoredSoFar(k)'
      BY <1>0, <1>r, <1>t, <2>1, <2>3, <3>4, <3>5, ZenonT(30) DEF StoredSoFar
    <3> QED BY <2>1, <2>3, <3>6, Zenon
  <2> QED BY <1>4, <2>2, <2>3, Zenon DEF StoreFlow
<1>5. CASE FlowsStored(k)
  <2>1. /\ row' = row /\ data' = data /\ job' = job /\ flowed' = flowed /\ found' = found
        /\ pc[k] = "flows" /\ pc'[k] = "calls" /\ ("flows" \in found[k] => flowed[k] = FlowRows)
    BY <1>5, Zenon DEF TypeOK, FlowsStored, Goto
  <2>2. data[j]["flows"] = {k} \X (1..flowed[k]) /\ ("flows" \in found[k] \/ flowed[k] = 0)
    BY <2>1, Zenon DEF StoredSoFar
  <2>3. data[j]["flows"] = Rows(k, "flows")
    <3>1. CASE "flows" \in found[k]
      BY <2>1, <2>2, <3>1, Zenon DEF Rows
    <3>2. CASE "flows" \notin found[k]
      <4>1. flowed[k] = 0 /\ Rows(k, "flows") = {}
        BY <2>2, <3>2, Zenon DEF Rows
      <4>2. {k} \X (1..flowed[k]) = {}
        BY <4>1
      <4> QED BY <2>2, <4>1, <4>2, Zenon
    <3> QED BY <3>1, <3>2, Zenon
  <2>4. StoredSoFar(k)'
    BY <1>0, <1>r, <1>t, <2>1, <2>3, Zenon DEF StoredSoFar
  <2> QED BY <2>1, <2>4, Zenon
<1>6. CASE StoreCalls(k)
  <2>1. /\ row' = row /\ job' = job /\ flowed' = flowed /\ found' = found /\ pc[k] = "calls"
        /\ \A u \in Tables : u # "calls" => data'[j][u] = data[j][u]
        /\ \/ pc'[k] = "fail"
           \/ pc'[k] = "rtp_legs" /\ Commits(k, "calls", Inserted(k, "calls"))
    <3>1. pc'[k] = "fail" \/ (pc'[k] = "rtp_legs" /\ Commits(k, "calls", Inserted(k, "calls")))
      BY <1>6, Zenon DEF TypeOK, StoreCalls, StoreOrFail, Goto
    <3> QED BY <1>6, <1>s, <1>t, <3>1, Zenon DEF StoreCalls, Steps
  <2>2. data[j]["calls"] = {}
    BY <2>1, Zenon DEF StoredSoFar
  <2>3. pc'[k] = "rtp_legs" => data'[j]["calls"] = Rows(k, "calls")'
    BY <1>r, <1>t, <2>1, <2>2, StoresRows, Zenon
  <2>4. pc'[k] = "rtp_legs" => StoredSoFar(k)'
    BY <1>0, <1>r, <1>t, <2>1, <2>3, Zenon DEF StoredSoFar
  <2> QED BY <1>f, <2>1, <2>4, Zenon
<1>7. CASE StoreRTPLegs(k)
  <2>1. /\ row' = row /\ job' = job /\ flowed' = flowed /\ found' = found /\ pc[k] = "rtp_legs"
        /\ \A u \in Tables : u # "rtp_legs" => data'[j][u] = data[j][u]
        /\ \/ pc'[k] = "fail"
           \/ pc'[k] = "packets" /\ Commits(k, "rtp_legs", Inserted(k, "rtp_legs"))
    <3>1. pc'[k] = "fail" \/ (pc'[k] = "packets" /\ Commits(k, "rtp_legs", Inserted(k, "rtp_legs")))
      BY <1>7, Zenon DEF TypeOK, StoreRTPLegs, StoreOrFail, Goto
    <3> QED BY <1>7, <1>s, <1>t, <3>1, Zenon DEF StoreRTPLegs, Steps
  <2>2. data[j]["rtp_legs"] = {}
    BY <2>1, Zenon DEF StoredSoFar
  <2>3. pc'[k] = "packets" => data'[j]["rtp_legs"] = Rows(k, "rtp_legs")'
    BY <1>r, <1>t, <2>1, <2>2, StoresRows, Zenon
  <2>4. pc'[k] = "packets" => StoredSoFar(k)'
    BY <1>0, <1>r, <1>t, <2>1, <2>3, Zenon DEF StoredSoFar
  <2> QED BY <1>f, <2>1, <2>4, Zenon
<1>8. CASE StorePackets(k)
  <2>1. /\ row' = row /\ job' = job /\ flowed' = flowed /\ found' = found /\ pc[k] = "packets"
        /\ \A u \in Tables : u # "packets" => data'[j][u] = data[j][u]
        /\ \/ pc'[k] = "fail"
           \/ pc'[k] = "complete" /\ Commits(k, "packets", Inserted(k, "packets"))
           \/ pc'[k] = "complete" /\ data' = data
    BY <1>8, <1>s, <1>t, Zenon DEF StorePackets, Steps
  <2>2. data[j]["packets"] = {}
    BY <2>1, Zenon DEF StoredSoFar
  <2>3. pc'[k] = "complete" => data'[j]["packets"] \in {{}, Rows(k, "packets")'}
    BY <1>r, <1>t, <2>1, <2>2, StoresRows, Zenon
  <2>4. pc'[k] = "complete" => StoredSoFar(k)'
    BY <1>0, <1>r, <1>t, <2>1, <2>3, Zenon DEF StoredSoFar
  <2> QED BY <1>f, <2>1, <2>4, Zenon
<1>9. CASE CompleteJob(k)
  <2>1. /\ data' = data /\ job' = job /\ nruns' = nruns /\ found' = found
        /\ pc[k] = "complete" /\ pc'[k] = "done"
    BY <1>9, Zenon DEF TypeOK, CompleteJob, Settle, Goto
  <2>2. k \in 1..nruns'
    BY <2>1 DEF TypeOK, WorkerInv, Runs
  <2>3. \A t \in {"flows", "calls", "rtp_legs"} : data'[j][t] = Rows(k, t)'
    BY <1>r, <1>t, <2>1, Zenon DEF StoredSoFar
  <2>4. \A t \in {"events", "packets"} : data'[j][t] \in {{}, Rows(k, t)'}
    BY <1>r, <1>t, <2>1, Zenon DEF StoredSoFar
  <2> QED BY <1>0, <2>1, <2>2, <2>3, <2>4, Zenon DEF Whole
<1>10. CASE FailJob(k)
  BY <1>10, Zenon DEF TypeOK, FailJob, Settle, Goto, Present
<1> QED BY <1>1, <1>2, <1>3, <1>4, <1>5, <1>6, <1>7, <1>8, <1>9, <1>10, Zenon DEF Execute

LEMMA WholeStep ==
  ASSUME TypeOK, TypeOK', HandlerInv, HandlerInv', WorkerInv, WorkerInv', AloneInv, AloneInv',
         NoOrphans, serial, serial', WholeInv, [Next]_vars
  PROVE  WholeInv'
<1> USE JobConstants
<1>0. SUFFICES ASSUME NEW j \in Jobs, j \notin torn' PROVE JobInv(j)'
  BY Zenon DEF WholeInv
<1>i. ASSUME j \notin torn PROVE JobInv(j)
  BY <1>i, Zenon DEF WholeInv
<1>n. nruns \in Nat /\ nruns' \in Nat
  BY DEF TypeOK
<1>s. nruns' = nruns => nruns <= nruns' /\ \A k \in Runs : ~(k > nruns /\ k <= nruns')
  BY ONLY <1>n, JobConstants DEF Runs
<1>1. ASSUME NEW h \in Requests, NEW i \in Jobs, Upload(h, i) PROVE JobInv(j)'
  <2>1. JobInv(j)
    BY <1>0, <1>1, <1>i, Zenon DEF Upload
  <2>2. CASE i = j
    <3>1. hjob'[h] = j /\ hpc'[h] = "spawn" /\ row'[j] = "running" /\ data' = data /\ row[j] = "none"
      BY <1>1, <2>2 DEF TypeOK, Upload
    <3>2. \A t \in Cleared : data'[j][t] = {}
      BY <3>1, Zenon DEF NoOrphans, Present, Cleared, Tables
    <3> QED BY <3>1, <3>2, HandlerWorks, Zenon
  <2>3. CASE i # j
    <3>1. Quiet(j)
      BY <1>1, <1>n, <2>3 DEF TypeOK, HandlerInv, Upload, Quiet, Runs
    <3> QED BY <2>1, <3>1, QuietStep, Zenon
  <2> QED BY <2>2, <2>3, Zenon
<1>2. ASSUME NEW h \in Requests, NEW i \in Jobs, Reprocess(h, i) PROVE JobInv(j)'
  <2>1. JobInv(j)
    BY <1>0, <1>2, <1>i, Zenon DEF Reprocess
  <2>2. CASE i = j
    <3>1. hjob'[h] = j /\ hpc'[h] = "clear" /\ hpos'[h] = 1 /\ row'[j] \in Present
      BY <1>2, <2>2, ZenonT(30) DEF TypeOK, Reprocess
    <3>2. \A n \in 1..5 : ~(n < hpos'[h])
      BY <3>1
    <3> QED BY <3>1, <3>2, HandlerWorks, Zenon
  <2>3. CASE i # j
    <3>1. Quiet(j)
      BY <1>2, <1>n, <2>3 DEF TypeOK, HandlerInv, Reprocess, Quiet, Runs
    <3> QED BY <2>1, <3>1, QuietStep, Zenon
  <2> QED BY <2>2, <2>3, Zenon
<1>3. ASSUME NEW h \in Requests, Spawn(h) PROVE JobInv(j)'
  <2>1. JobInv(j)
    BY <1>0, <1>3, <1>i, Zenon DEF Spawn
  <2>2. /\ hpc[h] = "spawn" /\ hjob[h] \in Jobs /\ nruns < MaxRuns /\ nruns' = nruns + 1
        /\ row' = row /\ data' = data /\ found' = found /\ flowed' = flowed
        /\ pc' = [pc EXCEPT ![nruns + 1] = "decode"] /\ job' = [job EXCEPT ![nruns + 1] = hjob[h]]
        /\ hjob' = [hjob EXCEPT ![h] = None]
    BY <1>3, Zenon DEF TypeOK, HandlerInv, Spawn, Return
  <2>3. nruns + 1 \in Runs
    <3>1. nruns < MaxRuns
      BY <2>2, Zenon
    <3> QED BY ONLY <1>n, <3>1, JobConstants DEF Runs
  <2>4. CASE hjob[h] = j
    <3>0. PICK k \in Runs : k = nruns + 1
      BY <2>3, Zenon
    <3>1. job'[k] = j /\ pc'[k] = "decode"
      BY <2>2, <2>4, <3>0, Zenon DEF TypeOK
    <3>2. row[j] = "running" /\ \A t \in Cleared : data[j][t] = {}
      BY <2>1, <2>2, <2>4, Zenon DEF JobInv
    <3>3. StoredSoFar(k)'
      BY <2>2, <3>1, <3>2, Zenon DEF StoredSoFar, Cleared
    <3> QED BY <2>2, <3>1, <3>2, <3>3, ExecutionWorks, Zenon
  <2>5. CASE hjob[h] # j
    <3>1. \A g \in Requests : hjob[g] = j \/ hjob'[g] = j => hjob'[g] = hjob[g] /\ hpc'[g] = hpc[g] /\ hpos'[g] = hpos[g]
      BY <1>3, <2>2, <2>5 DEF TypeOK, Spawn, Return
    <3>2. \A k \in Runs : k <= nruns => job'[k] = job[k] /\ pc'[k] = pc[k]
      BY <1>n, <2>2, <2>3 DEF TypeOK, Runs
    <3>3. \A k \in Runs : k > nruns /\ k <= nruns' => job'[k] # j
      BY <1>n, <2>2, <2>3, <2>5 DEF TypeOK, Runs
    <3>4. Quiet(j)
      BY <1>n, <2>2, <3>1, <3>2, <3>3 DEF Quiet, Runs
    <3> QED BY <2>1, <3>4, QuietStep, Zenon
  <2> QED BY <2>4, <2>5, Zenon
<1>4. ASSUME NEW h \in Requests, Clear(h) PROVE JobInv(j)'
  <2>0. j \notin torn
    BY <1>0, <1>4, Zenon DEF Clear
  <2>1. JobInv(j)
    BY <1>i, <2>0, Zenon
  <2>2. /\ hpc[h] = "clear" /\ hjob[h] \in Jobs /\ hpos[h] <= Len(ClearOrder) /\ hpos' = [hpos EXCEPT ![h] = @ + 1]
        /\ UNCHANGED <<row, exec, hpc, hjob>>
    BY <1>4, Zenon DEF TypeOK, HandlerInv, Clear
  <2>3. hpos[h] \in Nat /\ hpos[h] <= 5 /\ hpos'[h] = hpos[h] + 1
    <3>1. Len(ClearOrder) = 5
      BY Zenon DEF ClearOrder
    <3>2. hpos[h] \in 0..6
      BY <3>1 DEF TypeOK
    <3>3. hpos'[h] = hpos[h] + 1
      BY <2>2, Zenon DEF TypeOK
    <3>4. hpos[h] <= Len(ClearOrder)
      BY <2>2, Zenon
    <3> QED BY ONLY <3>1, <3>2, <3>3, <3>4
  <2>4. CASE hjob[h] = j
    <3>1. data' = [data EXCEPT ![j][ClearOrder[hpos[h]]] = {}]
      BY <1>0, <1>4, <2>4, Zenon DEF Clear
    <3>2. row[j] \in Present /\ \A n \in 1..5 : n < hpos[h] => data[j][ClearOrder[n]] = {}
      BY <2>1, <2>2, <2>4, Zenon DEF JobInv
    <3>3. \A n \in 1..5 : ClearOrder[n] \in Tables
      BY DEF ClearOrder, Tables
    <3>4. ASSUME NEW n \in 1..5, n < hpos'[h] PROVE data'[j][ClearOrder[n]] = {}
      <4>1. n = hpos[h] \/ n < hpos[h]
        BY <2>3, <3>4
      <4>2. data'[j][ClearOrder[n]] = {} \/ data'[j][ClearOrder[n]] = data[j][ClearOrder[n]]
        BY <3>1, <3>3 DEF TypeOK
      <4>3. n = hpos[h] => data'[j][ClearOrder[n]] = {}
        BY <3>1, <3>3, ZenonT(30) DEF TypeOK
      <4> QED BY <3>2, <4>1, <4>2, <4>3, Zenon
    <3> QED BY <2>2, <2>4, <3>2, <3>4, HandlerWorks, Zenon
  <2>5. CASE hjob[h] # j
    <3>1. data'[j] = data[j]
      BY <1>4, <2>5, Zenon DEF TypeOK, Clear
    <3>2. \A g \in Requests : g # h => hpos'[g] = hpos[g]
      BY <2>2, Zenon DEF TypeOK
    <3>3. Quiet(j)
      BY <1>s, <2>2, <2>5, <3>1, <3>2, Zenon DEF Quiet
    <3> QED BY <2>1, <3>3, QuietStep, Zenon
  <2> QED BY <2>4, <2>5, Zenon
<1>5. ASSUME NEW h \in Requests, ResetStatus(h) PROVE JobInv(j)'
  <2>0. j \notin torn
    BY <1>0, <1>5, Zenon DEF ResetStatus
  <2>1. JobInv(j)
    BY <1>i, <2>0, Zenon
  <2>2. /\ hpc[h] = "clear" /\ hjob[h] \in Jobs /\ hpos[h] > 5
        /\ UNCHANGED <<data, exec>>
    BY <1>5, Zenon DEF TypeOK, HandlerInv, ResetStatus, ClearOrder
  <2>4. CASE hjob[h] = j
    <3>1. /\ row' = IF row[j] \in Present THEN [row EXCEPT ![j] = "running"] ELSE row
          /\ hpc' = [hpc EXCEPT ![h] = "spawn"] /\ hjob' = hjob
      BY <1>0, <1>5, <2>4, Zenon DEF ResetStatus
    <3>2. row[j] \in Present /\ \A n \in 1..5 : data[j][ClearOrder[n]] = {}
      <4>1. row[j] \in Present /\ \A n \in 1..5 : n < hpos[h] => data[j][ClearOrder[n]] = {}
        BY <2>1, <2>2, <2>4, Zenon DEF JobInv
      <4>3. Len(ClearOrder) = 5
        BY Zenon DEF ClearOrder
      <4>2. hpos[h] \in 0..6
        BY <4>3 DEF TypeOK
      <4> QED BY <2>2, <4>1, <4>2
    <3>3. \A t \in Cleared : \E n \in 1..5 : t = ClearOrder[n]
      BY DEF ClearOrder, Cleared
    <3>4. \A t \in Cleared : data'[j][t] = {}
      BY <2>2, <3>2, <3>3, Zenon
    <3>5. row'[j] = "running" /\ hpc'[h] = "spawn" /\ hjob'[h] = j
      BY <2>4, <3>1, <3>2, Zenon DEF TypeOK
    <3> QED BY <3>4, <3>5, HandlerWorks, Zenon
  <2>5. CASE hjob[h] # j
    <3>1. row'[j] = row[j]
      BY <1>5, <2>2, <2>5, Zenon DEF TypeOK, ResetStatus
    <3>2. \A g \in Requests : g # h => hpc'[g] = hpc[g] /\ hjob'[g] = hjob[g] /\ hpos'[g] = hpos[g]
      BY <1>5 DEF TypeOK, ResetStatus, Return
    <3>4. hjob'[h] # j
      BY <1>5, <2>5 DEF TypeOK, ResetStatus, Return
    <3>3. Quiet(j)
      BY <1>s, <2>2, <2>5, <3>1, <3>2, <3>4, Zenon DEF Quiet
    <3> QED BY <2>1, <3>3, QuietStep, Zenon
  <2> QED BY <2>4, <2>5, Zenon
<1>6. ASSUME NEW i \in Jobs, Delete(i) PROVE JobInv(j)'
  <2>1. JobInv(j)
    BY <1>0, <1>6, <1>i, Zenon DEF Delete
  <2>2. CASE i = j
    <3>1. Idle(j)' /\ row'[j] = "deleted"
      BY <1>6, <2>2 DEF TypeOK, Delete, Idle
    <3> QED BY <3>1, Unworked, Zenon
  <2>3. CASE i # j
    <3>1. /\ row'[j] = row[j] /\ data'[j] = data[j]
          /\ UNCHANGED <<hjob, hpc, hpos, nruns, job, pc, found, flowed>>
      BY <1>6, <2>3 DEF TypeOK, Delete, exec, handlers
    <3>2. Quiet(j)
      BY <1>s, <3>1, Zenon DEF Quiet
    <3> QED BY <2>1, <3>2, QuietStep, Zenon
  <2> QED BY <2>2, <2>3, Zenon
<1>7. ASSUME Purge PROVE JobInv(j)'
  <2>1. JobInv(j)
    BY <1>0, <1>7, <1>i, Zenon DEF Purge
  <2>2. \A t \in Tables : data'[j][t] = data[j][t] \/ (t = "packets" /\ data'[j][t] = {})
    BY <1>7, Zenon DEF TypeOK, Purge
  <2>3. Quiet(j)
    BY <1>7, <1>s, <2>2, Zenon DEF Purge, Quiet
  <2> QED BY <2>1, <2>3, QuietStep, Zenon
<1>8. ASSUME NEW k \in Runs, Execute(k) PROVE JobInv(j)'
  <2>1. Advances(k) /\ torn' = torn
    BY <1>8, ExecuteAdvances, Zenon DEF Advances
  <2>2. JobInv(j)
    BY <1>0, <1>i, <2>1, Zenon
  <2>3. CASE job[k] = j
    <3>1. row[j] = "running" /\ StoredSoFar(k) /\ pc[k] # "done"
      BY <2>1, <2>2, <2>3, Zenon DEF JobInv, Advances
    <3>2. job'[k] = j
      BY <2>1, <2>3, Zenon DEF Advances
    <3>3. CASE pc'[k] # "done" /\ row'[j] = "running" /\ StoredSoFar(k)'
      BY <3>2, <3>3, ExecutionWorks, Zenon
    <3>4. ASSUME pc'[k] = "done" PROVE Idle(j)'
      <4>1. \A m \in Runs : job'[m] = j => pc'[m] = "done"
        BY <2>1, <2>3, <3>1, <3>4, SMTT(30) DEF AloneInv, Advances
      <4>2. \A h \in Requests : hjob[h] # j
        BY <2>3, <3>1 DEF AloneInv, HandlerInv
      <4> QED BY <1>n, <2>1, <4>1, <4>2 DEF Idle, Advances, Runs, TypeOK
    <3>5. CASE pc'[k] = "done" /\ row'[j] # "completed"
      BY <3>4, <3>5, Unworked, Zenon
    <3>6. CASE pc'[k] = "done" /\ Whole(j)'
      BY <3>4, <3>6, Unworked, Zenon
    <3> QED BY <1>8, <2>3, <3>1, <3>3, <3>5, <3>6, ExecuteStores, Zenon
  <2>4. CASE job[k] # j
    <3>1. data'[j] = data[j]
      BY <1>8, <2>4, ExecuteData, Zenon
    <3>2. Quiet(j)
      BY <1>s, <2>1, <2>4, <3>1, Zenon DEF Quiet, Advances
    <3> QED BY <2>2, <3>2, QuietStep, Zenon
  <2> QED BY <2>3, <2>4, Zenon
<1>9. ASSUME Crash PROVE JobInv(j)'
  <2>1. j \notin torn /\ \A h \in Requests : hpc[h] = "clear" => hjob[h] # j
    BY <1>0, <1>9, Zenon DEF Crash
  <2>2. JobInv(j)
    BY <1>i, <2>1, Zenon
  <2>3. UNCHANGED <<row, data, nruns, job, found>> /\ Idle(j)'
    BY <1>9, <1>n DEF Crash, Idle, TypeOK, Runs
  <2>4. CASE row[j] # "completed"
    BY <2>3, <2>4, Unworked, Zenon
  <2>5. CASE row[j] = "completed"
    <3>1. Idle(j)
      <4>1. \A h \in Requests : hjob[h] # j
        BY <2>1, <2>2, <2>5, ZenonT(30) DEF JobInv, TypeOK, HandlerInv
      <4>2. \A k \in Runs : job[k] = j => pc[k] = "done"
        BY <2>2, <2>5, Zenon DEF JobInv
      <4> QED BY <1>n, <4>1, <4>2 DEF Idle, TypeOK, Runs
    <3>2. Whole(j)
      BY <2>2, <2>5, <3>1, Zenon DEF JobInv
    <3>3. Whole(j)'
      <4>3. nruns' = nruns /\ nruns \in 0..MaxRuns /\ MaxRuns \in Nat
        BY <2>3, Zenon DEF TypeOK
      <4>1. nruns <= nruns' /\ nruns <= MaxRuns
        BY ONLY <4>3
      <4>2. (\A t \in Tables : data'[j][t] = data[j][t]) /\ (\A k \in Runs : job'[k] = job[k] /\ found'[k] = found[k])
        BY <2>3, Zenon
      <4> QED BY <1>n, <3>2, <4>1, <4>2, WholeSame, Zenon
    <3> QED BY <2>3, <3>3, Unworked, Zenon
  <2> QED BY <2>4, <2>5, Zenon
<1>10. ASSUME Restart PROVE JobInv(j)'
  <2>1. JobInv(j) /\ (\A k \in Runs : pc[k] = "done") /\ (\A h \in Requests : hjob[h] # j)
    <3>1. ~up /\ torn' = torn
      BY <1>10, Zenon DEF Restart
    <3>2. (\A k \in Runs : pc[k] = "done") /\ (\A h \in Requests : hpc[h] = "idle")
      BY <3>1, Zenon DEF WorkerInv
    <3> QED BY <1>0, <1>i, <3>1, <3>2, Zenon DEF HandlerInv
  <2>2. UNCHANGED <<data, torn, exec, handlers>> /\ (row'[j] = row[j] \/ row'[j] = "failed")
    BY <1>10, Zenon DEF Restart
  <2>3. CASE row'[j] = row[j]
    <3>1. Quiet(j)
      BY <1>s, <2>2, <2>3, Zenon DEF Quiet
    <3> QED BY <2>1, <3>1, QuietStep, Zenon
  <2>4. CASE row'[j] = "failed"
    <3>1. Idle(j)'
      BY <1>n, <2>1, <2>2 DEF Idle, TypeOK, Runs
    <3> QED BY <2>4, <3>1, Unworked, Zenon
  <2> QED BY <2>2, <2>3, <2>4, Zenon
<1>11. ASSUME UNCHANGED vars PROVE JobInv(j)'
  <2>1. JobInv(j)
    BY <1>0, <1>11, <1>i, Zenon DEF vars
  <2>2. Quiet(j)
    BY <1>s, <1>11, Zenon DEF vars, Quiet
  <2> QED BY <2>1, <2>2, QuietStep, Zenon
<1> QED BY <1>1, <1>2, <1>3, <1>4, <1>5, <1>6, <1>7, <1>8, <1>9, <1>10, <1>11, Zenon DEF Next, Handle

(* A completed job that nothing works on holds the rows of one execution,   *)
(* whole and unmixed, for any number of jobs, requests, executions and      *)
(* crashes, whatever statements failed: provided that jobs are reprocessed  *)
(* one at a time and no ClearJobData of the job was cut short.              *)
THEOREM CompletedJobsAreWhole == Spec => []CompletedIsWhole
<1>1. Init => WorkerInv /\ AloneInv /\ WholeInv
  <2> SUFFICES ASSUME Init PROVE WorkerInv /\ AloneInv /\ WholeInv
    BY Zenon
  <2>1. WorkerInv
    BY DEF Init, WorkerInv, Runs
  <2>2. AloneInv
    BY Zenon DEF Init, AloneInv
  <2>3. WholeInv
    BY Zenon DEF Init, WholeInv, JobInv
  <2> QED BY <2>1, <2>2, <2>3, Zenon
<1>2. TypeOK /\ HandlerInv /\ NoOrphans /\ WorkerInv /\ AloneInv /\ WholeInv /\ [Next]_vars
        /\ TypeOK' /\ HandlerInv'
      => WorkerInv' /\ AloneInv' /\ WholeInv'
  <2> SUFFICES ASSUME TypeOK, HandlerInv, NoOrphans, WorkerInv, AloneInv, WholeInv, [Next]_vars, TypeOK', HandlerInv'
               PROVE  WorkerInv' /\ AloneInv' /\ WholeInv'
    BY Zenon
  <2>1. WorkerInv' /\ AloneInv'
    BY WorkersStep, Zenon
  <2>2. CASE serial /\ serial'
    BY <2>1, <2>2, WholeStep, Zenon
  <2>3. serial' = serial
    BY ModesKept, Zenon
  <2>4. CASE ~serial
    <3>1. ~serial'
      BY <2>3, <2>4, Zenon
    <3> QED BY <2>1, <3>1, Zenon DEF WholeInv
  <2> QED BY <2>1, <2>2, <2>3, <2>4, Zenon
<1>3. WholeInv => CompletedIsWhole
  BY Zenon DEF WholeInv, CompletedIsWhole, JobInv
<1> QED BY <1>1, <1>2, <1>3, JobTypeCorrect, NothingIsOrphaned, PTL DEF Spec
=============================================================================

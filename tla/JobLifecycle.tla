---------------------------- MODULE JobLifecycle ----------------------------
(***************************************************************************)
(* The jobs of uploaded pcap files: the HTTP handlers that create,         *)
(* reprocess, delete and purge them, the executions they spawn, the rows   *)
(* the executions write, and a restart of the process.  Every statement or *)
(* transaction of the database is one step.                                *)
(***************************************************************************)
EXTENDS Naturals, Sequences, FiniteSets

CONSTANTS
    Jobs,        \* ids of jobs (AUTOINCREMENT: an id is never used again)
    Requests,    \* requests served at the same time
    MaxRuns,     \* bound on the executions
    MaxCrashes,  \* bound on the restarts of the process
    FlowRows,    \* rows StoreFlows inserts, one statement each
    Outcomes,    \* what an analysis can find: sets of tables with rows to store
    None         \* no job

Tables == {"events", "telecom", "flows", "calls", "rtp_legs", "packets"}

ASSUME JobConstants ==
    /\ MaxRuns \in Nat
    /\ MaxCrashes \in Nat
    /\ FlowRows \in Nat \ {0}
    /\ Outcomes \subseteq SUBSET Tables
    /\ None \notin Jobs

Runs == 1..MaxRuns

VARIABLES
    sound,    \* no statement of the database fails (never changes)
    serial,   \* a job is reprocessed or deleted only when nothing works on it (never changes)
    up,       \* the server runs
    crashes,  \* restarts so far
    row,      \* the row of a job in table jobs: its status, or its absence
    data,     \* rows of a job in each table: <<execution, number>>
    torn,     \* jobs of which ClearJobData took effect in part (history)
    nruns,    \* executions spawned so far
    pc,       \* where an execution is in runPCAP
    job,      \* its job
    found,    \* the tables it has rows for
    flowed,   \* flows it has inserted
    hpc,      \* where a request handler is
    hjob,     \* its job
    hpos      \* the statement of ClearJobData it is at

modes == <<sound, serial>>
db == <<row, data, torn>>
exec == <<nruns, pc, job, found, flowed>>
handlers == <<hpc, hjob, hpos>>
vars == <<sound, serial, up, crashes, row, data, torn, nruns, pc, job, found,
          flowed, hpc, hjob, hpos>>

Present == {"running", "completed", "failed"}
Steps == {"decode", "events", "telecom", "flows", "calls", "rtp_legs",
          "packets", "complete", "fail", "done"}

\* The rows of execution k in table t.
Rows(k, t) ==
    IF t \notin found[k] THEN {}
    ELSE {k} \X (IF t = "flows" THEN 1..FlowRows ELSE {1})

\* Nothing works on job j.
Idle(j) ==
    /\ \A k \in 1..nruns : job[k] = j => pc[k] = "done"
    /\ \A h \in Requests : hjob[h] # j

Init ==
    /\ sound \in BOOLEAN
    /\ serial \in BOOLEAN
    /\ up = TRUE
    /\ crashes = 0
    /\ row = [j \in Jobs |-> "none"]
    /\ data = [j \in Jobs |-> [t \in Tables |-> {}]]
    /\ torn = {}
    /\ nruns = 0
    /\ pc = [k \in Runs |-> "done"]
    /\ job = [k \in Runs |-> None]
    /\ found = [k \in Runs |-> {}]
    /\ flowed = [k \in Runs |-> 0]
    /\ hpc = [h \in Requests |-> "idle"]
    /\ hjob = [h \in Requests |-> None]
    /\ hpos = [h \in Requests |-> 0]

----------------------------------------------------------------------------
(* The handlers of requests. *)

\* The bound on executions, counting those that handlers are about to spawn.
Budget == nruns + Cardinality({h \in Requests : hpc[h] # "idle"}) < MaxRuns

\* UploadPCAP: the file is saved and CreateJob inserts the row.
Upload(h, j) ==
    /\ up /\ hpc[h] = "idle" /\ Budget
    /\ row[j] = "none"
    /\ row' = [row EXCEPT ![j] = "running"]
    /\ hpc' = [hpc EXCEPT ![h] = "spawn"]
    /\ hjob' = [hjob EXCEPT ![h] = j]
    /\ UNCHANGED <<modes, up, crashes, data, torn, exec, hpos>>

\* The handler returns.
Return(h) ==
    /\ hpc' = [hpc EXCEPT ![h] = "idle"]
    /\ hjob' = [hjob EXCEPT ![h] = None]
    /\ hpos' = [hpos EXCEPT ![h] = 0]

\* go RunPCAPForJob: the end of UploadPCAP and of ReprocessJob.
Spawn(h) ==
    /\ up /\ hpc[h] = "spawn"
    /\ nruns < MaxRuns
    /\ nruns' = nruns + 1
    /\ pc' = [pc EXCEPT ![nruns + 1] = "decode"]
    /\ job' = [job EXCEPT ![nruns + 1] = hjob[h]]
    /\ Return(h)
    /\ UNCHANGED <<modes, up, crashes, db, found, flowed>>

\* Mutant of Reprocess: nothing is cleared.
ReprocessUncleared(h, j) ==
    /\ up /\ hpc[h] = "idle" /\ Budget
    /\ row[j] \in Present
    /\ serial => Idle(j)
    /\ hpc' = [hpc EXCEPT ![h] = "spawn"]
    /\ hjob' = [hjob EXCEPT ![h] = j]
    /\ UNCHANGED <<modes, up, crashes, db, exec, hpos>>

\* ReprocessJob: GetJob finds the row, the file is still there.  The status of
\* the job is not looked at.
Reprocess(h, j) ==
    /\ up /\ hpc[h] = "idle" /\ Budget
    /\ row[j] \in Present
    /\ serial => Idle(j)
    /\ hpc' = [hpc EXCEPT ![h] = "clear"]
    /\ hjob' = [hjob EXCEPT ![h] = j]
    /\ hpos' = [hpos EXCEPT ![h] = 1]
    /\ UNCHANGED <<modes, up, crashes, db, exec>>

\* The tables ClearJobData empties, in its order.
ClearOrder == <<"flows", "calls", "rtp_legs", "events", "packets">>

\* One DELETE of ClearJobData; an error is logged and passed over.
Clear(h) ==
    LET j == hjob[h] IN
    /\ up /\ hpc[h] = "clear" /\ hpos[h] <= Len(ClearOrder)
    /\ hpos' = [hpos EXCEPT ![h] = @ + 1]
    /\ \/ /\ data' = [data EXCEPT ![j][ClearOrder[hpos[h]]] = {}]
          /\ UNCHANGED torn
       \/ /\ ~sound
          /\ torn' = torn \cup {j}
          /\ UNCHANGED data
    /\ UNCHANGED <<modes, up, crashes, row, exec, hpc, hjob>>

\* The UPDATE that ends ClearJobData; its error ends the request.
ResetStatus(h) ==
    LET j == hjob[h] IN
    /\ up /\ hpc[h] = "clear" /\ hpos[h] > Len(ClearOrder)
    /\ \/ /\ row' = IF row[j] \in Present THEN [row EXCEPT ![j] = "running"] ELSE row
          /\ hpc' = [hpc EXCEPT ![h] = "spawn"]
          /\ UNCHANGED <<torn, hjob, hpos>>
       \/ /\ ~sound
          /\ torn' = torn \cup {j}
          /\ Return(h)
          /\ UNCHANGED row
    /\ UNCHANGED <<modes, up, crashes, data, exec>>

\* DeleteJob: one transaction over all tables; an error rolls it back.
Delete(j) ==
    /\ up /\ row[j] \in Present
    /\ serial => Idle(j)
    /\ row' = [row EXCEPT ![j] = "deleted"]
    /\ data' = [data EXCEPT ![j] = [t \in Tables |-> {}]]
    /\ UNCHANGED <<modes, up, crashes, torn, exec, handlers>>

\* PurgeAllPackets.
Purge ==
    /\ up
    /\ \E j \in Jobs : data[j]["packets"] # {}
    /\ data' = [j \in Jobs |-> [data[j] EXCEPT !["packets"] = {}]]
    /\ UNCHANGED <<modes, up, crashes, row, torn, exec, handlers>>

----------------------------------------------------------------------------
(* An execution, runPCAP. *)

\* Execution k goes on to step s.
Goto(k, s) == pc' = [pc EXCEPT ![k] = s]

\* The pipeline reads and decodes the file: it fails, or the file is empty, or
\* the analysis finds something.
Decode(k) ==
    /\ up /\ pc[k] = "decode"
    /\ \/ Goto(k, "fail") /\ UNCHANGED found
       \/ \E o \in Outcomes : found' = [found EXCEPT ![k] = o] /\ Goto(k, "events")
    /\ UNCHANGED <<modes, up, crashes, db, nruns, job, flowed, handlers>>

\* Mutant of MayInsert: foreign_keys is OFF.
MayInsertAlways(j) == TRUE

\* Rows can be inserted for a job that has a row: foreign_keys is ON and
\* every table references jobs.
MayInsert(j) == row[j] \in Present

\* A transaction that leaves rs as the rows of k's job in table t.
Commits(k, t, rs) ==
    /\ t \in found[k] => MayInsert(job[k])
    /\ data' = IF t \in found[k] THEN [data EXCEPT ![job[k]][t] = rs] ELSE data

\* A transaction that fails, as it must when the job is gone, and is rolled back.
Aborts(k, t) ==
    /\ sound => t \in found[k] /\ ~MayInsert(job[k])
    /\ UNCHANGED data

\* What is left of table t when k inserts: StoreTelecomSessions replaces the
\* session of the same id, StoreCalls ignores a call that is there already.
Inserted(k, t) ==
    LET old == data[job[k]][t] IN
    CASE t = "telecom" -> Rows(k, t)
      [] t = "calls" -> IF old = {} THEN Rows(k, t) ELSE old
      [] OTHER -> old \cup Rows(k, t)

\* StoreEvents, StoreTelecomSessions and StorePackets: an error is logged.
StoreLogged(k, t, next) ==
    /\ up /\ pc[k] = t
    /\ Commits(k, t, Inserted(k, t)) \/ Aborts(k, t)
    /\ Goto(k, next)
    /\ UNCHANGED <<modes, up, crashes, row, torn, nruns, job, found, flowed, handlers>>

\* StoreCalls and StoreRTPLegs: an error fails the job.
StoreOrFail(k, t, next) ==
    /\ up /\ pc[k] = t
    /\ \/ Commits(k, t, Inserted(k, t)) /\ Goto(k, next)
       \/ Aborts(k, t) /\ Goto(k, "fail")
    /\ UNCHANGED <<modes, up, crashes, row, torn, nruns, job, found, flowed, handlers>>

\* StoreFlows: a statement per flow, no transaction.
StoreFlow(k) ==
    /\ up /\ pc[k] = "flows"
    /\ "flows" \in found[k] /\ flowed[k] < FlowRows
    /\ \/ /\ MayInsert(job[k])
          /\ data' = [data EXCEPT ![job[k]]["flows"] = @ \cup {<<k, flowed[k] + 1>>}]
          /\ flowed' = [flowed EXCEPT ![k] = @ + 1]
          /\ UNCHANGED pc
       \/ /\ Aborts(k, "flows")
          /\ Goto(k, "fail")
          /\ UNCHANGED flowed
    /\ UNCHANGED <<modes, up, crashes, row, torn, nruns, job, found, handlers>>

FlowsStored(k) ==
    /\ up /\ pc[k] = "flows"
    /\ "flows" \in found[k] => flowed[k] = FlowRows
    /\ Goto(k, "calls")
    /\ UNCHANGED <<modes, up, crashes, db, nruns, job, found, flowed, handlers>>

\* The last UPDATE of an execution sets the status, whatever it was; with an
\* error the row stays as it is and the execution ends all the same.
Settle(k, step, status) ==
    LET j == job[k] IN
    /\ up /\ pc[k] = step
    /\ \/ row' = IF row[j] \in Present THEN [row EXCEPT ![j] = status] ELSE row
       \/ ~sound /\ UNCHANGED row
    /\ Goto(k, "done")
    /\ UNCHANGED <<modes, up, crashes, data, torn, nruns, job, found, flowed, handlers>>

CompleteJob(k) == Settle(k, "complete", "completed")

\* Mutant of FailJob: an error path that returns without it.
FailJobForgotten(k) ==
    /\ up /\ pc[k] = "fail"
    /\ Goto(k, "done")
    /\ UNCHANGED <<modes, up, crashes, db, nruns, job, found, flowed, handlers>>

FailJob(k) == Settle(k, "fail", "failed")

StoreEvents(k) == StoreLogged(k, "events", "telecom")
StoreTelecomSessions(k) == StoreLogged(k, "telecom", "flows")
StoreCalls(k) == StoreOrFail(k, "calls", "rtp_legs")
StoreRTPLegs(k) == StoreOrFail(k, "rtp_legs", "packets")
StorePackets(k) == StoreLogged(k, "packets", "complete")

\* runPCAP.
Execute(k) ==
    \/ Decode(k)
    \/ StoreEvents(k) \/ StoreTelecomSessions(k)
    \/ StoreFlow(k) \/ FlowsStored(k)
    \/ StoreCalls(k) \/ StoreRTPLegs(k) \/ StorePackets(k)
    \/ CompleteJob(k) \/ FailJob(k)

----------------------------------------------------------------------------
(* The process. *)

\* The process ends, by a signal or a crash: nothing waits for executions.
Crash ==
    /\ up /\ crashes < MaxCrashes
    /\ up' = FALSE
    /\ crashes' = crashes + 1
    /\ torn' = torn \cup {hjob[h] : h \in {r \in Requests : hpc[r] = "clear"}}
    /\ pc' = [k \in Runs |-> "done"]
    /\ hpc' = [h \in Requests |-> "idle"]
    /\ hjob' = [h \in Requests |-> None]
    /\ hpos' = [h \in Requests |-> 0]
    /\ UNCHANGED <<modes, row, data, nruns, job, found, flowed>>

\* main: ResetStaleJobs, then the server starts; an error is logged.
Restart ==
    /\ ~up
    /\ up' = TRUE
    /\ \/ row' = [j \in Jobs |-> IF row[j] = "running" THEN "failed" ELSE row[j]]
       \/ ~sound /\ UNCHANGED row
    /\ UNCHANGED <<modes, crashes, data, torn, exec, handlers>>

----------------------------------------------------------------------------
Handle(h) == Spawn(h) \/ Clear(h) \/ ResetStatus(h)

Next ==
    \/ \E h \in Requests, j \in Jobs : Upload(h, j) \/ Reprocess(h, j)
    \/ \E h \in Requests : Handle(h)
    \/ \E j \in Jobs : Delete(j)
    \/ Purge
    \/ \E k \in Runs : Execute(k)
    \/ Crash
    \/ Restart

Spec == Init /\ [][Next]_vars

\* A handler and an execution that can take a step take one, statements return,
\* and a process that ended is started again.
FairSpec ==
    /\ Spec
    /\ \A h \in Requests : WF_vars(Handle(h))
    /\ \A k \in Runs : WF_vars(Execute(k))
    /\ WF_vars(Restart)

----------------------------------------------------------------------------
(* Properties. *)

\* Types, and a handler is past the statements of ClearJobData by one at most.
TypeOK ==
    /\ sound \in BOOLEAN /\ serial \in BOOLEAN /\ up \in BOOLEAN
    /\ crashes \in 0..MaxCrashes
    /\ row \in [Jobs -> Present \cup {"none", "deleted"}]
    /\ data \in [Jobs -> [Tables -> SUBSET (Runs \X (1..FlowRows))]]
    /\ torn \subseteq Jobs
    /\ nruns \in 0..MaxRuns
    /\ pc \in [Runs -> Steps]
    /\ job \in [Runs -> Jobs \cup {None}]
    /\ found \in [Runs -> SUBSET Tables]
    /\ flowed \in [Runs -> 0..FlowRows]
    /\ hpc \in [Requests -> {"idle", "clear", "spawn"}]
    /\ hjob \in [Requests -> Jobs \cup {None}]
    /\ hpos \in [Requests -> 0..(Len(ClearOrder) + 1)]

\* DeleteJob leaves no orphaned rows: a job without a row in table jobs has no
\* rows anywhere, also when it is deleted under a running execution.
NoOrphans == \A j \in Jobs, t \in Tables : data[j][t] # {} => row[j] \in Present

\* A running server shows a job as "running" only while a handler or an
\* execution works on it, across reprocessing and restarts (when the statements
\* that set the status succeed).
RunningIsWorked ==
    up /\ sound => \A j \in Jobs : row[j] = "running" => ~Idle(j)

\* Job j holds exactly the flows, calls and legs of one execution, with its
\* events and packets or none of those.
Whole(j) ==
    \E k \in 1..nruns :
        /\ job[k] = j
        /\ \A t \in {"flows", "calls", "rtp_legs"} : data[j][t] = Rows(k, t)
        /\ \A t \in {"events", "packets"} : data[j][t] \in {{}, Rows(k, t)}

\* A job that CompleteJob has marked and that nothing works on holds the rows of
\* one execution, whole and unmixed, whatever was stored, failed or crashed
\* before; provided that jobs are reprocessed one at a time and that no
\* ClearJobData of the job was cut short.
CompletedIsWhole ==
    serial => \A j \in Jobs \ torn : row[j] = "completed" /\ Idle(j) => Whole(j)

\* ResetStaleJobs cleans up the jobs that a restart interrupted: once the server
\* is up again, a "completed" job that nothing works on is whole.
InterruptedIsFailed ==
    up /\ sound /\ serial => \A j \in Jobs : row[j] = "completed" /\ Idle(j) => Whole(j)

\* Every job settles: "running" ends, with the execution or with a restart.
JobSettles ==
    \A j \in Jobs : sound /\ row[j] = "running" ~> row[j] # "running"
=============================================================================

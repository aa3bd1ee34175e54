--------------------------- MODULE CaptureSession ---------------------------
(***************************************************************************)
(* One live capture session (internal/capture): the sources, the capture   *)
(* workers, the decode pool, the packet buffer, periodicFlush, the callers *)
(* of StopCapture, analyzeAndStore, and the StopAll / WaitIdle shutdown of *)
(* cmd/main.go.  Every goroutine is a process with a program counter.      *)
(*                                                                         *)
(* A session with one source hands its packets to the decode pool; one     *)
(* with several sources decodes in the capture workers.  Packet contents   *)
(* are abstracted to the flow they belong to.  WebSocket broadcasts never  *)
(* block and change no state of the session; they are left out.            *)
(***************************************************************************)
EXTENDS Integers, Sequences, FiniteSets, Functions

CONSTANTS
  Frames,         \* the raw packets that may arrive at the interface
  NoFlow,         \* the "flow" of a frame extractPacketFromRaw rejects
  FlowOf,         \* the flow of each frame
  Readers,        \* capture sources, one CaptureWorker each
  SourceOf,       \* the source each frame arrives at
  DecodeWorkers,  \* the workers of pipeline.Pool
  RouteOf,        \* the pool worker of each flow (pipeline.Route)
  EOFOnStop,      \* TRUE for channelSource: ReadPacket returns once stopped
  SourceCap,      \* packets a source can hold before it drops
  QueueCap,       \* PipelineBufferSize: capacity of a pool worker's channel
  MaxBuffered,    \* Session.maxBuffered
  WriteSlots,     \* capacity of periodicFlush's semaphore
  Stoppers,       \* callers of StopCapture: HTTP requests, agent handlers
  Main            \* the signal handler, which calls StopAll and WaitIdle

Callers == Stoppers \cup {Main}
Decoders == Readers \cup DecodeWorkers
DropReason == {"source", "parse", "full", "dberr"}

ASSUME ConstantsAssumption ==
  /\ Readers # {} /\ DecodeWorkers # {}
  /\ SourceOf \in [Frames -> Readers]
  /\ \A f \in Frames : FlowOf[f] # NoFlow => RouteOf[FlowOf[f]] \in DecodeWorkers
  /\ Readers \cap DecodeWorkers = {}
  /\ EOFOnStop \in BOOLEAN
  /\ {SourceCap, QueueCap, MaxBuffered, WriteSlots} \subseteq Nat \ {0}
  /\ Main \notin Stoppers

\* len(sources) == 1 selects the decode pool.
Pooled == \A r, q \in Readers : r = q

VARIABLES
  hasDB,      \* e.db # nil
  status,     \* Session.Status
  closes,     \* how often stopCh has been closed
  started,    \* the goroutines of the session have been launched
  published,  \* StartCapture has assigned Session.workers
  pending,    \* frames that have not arrived yet
  source,     \* frames waiting in each source
  rpc, rhand, \* capture workers: program counter and packet in hand
  queue,      \* the channel of each pool worker
  poolOpen,   \* pool.Close has not run
  dpc, dhand, \* pool workers: program counter and packet in hand
  decoded,    \* packets accumulated in each worker's protocol decoders
  buffer,     \* Session.packets
  fpc, fhand, \* periodicFlush: program counter and drained batch
  writes,     \* batches of the StorePackets goroutines of periodicFlush
  spc,        \* callers of StopCapture
  apc,        \* the analyzeAndStore goroutine each caller spawned
  aflows,     \* frames covered by the flows an analysis holds
  abatch,     \* packets an analysis is about to store
  job,        \* the status of the session's row in jobs
  stored,     \* rows of the packets table
  flowRows,   \* how many stored flow records account for a frame
  dropped,    \* frames given up, by reason
  exited      \* the process has ended

startVars  == <<started, published>>
sourceVars == <<pending, source>>
readerVars == <<rpc, rhand>>
poolVars   == <<queue, poolOpen, dpc, dhand>>
flushVars  == <<fpc, fhand, writes>>
stopVars   == <<status, closes, spc>>
analysisVars == <<apc, aflows, abatch>>
dbVars     == <<job, stored, flowRows>>
vars == <<hasDB, startVars, sourceVars, readerVars, poolVars, decoded, buffer,
          flushVars, stopVars, analysisVars, dbVars, dropped, exited>>

None == {}                 \* an empty hand

TypeOK ==
  /\ hasDB \in BOOLEAN /\ started \in BOOLEAN /\ published \in BOOLEAN /\ exited \in BOOLEAN
  /\ status \in {"running", "stopped", "analyzing", "completed"}
  /\ closes \in Nat
  /\ pending \subseteq Frames
  /\ source \in [Readers -> Seq(Frames)]
  /\ rpc \in [Readers -> {"check", "read", "submit", "decode", "close", "done"}]
  /\ rhand \in [Readers -> SUBSET Frames]
  /\ queue \in [DecodeWorkers -> Seq(Frames)]
  /\ poolOpen \in BOOLEAN
  /\ dpc \in [DecodeWorkers -> {"recv", "decode", "flushall", "done"}]
  /\ dhand \in [DecodeWorkers -> SUBSET Frames]
  /\ decoded \in [Decoders -> SUBSET Frames]
  /\ buffer \subseteq Frames
  /\ fpc \in {"select", "acquire", "requeue", "done"}
  /\ fhand \subseteq Frames
  /\ writes \subseteq SUBSET Frames
  /\ spc \in [Callers -> {"idle", "stop", "spawn", "done"}]
  /\ apc \in [Callers -> {"none", "start", "wait", "flush", "flows", "calls",
                          "drain", "packets", "complete", "done"}]
  /\ aflows \in [Callers -> SUBSET Frames]
  /\ abatch \in [Callers -> SUBSET Frames]
  /\ job \in {"none", "running", "completed", "failed"}
  /\ stored \subseteq Frames
  /\ flowRows \in [Frames -> Nat]
  /\ dropped \in [DropReason -> SUBSET Frames]

\* StartCapture / StartVirtualCapture up to the publication in e.sessions.
\* A failed CreateJob is only logged: the session then has no row in jobs.
Init ==
  /\ hasDB \in BOOLEAN
  /\ status = "running" /\ closes = 0 /\ started = FALSE /\ published = FALSE
  /\ pending = Frames
  /\ source = [r \in Readers |-> << >>]
  /\ rpc = [r \in Readers |-> "check"]
  /\ rhand = [r \in Readers |-> None]
  /\ queue = [w \in DecodeWorkers |-> << >>]
  /\ poolOpen = TRUE
  /\ dpc = [w \in DecodeWorkers |-> "recv"]
  /\ dhand = [w \in DecodeWorkers |-> None]
  /\ decoded = [d \in Decoders |-> {}]
  /\ buffer = {}
  /\ fpc = (IF hasDB THEN "select" ELSE "done") /\ fhand = None /\ writes = {}
  /\ spc = [c \in Callers |-> "idle"]
  /\ apc = [c \in Callers |-> "none"]
  /\ aflows = [c \in Callers |-> {}]
  /\ abatch = [c \in Callers |-> {}]
  /\ job \in (IF hasDB THEN {"running", "none"} ELSE {"none"})
  /\ stored = {} /\ flowRows = [f \in Frames |-> 0]
  /\ dropped = [x \in DropReason |-> {}]
  /\ exited = FALSE

stopped == closes > 0      \* a receive from StopCh() succeeds

\* The process is running, and still is after the step.
Up == ~exited /\ UNCHANGED exited

-----------------------------------------------------------------------------
(* The end of StartCapture: Session.decodePool is assigned before the      *)
(* goroutine of its reader starts, Session.workers after all of them did.  *)
(* The analysis of a session with a pool never reads Session.workers.      *)
Start ==
  /\ ~started
  /\ started' = TRUE /\ published' = Pooled
  /\ Up /\ UNCHANGED <<hasDB, sourceVars, readerVars, poolVars, decoded, buffer,
                       flushVars, stopVars, analysisVars, dbVars, dropped>>

Publish ==
  /\ started /\ ~published
  /\ published' = TRUE
  /\ Up /\ UNCHANGED <<hasDB, started, sourceVars, readerVars, poolVars, decoded, buffer,
                       flushVars, stopVars, analysisVars, dbVars, dropped>>

(* A packet reaches a source: the kernel's ring, or the channel of central *)
(* mode.  A full source drops it.                                          *)
Arrive(f) ==
  LET r == SourceOf[f] IN
  /\ started /\ f \in pending
  /\ pending' = pending \ {f}
  /\ IF Len(source[r]) < SourceCap
       THEN /\ source' = [source EXCEPT ![r] = Append(@, f)]
            /\ UNCHANGED dropped
       ELSE /\ dropped' = [dropped EXCEPT !["source"] = @ \cup {f}]
            /\ UNCHANGED source
  /\ Up /\ UNCHANGED <<hasDB, startVars, readerVars, poolVars, decoded, buffer,
                       flushVars, stopVars, analysisVars, dbVars>>

-----------------------------------------------------------------------------
(* CaptureWorker.Run and CaptureWorker.RunWithPool.                        *)

\* Where a capture worker goes when its loop returns: RunWithPool's deferred
\* pool.Close runs first.
AfterLoop == IF Pooled THEN "close" ELSE "done"

\* The non-blocking receive from StopCh at the top of the loop.
CheckStop(r) ==
  /\ started /\ rpc[r] = "check"
  /\ rpc' = [rpc EXCEPT ![r] = IF stopped THEN AfterLoop ELSE "read"]
  /\ Up /\ UNCHANGED <<hasDB, startVars, sourceVars, rhand, poolVars, decoded, buffer,
                       flushVars, stopVars, analysisVars, dbVars, dropped>>

\* ReadPacket returns a packet; one that extractPacketFromRaw rejects is
\* counted as a parse drop and the loop continues.
ReadPacket(r) ==
  /\ rpc[r] = "read" /\ source[r] # << >>
  /\ LET f == Head(source[r]) IN
     IF FlowOf[f] = NoFlow
       THEN /\ rpc' = [rpc EXCEPT ![r] = "check"]
            /\ dropped' = [dropped EXCEPT !["parse"] = @ \cup {f}]
            /\ UNCHANGED rhand
       ELSE /\ rpc' = [rpc EXCEPT ![r] = IF Pooled THEN "submit" ELSE "decode"]
            /\ rhand' = [rhand EXCEPT ![r] = {f}]
            /\ UNCHANGED dropped
  /\ source' = [source EXCEPT ![r] = Tail(@)]
  /\ Up /\ UNCHANGED <<hasDB, startVars, pending, poolVars, decoded, buffer,
                       flushVars, stopVars, analysisVars, dbVars>>

\* ReadPacket returns an error.  channelSource does so exactly when the
\* session is stopped; a pcap or AF_PACKET source on a transient error.  The
\* worker returns if the session is stopped and retries if it is not.
ReadError(r) ==
  /\ rpc[r] = "read"
  /\ EOFOnStop => stopped
  /\ rpc' = [rpc EXCEPT ![r] = IF stopped THEN AfterLoop ELSE "check"]
  /\ Up /\ UNCHANGED <<hasDB, startVars, sourceVars, rhand, poolVars, decoded, buffer,
                       flushVars, stopVars, analysisVars, dbVars, dropped>>

\* pool.Submit blocks while the channel of the flow's worker is full.
Submit(r) ==
  /\ rpc[r] = "submit"
  /\ \E f \in rhand[r] :
       LET w == RouteOf[FlowOf[f]] IN
       /\ Len(queue[w]) < QueueCap
       /\ queue' = [queue EXCEPT ![w] = Append(@, f)]
  /\ rhand' = [rhand EXCEPT ![r] = None]
  /\ rpc' = [rpc EXCEPT ![r] = "check"]
  /\ Up /\ UNCHANGED <<hasDB, startVars, sourceVars, poolOpen, dpc, dhand, decoded, buffer,
                       flushVars, stopVars, analysisVars, dbVars, dropped>>

\* Session.BufferPacket: drops the packet when the buffer is full.
BufferPacket(f) ==
  IF Cardinality(buffer) < MaxBuffered
    THEN buffer' = buffer \cup {f} /\ UNCHANGED dropped
    ELSE /\ dropped' = [dropped EXCEPT !["full"] = @ \cup {f}]
         /\ UNCHANGED buffer

\* The rest of Run's loop body: the worker's own decoders, then the buffer.
ReaderDecode(r) ==
  /\ rpc[r] = "decode"
  /\ decoded' = [decoded EXCEPT ![r] = @ \cup rhand[r]]
  /\ \E f \in rhand[r] : BufferPacket(f)
  /\ rhand' = [rhand EXCEPT ![r] = None]
  /\ rpc' = [rpc EXCEPT ![r] = "check"]
  /\ Up /\ UNCHANGED <<hasDB, startVars, sourceVars, poolVars,
                       flushVars, stopVars, analysisVars, dbVars>>

\* Mutant: the capture worker returns without pool.Close.
ClosePoolForgotten(r) ==
  /\ rpc[r] = "close"
  /\ rpc' = [rpc EXCEPT ![r] = "done"]
  /\ Up /\ UNCHANGED <<hasDB, startVars, sourceVars, rhand, poolVars, decoded, buffer,
                       flushVars, stopVars, analysisVars, dbVars, dropped>>

\* The deferred pool.Close of RunWithPool.
ClosePool(r) ==
  /\ rpc[r] = "close"
  /\ rpc' = [rpc EXCEPT ![r] = "done"]
  /\ poolOpen' = FALSE
  /\ Up /\ UNCHANGED <<hasDB, startVars, sourceVars, rhand, queue, dpc, dhand, decoded, buffer,
                       flushVars, stopVars, analysisVars, dbVars, dropped>>

-----------------------------------------------------------------------------
(* DecodeWorker.Run.                                                       *)

\* range w.ch yields the next packet.
Receive(w) ==
  /\ started /\ dpc[w] = "recv" /\ queue[w] # << >>
  /\ dhand' = [dhand EXCEPT ![w] = {Head(queue[w])}]
  /\ queue' = [queue EXCEPT ![w] = Tail(@)]
  /\ dpc' = [dpc EXCEPT ![w] = "decode"]
  /\ Up /\ UNCHANGED <<hasDB, startVars, sourceVars, readerVars, poolOpen, decoded, buffer,
                       flushVars, stopVars, analysisVars, dbVars, dropped>>

\* The decoders and the assembler see the packet, then onPacket buffers it.
PoolDecode(w) ==
  /\ dpc[w] = "decode"
  /\ decoded' = [decoded EXCEPT ![w] = @ \cup dhand[w]]
  /\ \E f \in dhand[w] : BufferPacket(f)
  /\ dhand' = [dhand EXCEPT ![w] = None]
  /\ dpc' = [dpc EXCEPT ![w] = "recv"]
  /\ Up /\ UNCHANGED <<hasDB, startVars, sourceVars, readerVars, queue, poolOpen,
                       flushVars, stopVars, analysisVars, dbVars>>

\* Mutant: a pool worker leaves on Close with packets in its channel.
DrainedEarly(w) ==
  /\ started /\ dpc[w] = "recv" /\ ~poolOpen
  /\ dpc' = [dpc EXCEPT ![w] = "flushall"]
  /\ Up /\ UNCHANGED <<hasDB, startVars, sourceVars, readerVars, queue, poolOpen, dhand, decoded,
                       buffer, flushVars, stopVars, analysisVars, dbVars, dropped>>

\* The channel is closed and drained: the assembler is flushed into the
\* decoders, then wg.Done.
Drained(w) ==
  /\ started /\ dpc[w] = "recv" /\ queue[w] = << >> /\ ~poolOpen
  /\ dpc' = [dpc EXCEPT ![w] = "flushall"]
  /\ Up /\ UNCHANGED <<hasDB, startVars, sourceVars, readerVars, queue, poolOpen, dhand, decoded,
                       buffer, flushVars, stopVars, analysisVars, dbVars, dropped>>

FlushAssembler(w) ==
  /\ dpc[w] = "flushall"
  /\ dpc' = [dpc EXCEPT ![w] = "done"]
  /\ Up /\ UNCHANGED <<hasDB, startVars, sourceVars, readerVars, queue, poolOpen, dhand, decoded,
                       buffer, flushVars, stopVars, analysisVars, dbVars, dropped>>

-----------------------------------------------------------------------------
(* periodicFlush and the StorePackets goroutines it spawns.                *)

FlushStop ==
  /\ started /\ fpc = "select" /\ stopped
  /\ fpc' = "done"
  /\ Up /\ UNCHANGED <<hasDB, startVars, sourceVars, readerVars, poolVars, decoded, buffer, fhand,
                       writes, stopVars, analysisVars, dbVars, dropped>>

\* Mutant: DrainPackets returns the packets and keeps them.
FlushTickKeeps ==
  /\ started /\ fpc = "select" /\ buffer # {}
  /\ fhand' = buffer /\ fpc' = "acquire"
  /\ Up /\ UNCHANGED <<hasDB, startVars, sourceVars, readerVars, poolVars, decoded, buffer, writes,
                       stopVars, analysisVars, dbVars, dropped>>

\* A tick with packets in the buffer; select may choose it although StopCh
\* is ready as well.  A tick that finds the buffer empty changes nothing.
FlushTick ==
  /\ started /\ fpc = "select" /\ buffer # {}
  /\ fhand' = buffer /\ buffer' = {}
  /\ fpc' = "acquire"
  /\ Up /\ UNCHANGED <<hasDB, startVars, sourceVars, readerVars, poolVars, decoded, writes,
                       stopVars, analysisVars, dbVars, dropped>>

\* A free slot of the semaphore takes the batch to its own goroutine; with
\* none free the batch goes back to the buffer.
FlushAcquire ==
  /\ fpc = "acquire"
  /\ IF Cardinality(writes) < WriteSlots
       THEN /\ writes' = writes \cup {fhand}
            /\ fhand' = None /\ fpc' = "select"
       ELSE fpc' = "requeue" /\ UNCHANGED <<writes, fhand>>
  /\ Up /\ UNCHANGED <<hasDB, startVars, sourceVars, readerVars, poolVars, decoded, buffer,
                       stopVars, analysisVars, dbVars, dropped>>

FlushRequeue ==
  /\ fpc = "requeue"
  /\ \/ /\ \E f \in fhand : BufferPacket(f) /\ fhand' = fhand \ {f}
        /\ UNCHANGED fpc
     \/ /\ fhand = None /\ fpc' = "select"
        /\ UNCHANGED <<fhand, buffer, dropped>>
  /\ Up /\ UNCHANGED <<hasDB, startVars, sourceVars, readerVars, poolVars, decoded, writes,
                       stopVars, analysisVars, dbVars>>

\* db.StorePackets is one transaction: all of the batch, or an error that the
\* callers only log.
StorePackets(batch) ==
  \/ stored' = stored \cup batch /\ UNCHANGED dropped
  \/ /\ dropped' = [dropped EXCEPT !["dberr"] = @ \cup batch]
     /\ UNCHANGED stored

FlushWrite(batch) ==
  /\ batch \in writes
  /\ StorePackets(batch)
  /\ writes' = writes \ {batch}
  /\ Up /\ UNCHANGED <<hasDB, startVars, sourceVars, readerVars, poolVars, decoded, buffer, fpc,
                       fhand, stopVars, analysisVars, job, flowRows>>

-----------------------------------------------------------------------------
(* Engine.StopCapture and Engine.StopAll.                                  *)

\* An HTTP request or an agent handler enters StopCapture.
StopRequest(c) ==
  /\ c \in Stoppers /\ spc[c] = "idle"
  /\ spc' = [spc EXCEPT ![c] = "stop"]
  /\ Up /\ UNCHANGED <<hasDB, startVars, sourceVars, readerVars, poolVars, decoded, buffer,
                       flushVars, status, closes, analysisVars, dbVars, dropped>>

\* The signal handler's StopAll calls StopCapture for a running session only.
StopAll ==
  /\ spc[Main] = "idle"
  /\ spc' = [spc EXCEPT ![Main] = IF status = "running" THEN "stop" ELSE "done"]
  /\ Up /\ UNCHANGED <<hasDB, startVars, sourceVars, readerVars, poolVars, decoded, buffer,
                       flushVars, status, closes, analysisVars, dbVars, dropped>>

\* Session.Stop, under statusMu.
SessionStop(c) ==
  /\ spc[c] = "stop"
  /\ spc' = [spc EXCEPT ![c] = "spawn"]
  /\ IF status = "running"
       THEN status' = "stopped" /\ closes' = closes + 1
       ELSE UNCHANGED <<status, closes>>
  /\ Up /\ UNCHANGED <<hasDB, startVars, sourceVars, readerVars, poolVars, decoded, buffer,
                       flushVars, analysisVars, dbVars, dropped>>

\* activeJobs.Add(1) and the goroutine running analyzeAndStore.
SpawnAnalysis(c) ==
  /\ spc[c] = "spawn"
  /\ spc' = [spc EXCEPT ![c] = "done"]
  /\ apc' = [apc EXCEPT ![c] = "start"]
  /\ Up /\ UNCHANGED <<hasDB, startVars, sourceVars, readerVars, poolVars, decoded, buffer,
                       flushVars, status, closes, aflows, abatch, dbVars, dropped>>

-----------------------------------------------------------------------------
(* Engine.analyzeAndStore, run by the goroutine of caller c.               *)

AnalyzeStart(c) ==
  /\ apc[c] = "start"
  /\ IF hasDB
       THEN status' = "analyzing" /\ apc' = [apc EXCEPT ![c] = "wait"]
       ELSE apc' = [apc EXCEPT ![c] = "done"] /\ UNCHANGED status
  /\ Up /\ UNCHANGED <<hasDB, startVars, sourceVars, readerVars, poolVars, decoded, buffer,
                       flushVars, closes, spc, aflows, abatch, dbVars, dropped>>

\* What analyzeAndStore finds to flush has been assigned.
Flushable == IF Pooled THEN started ELSE published

\* Mutant: no decodePool.Wait.
PoolWaitSkipped(c) ==
  /\ apc[c] = "wait"
  /\ apc' = [apc EXCEPT ![c] = IF Flushable THEN "flush" ELSE "flows"]
  /\ Up /\ UNCHANGED <<hasDB, startVars, sourceVars, readerVars, poolVars, decoded, buffer,
                       flushVars, stopVars, aflows, abatch, dbVars, dropped>>

\* decodePool.Wait; a session with several sources has no pool to wait for.
\* While decodePool (one source) or workers (several) is still unassigned, the
\* analysis of a session stopped that early flushes nothing.
PoolWait(c) ==
  /\ apc[c] = "wait"
  /\ Pooled /\ started => \A w \in DecodeWorkers : dpc[w] = "done"
  /\ apc' = [apc EXCEPT ![c] = IF Flushable THEN "flush" ELSE "flows"]
  /\ Up /\ UNCHANGED <<hasDB, startVars, sourceVars, readerVars, poolVars, decoded, buffer,
                       flushVars, stopVars, aflows, abatch, dbVars, dropped>>

\* decodePool.Flush / FlushAllWorkers, detection and correlation.  Protocol
\* decoders keep what they have seen (only the flow tracker empties its table).
Flush(c) ==
  /\ apc[c] = "flush"
  /\ aflows' = [aflows EXCEPT ![c] = UNION {decoded[d] : d \in Decoders}]
  /\ apc' = [apc EXCEPT ![c] = "flows"]
  /\ Up /\ UNCHANGED <<hasDB, startVars, sourceVars, readerVars, poolVars, decoded, buffer,
                       flushVars, stopVars, abatch, dbVars, dropped>>

\* UPDATE jobs: no effect when there is no row.
SetJob(s) == job' = IF job = "none" THEN job ELSE s

\* SQLite inserts row by row without a transaction, PostgreSQL in one; an
\* error fails the job and ends the analysis with the rows inserted so far.
StoreFlows(c) ==
  /\ apc[c] = "flows"
  /\ \E rows \in SUBSET aflows[c] :
       /\ flowRows' = [f \in Frames |-> flowRows[f] + IF f \in rows THEN 1 ELSE 0]
       /\ \/ /\ rows = aflows[c]
             /\ apc' = [apc EXCEPT ![c] = "calls"] /\ UNCHANGED job
          \/ /\ aflows[c] # {}
             /\ apc' = [apc EXCEPT ![c] = "done"] /\ SetJob("failed")
  /\ Up /\ UNCHANGED <<hasDB, startVars, sourceVars, readerVars, poolVars, decoded, buffer,
                       flushVars, stopVars, aflows, abatch, stored, dropped>>

\* StoreCalls fails the job like StoreFlows; a StoreRTPLegs error is logged.
StoreCalls(c) ==
  /\ apc[c] = "calls"
  /\ \/ apc' = [apc EXCEPT ![c] = "drain"] /\ UNCHANGED job
     \/ apc' = [apc EXCEPT ![c] = "done"] /\ SetJob("failed")
  /\ Up /\ UNCHANGED <<hasDB, startVars, sourceVars, readerVars, poolVars, decoded, buffer,
                       flushVars, stopVars, aflows, abatch, stored, flowRows, dropped>>

\* session.DrainPackets.
AnalyzeDrain(c) ==
  /\ apc[c] = "drain"
  /\ abatch' = [abatch EXCEPT ![c] = buffer] /\ buffer' = {}
  /\ apc' = [apc EXCEPT ![c] = IF buffer = {} THEN "complete" ELSE "packets"]
  /\ Up /\ UNCHANGED <<hasDB, startVars, sourceVars, readerVars, poolVars, decoded,
                       flushVars, stopVars, aflows, dbVars, dropped>>

AnalyzeStore(c) ==
  /\ apc[c] = "packets"
  /\ StorePackets(abatch[c])
  /\ abatch' = [abatch EXCEPT ![c] = {}]
  /\ apc' = [apc EXCEPT ![c] = "complete"]
  /\ Up /\ UNCHANGED <<hasDB, startVars, sourceVars, readerVars, poolVars, decoded, buffer,
                       flushVars, stopVars, aflows, job, flowRows>>

\* CompleteJob, whose error is logged, then SetStatus and activeJobs.Done.
Complete(c) ==
  /\ apc[c] = "complete"
  /\ SetJob("completed") \/ UNCHANGED job
  /\ status' = "completed"
  /\ apc' = [apc EXCEPT ![c] = "done"]
  /\ Up /\ UNCHANGED <<hasDB, startVars, sourceVars, readerVars, poolVars, decoded, buffer,
                       flushVars, closes, spc, aflows, abatch, stored, flowRows, dropped>>

\* WaitIdle returns when no analysis is in flight; the process then ends.
WaitIdle ==
  /\ ~exited /\ spc[Main] = "done"
  /\ \A c \in Callers : apc[c] \in {"none", "done"}
  /\ exited' = TRUE
  /\ UNCHANGED <<hasDB, startVars, sourceVars, readerVars, poolVars, decoded, buffer,
                 flushVars, stopVars, analysisVars, dbVars, dropped>>

-----------------------------------------------------------------------------
ReaderStep(r) ==
  \/ CheckStop(r) \/ ReadPacket(r) \/ ReadError(r)
  \/ Submit(r) \/ ReaderDecode(r) \/ ClosePool(r)

DecodeStep(w) == Receive(w) \/ PoolDecode(w) \/ Drained(w) \/ FlushAssembler(w)

FlushStep == FlushStop \/ FlushTick \/ FlushAcquire \/ FlushRequeue

AnalyzeStep(c) ==
  \/ AnalyzeStart(c) \/ PoolWait(c) \/ Flush(c) \/ StoreFlows(c) \/ StoreCalls(c)
  \/ AnalyzeDrain(c) \/ AnalyzeStore(c) \/ Complete(c)

StopStep(c) == SessionStop(c) \/ SpawnAnalysis(c)

Next ==
  \/ Start \/ Publish
  \/ \E f \in Frames : Arrive(f)
  \/ \E r \in Readers : ReaderStep(r)
  \/ \E w \in DecodeWorkers : DecodeStep(w)
  \/ FlushStep
  \/ \E batch \in SUBSET Frames : FlushWrite(batch)
  \/ StopAll
  \/ \E c \in Callers : StopRequest(c) \/ StopStep(c) \/ AnalyzeStep(c)
  \/ WaitIdle
  \/ exited /\ UNCHANGED vars        \* the process is gone

Spec == Init /\ [][Next]_vars

\* Goroutines that can run are scheduled, and a database call returns.  No
\* packet, tick, HTTP request or signal need ever come, and a pcap or AF_PACKET
\* source need not return from ReadPacket while its interface is quiet.
Fairness ==
  /\ WF_vars(Start \/ Publish)
  /\ \A r \in Readers :
       WF_vars((\/ CheckStop(r) \/ ReadPacket(r) \/ (EOFOnStop /\ ReadError(r))
                           \/ Submit(r) \/ ReaderDecode(r) \/ ClosePool(r)))
  /\ \A w \in DecodeWorkers : WF_vars(DecodeStep(w))
  /\ WF_vars(FlushAcquire \/ FlushRequeue)
  /\ WF_vars(\E batch \in SUBSET Frames : FlushWrite(batch))
  /\ \A c \in Callers :
       /\ WF_vars(StopStep(c))
       /\ WF_vars(AnalyzeStep(c))
  /\ WF_vars(WaitIdle)

FairSpec == Spec /\ Fairness

-----------------------------------------------------------------------------
(* Safety.                                                                 *)

\* Session.Stop closes stopCh once, however many HTTP requests, agent handlers
\* and shutdowns race to stop the session (a second close would panic).
StopClosedOnce == closes <= 1

\* The positions of frame f in a channel, and the places that hold it.
Positions(f, q) == {i \in DOMAIN q : q[i] = f}

Places(f) ==
  LET alone == [pending |-> pending, buffer |-> buffer, fhand |-> fhand, stored |-> stored]
  IN  {<<"alone", p>> : p \in {x \in DOMAIN alone : f \in alone[x]}}
      \cup (UNION {{<<"source", r, i>> : i \in Positions(f, source[r])} : r \in Readers})
      \cup {<<"rhand", r>> : r \in {x \in Readers : f \in rhand[x]}}
      \cup (UNION {{<<"queue", w, i>> : i \in Positions(f, queue[w])} : w \in DecodeWorkers})
      \cup {<<"dhand", w>> : w \in {x \in DecodeWorkers : f \in dhand[x]}}
      \cup {<<"writes", b>> : b \in {x \in writes : f \in x}}
      \cup {<<"abatch", c>> : c \in {x \in Callers : f \in abatch[x]}}
      \cup {<<"dropped", d>> : d \in {x \in DropReason : f \in dropped[x]}}

\* Every packet is in exactly one place: it is never handed to the database
\* twice by periodicFlush, its re-queueing and the final drains of concurrent
\* analyses, and it is given up only for one of the reasons in DropReason.
Accounted == \A f \in Frames : \E p \in Places(f) : Places(f) = {p}

\* No analysis flushes the decoders of a worker that is still decoding with
\* them: decodePool.Wait separates the two.
DecodersQuiescent ==
  \A c \in Callers : apc[c] = "flush" =>
    /\ \A w \in DecodeWorkers : dpc[w] \notin {"decode", "flushall"}
    /\ \A r \in Readers : rpc[r] # "decode"

\* An analysis that has flushed the decoders has flows for every packet the
\* session ever read: no packet is still on its way through the pool.
AnalysisSeesAll ==
  \A c \in Callers :
    hasDB /\ apc[c] \in {"flows", "calls", "drain", "packets", "complete", "done"} =>
      \A f \in Frames :
        \/ f \in pending \cup dropped["source"] \cup dropped["parse"]
        \/ f \in Range(source[SourceOf[f]])
        \/ f \in aflows[c]

\* What the comments on the flush and shutdown paths promise.

\* "put packets back to avoid losing them" (periodicFlush), "Store any packets
\* not yet flushed" (analyzeAndStore): once every goroutine of a completed
\* session has ended, nothing is left behind in its buffer.
AtRest ==
  /\ status = "completed" /\ fpc = "done" /\ writes = {}
  /\ \A r \in Readers : rpc[r] = "done"
  /\ \A c \in Callers : apc[c] \in {"none", "done"}
NothingLeftBehind == AtRest => buffer = {}

-----------------------------------------------------------------------------
(* Liveness.                                                               *)

\* The shutdown of cmd/main.go, StopAll followed by WaitIdle, ends.
ShutdownEnds == (spc[Main] # "idle") ~> exited
=============================================================================

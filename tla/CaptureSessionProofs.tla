------------------------ MODULE CaptureSessionProofs ------------------------
(* Proofs about CaptureSession, for every number of frames, sources, pool   *)
(* workers and callers, and every capacity: the shutdown, and what becomes  *)
(* of every packet, which is in exactly one place (Accounted) and which     *)
(* every analysis sees when there is a decode pool (AnalysisSeesAll).       *)
EXTENDS CaptureSession, TLAPS

USE DEF vars, startVars, sourceVars, readerVars, poolVars, flushVars, stopVars,
        analysisVars, dbVars

(* Appending to one channel of a family of channels keeps their type.       *)
LEMMA AppendType ==
  ASSUME NEW S, NEW T, NEW q \in [S -> Seq(T)], NEW x, NEW e \in T
  PROVE  [q EXCEPT ![x] = Append(@, e)] \in [S -> Seq(T)]
<1>1. ASSUME x \in S PROVE Append(q[x], e) \in Seq(T)
  BY <1>1
<1> QED BY <1>1, Zenon

(* The type invariant holds in every reachable state.                       *)
THEOREM TypeCorrect == Spec => []TypeOK
<1>1. Init => TypeOK
  <2> SUFFICES ASSUME Init PROVE TypeOK
    BY Zenon
  <2> USE DEF Init, None
  <2>1. fpc \in {"select", "acquire", "requeue", "done"}
    BY Zenon
  <2>2. job \in {"none", "running", "completed", "failed"}
    <3>1. CASE hasDB
      BY <3>1, Zenon
    <3>2. CASE ~hasDB
      BY <3>2, Zenon
    <3> QED BY <3>1, <3>2, Zenon
  <2>3. source \in [Readers -> Seq(Frames)] /\ queue \in [DecodeWorkers -> Seq(Frames)]
    OBVIOUS
  <2>4. hasDB \in BOOLEAN /\ started \in BOOLEAN /\ published \in BOOLEAN /\ exited \in BOOLEAN /\ poolOpen \in BOOLEAN
    BY Zenon
  <2> QED BY <2>1, <2>2, <2>3, <2>4, Zenon DEF TypeOK
<1>2. ASSUME TypeOK, [Next]_vars PROVE TypeOK'
  <2> USE <1>2 DEF TypeOK, Up
  <2>1. CASE Start \/ Publish
    <3>1. CASE Start
      <4>1. published' \in BOOLEAN /\ started' = TRUE
        BY <3>1, Zenon DEF Start, Pooled
      <4> QED BY <3>1, <4>1 DEF Start
    <3>2. CASE Publish
      BY <3>2 DEF Publish
    <3> QED BY <2>1, <3>1, <3>2, Zenon
  <2>2. ASSUME NEW f \in Frames, Arrive(f) PROVE TypeOK'
    <3>1. SourceOf[f] \in Readers
      BY ConstantsAssumption, Zenon
    <3>2. source' \in [Readers -> Seq(Frames)]
      <4>1. CASE Len(source[SourceOf[f]]) < SourceCap
        <5>1. source' = [source EXCEPT ![SourceOf[f]] = Append(@, f)]
          BY <2>2, <4>1, Zenon DEF Arrive
        <5>2. source \in [Readers -> Seq(Frames)]
          BY Zenon
        <5> QED BY ONLY <5>1, <5>2, AppendType, f \in Frames, Zenon
      <4>2. CASE ~(Len(source[SourceOf[f]]) < SourceCap)
        BY <2>2, <4>2, Zenon DEF Arrive
      <4> QED BY <4>1, <4>2, Zenon
    <3>3. dropped' \in [DropReason -> SUBSET Frames]
      BY <2>2 DEF Arrive, DropReason
    <3> QED BY <2>2, <3>2, <3>3 DEF Arrive
  <2>3. ASSUME NEW r \in Readers, ReaderStep(r) PROVE TypeOK'
    <3>1. CASE CheckStop(r)
      BY <3>1 DEF CheckStop, AfterLoop
    <3>2. CASE ReadPacket(r)
      <4>1. Head(source[r]) \in Frames /\ Tail(source[r]) \in Seq(Frames)
        BY <3>2 DEF ReadPacket
      <4>2. source' \in [Readers -> Seq(Frames)]
        BY <3>2, <4>1, Zenon DEF ReadPacket
      <4>3. /\ rpc' \in [Readers -> {"check", "read", "submit", "decode", "close", "done"}]
            /\ rhand' \in [Readers -> SUBSET Frames]
            /\ dropped' \in [DropReason -> SUBSET Frames]
        <5>1. CASE FlowOf[Head(source[r])] = NoFlow
          <6>1. /\ rpc' = [rpc EXCEPT ![r] = "check"]
                /\ dropped' = [dropped EXCEPT !["parse"] = @ \cup {Head(source[r])}]
                /\ rhand' = rhand
            BY <3>2, <5>1, Zenon DEF ReadPacket
          <6> QED BY <4>1, <6>1 DEF DropReason
        <5>2. CASE FlowOf[Head(source[r])] # NoFlow
          <6>1. /\ rpc' = [rpc EXCEPT ![r] = IF Pooled THEN "submit" ELSE "decode"]
                /\ rhand' = [rhand EXCEPT ![r] = {Head(source[r])}]
                /\ dropped' = dropped
            BY <3>2, <5>2, Zenon DEF ReadPacket
          <6> QED BY <4>1, <6>1
        <5> QED BY <5>1, <5>2, Zenon
      <4> QED BY <3>2, <4>2, <4>3 DEF ReadPacket
    <3>3. CASE ReadError(r)
      BY <3>3 DEF ReadError, AfterLoop
    <3>4. CASE Submit(r)
      <4>1. PICK f \in rhand[r] :
              queue' = [queue EXCEPT ![RouteOf[FlowOf[f]]] = Append(@, f)]
        BY <3>4, Zenon DEF Submit
      <4>2. f \in Frames
        BY <4>1, Zenon
      <4>3. queue' \in [DecodeWorkers -> Seq(Frames)]
        BY <4>1, <4>2, AppendType, ZenonT(30)
      <4> QED BY <3>4, <4>3 DEF Submit, None
    <3>5. CASE ReaderDecode(r)
      BY <3>5 DEF ReaderDecode, BufferPacket, DropReason, Decoders, None
    <3>6. CASE ClosePool(r)
      BY <3>6, ZenonT(30) DEF ClosePool
    <3> QED BY <2>3, <3>1, <3>2, <3>3, <3>4, <3>5, <3>6, Zenon DEF ReaderStep
  <2>4. ASSUME NEW w \in DecodeWorkers, DecodeStep(w) PROVE TypeOK'
    <3>1. CASE Receive(w)
      <4>1. Head(queue[w]) \in Frames /\ Tail(queue[w]) \in Seq(Frames)
        BY <3>1 DEF Receive
      <4> QED BY <3>1, <4>1 DEF Receive
    <3>2. CASE PoolDecode(w)
      BY <3>2 DEF PoolDecode, BufferPacket, DropReason, Decoders, None
    <3>3. CASE Drained(w)
      BY <3>3 DEF Drained
    <3>4. CASE FlushAssembler(w)
      BY <3>4 DEF FlushAssembler
    <3> QED BY <2>4, <3>1, <3>2, <3>3, <3>4, Zenon DEF DecodeStep
  <2>5. CASE FlushStep
    <3>1. CASE FlushStop
      BY <3>1, Zenon DEF FlushStop
    <3>2. CASE FlushTick
      BY <3>2, Zenon DEF FlushTick
    <3>3. CASE FlushAcquire
      BY <3>3, SMTT(30) DEF FlushAcquire, None
    <3>4. CASE FlushRequeue
      BY <3>4 DEF FlushRequeue, BufferPacket, DropReason
    <3> QED BY <2>5, <3>1, <3>2, <3>3, <3>4, Zenon DEF FlushStep
  <2>6. ASSUME NEW batch \in SUBSET Frames, FlushWrite(batch) PROVE TypeOK'
    <3>1. dropped' \in [DropReason -> SUBSET Frames] /\ stored' \subseteq Frames
      BY <2>6 DEF FlushWrite, StorePackets, DropReason
    <3> QED BY <2>6, <3>1 DEF FlushWrite
  <2>7. CASE StopAll
    BY <2>7 DEF StopAll, Callers
  <2>8. ASSUME NEW c \in Callers, StopRequest(c) \/ StopStep(c) PROVE TypeOK'
    <3>1. CASE StopRequest(c)
      BY <3>1 DEF StopRequest
    <3>2. CASE SessionStop(c)
      BY <3>2 DEF SessionStop
    <3>3. CASE SpawnAnalysis(c)
      BY <3>3 DEF SpawnAnalysis
    <3> QED BY <2>8, <3>1, <3>2, <3>3, Zenon DEF StopStep
  <2>9. ASSUME NEW c \in Callers, AnalyzeStep(c) PROVE TypeOK'
    <3>1. CASE AnalyzeStart(c)
      BY <3>1, ZenonT(30) DEF AnalyzeStart
    <3>2. CASE PoolWait(c)
      BY <3>2 DEF PoolWait, Flushable
    <3>3. CASE Flush(c)
      BY <3>3 DEF Flush
    <3>4. CASE StoreFlows(c)
      <4>1. job' \in {"none", "running", "completed", "failed"}
        BY <3>4, Zenon DEF StoreFlows, SetJob
      <4>2. PICK rows \in SUBSET aflows[c] :
              flowRows' = [f \in Frames |-> flowRows[f] + IF f \in rows THEN 1 ELSE 0]
        BY <3>4, Zenon DEF StoreFlows
      <4>3. flowRows' \in [Frames -> Nat]
        BY <4>2
      <4>4. apc' = [apc EXCEPT ![c] = "calls"] \/ apc' = [apc EXCEPT ![c] = "done"]
        BY <3>4, Zenon DEF StoreFlows
      <4> QED BY <3>4, <4>1, <4>3, <4>4, ZenonT(30) DEF StoreFlows
    <3>5. CASE StoreCalls(c)
      <4>1. job' \in {"none", "running", "completed", "failed"}
        BY <3>5, Zenon DEF StoreCalls, SetJob
      <4>2. apc' = [apc EXCEPT ![c] = "drain"] \/ apc' = [apc EXCEPT ![c] = "done"]
        BY <3>5, Zenon DEF StoreCalls
      <4> QED BY <3>5, <4>1, <4>2, ZenonT(30) DEF StoreCalls
    <3>6. CASE AnalyzeDrain(c)
      BY <3>6 DEF AnalyzeDrain
    <3>7. CASE AnalyzeStore(c)
      BY <3>7 DEF AnalyzeStore, StorePackets, DropReason
    <3>8. CASE Complete(c)
      BY <3>8 DEF Complete, SetJob
    <3> QED
      BY <2>9, <3>1, <3>2, <3>3, <3>4, <3>5, <3>6, <3>7, <3>8, Zenon DEF AnalyzeStep
  <2>10. CASE WaitIdle
    BY <2>10 DEF WaitIdle
  <2>11. CASE UNCHANGED vars
    BY <2>11
  <2> QED
    BY <1>2, <2>1, <2>2, <2>3, <2>4, <2>5, <2>6, <2>7, <2>8, <2>9, <2>10, <2>11, Zenon DEF Next
<1> QED BY <1>1, <1>2, PTL DEF Spec

-----------------------------------------------------------------------------
(* Stopping.  The session leaves "running" exactly when stopCh is closed,   *)
(* and an analysis only ever exists after that.                             *)
StopInv ==
  /\ closes \in {0, 1}
  /\ status = "running" <=> closes = 0
  /\ \A c \in Callers : spc[c] = "spawn" => closes = 1
  /\ \A c \in Callers : apc[c] # "none" => closes = 1

LEMMA StopInvariant == Spec => []StopInv
<1>1. Init => StopInv
  BY Zenon DEF Init, StopInv
<1>2. ASSUME TypeOK, StopInv, [Next]_vars PROVE StopInv'
  <2> USE <1>2 DEF TypeOK, StopInv, Up
  <2>1. ASSUME UNCHANGED <<status, closes, spc, apc>> PROVE StopInv'
    BY <2>1, Zenon
  <2>2. CASE StopAll
    BY <2>2, Zenon DEF StopAll, Callers
  <2>3. ASSUME NEW c \in Callers, StopRequest(c) PROVE StopInv'
    BY <2>3, Zenon DEF StopRequest
  <2>4. ASSUME NEW c \in Callers, SessionStop(c) PROVE StopInv'
    BY <2>4 DEF SessionStop
  <2>5. ASSUME NEW c \in Callers, SpawnAnalysis(c) PROVE StopInv'
    BY <2>5, Zenon DEF SpawnAnalysis
  <2>6. ASSUME NEW c \in Callers, AnalyzeStart(c) PROVE StopInv'
    BY <2>6 DEF AnalyzeStart
  <2>7. ASSUME NEW c \in Callers, Complete(c) PROVE StopInv'
    BY <2>7 DEF Complete
  <2>8. ASSUME NEW c \in Callers,
               PoolWait(c) \/ Flush(c) \/ StoreFlows(c) \/ StoreCalls(c)
                 \/ AnalyzeDrain(c) \/ AnalyzeStore(c)
        PROVE  StopInv'
    <3>1. UNCHANGED <<status, closes, spc>> /\ apc[c] # "none"
      BY <2>8, Zenon DEF PoolWait, Flush, StoreFlows, StoreCalls, AnalyzeDrain, AnalyzeStore
    <3>2. \A d \in Callers : d # c => apc'[d] = apc[d]
      BY <2>8, Zenon DEF PoolWait, Flush, StoreFlows, StoreCalls, AnalyzeDrain, AnalyzeStore
    <3> QED BY <3>1, <3>2, Zenon
  <2>9. ASSUME NEW r \in Readers, ReaderStep(r) PROVE StopInv'
    BY <2>9, <2>1, Zenon DEF ReaderStep, CheckStop, ReadPacket, ReadError, Submit, ReaderDecode, ClosePool
  <2>10. ASSUME NEW w \in DecodeWorkers, DecodeStep(w) PROVE StopInv'
    BY <2>10, <2>1, Zenon DEF DecodeStep, Receive, PoolDecode, Drained, FlushAssembler
  <2>11. CASE Start \/ Publish \/ FlushStep \/ WaitIdle \/ UNCHANGED vars
    BY <2>11, <2>1, Zenon DEF Start, Publish, FlushStep, FlushStop, FlushTick, FlushAcquire, FlushRequeue,
        WaitIdle
  <2>12. ASSUME NEW f \in Frames, Arrive(f) PROVE StopInv'
    BY <2>12, <2>1, Zenon DEF Arrive
  <2>13. ASSUME NEW batch \in SUBSET Frames, FlushWrite(batch) PROVE StopInv'
    BY <2>13, <2>1, Zenon DEF FlushWrite
  <2> QED
    BY <1>2, <2>2, <2>3, <2>4, <2>5, <2>6, <2>7, <2>8, <2>9, <2>10, <2>11, <2>12, <2>13, Zenon DEF Next,
        StopStep, AnalyzeStep
<1> QED BY <1>1, <1>2, TypeCorrect, PTL DEF Spec

(* stopCh is never closed twice, for any number of concurrent StopCapture  *)
(* callers and whenever the shutdown's StopAll joins them.                  *)
THEOREM StopIsSafe == Spec => []StopClosedOnce
<1>1. StopInv => StopClosedOnce
  BY DEF StopInv, StopClosedOnce
<1> QED BY <1>1, StopInvariant, PTL

-----------------------------------------------------------------------------
(* The decode pool.  The packet travels source -> capture worker -> channel *)
(* -> pool worker -> decoders; the pool is closed behind the capture worker *)
(* and a pool worker ends only on an empty closed channel, so once all of   *)
(* them are done nothing is on its way.                                     *)

LEMMA RangeAppend ==
  ASSUME NEW T, NEW s \in Seq(T), NEW e \in T
  PROVE  Range(Append(s, e)) = Range(s) \cup {e}
<1>1. DOMAIN s = 1 .. Len(s) /\ DOMAIN Append(s, e) = 1 .. Len(s) + 1
  OBVIOUS
<1>2. /\ \A i \in 1 .. Len(s) : i \in 1 .. Len(s) + 1 /\ Append(s, e)[i] = s[i]
      /\ Append(s, e)[Len(s) + 1] = e /\ Len(s) + 1 \in 1 .. Len(s) + 1
      /\ \A i \in 1 .. Len(s) + 1 : i = Len(s) + 1 \/ i \in 1 .. Len(s)
  OBVIOUS
<1> QED BY <1>1, <1>2, Zenon DEF Range

LEMMA RangeTail ==
  ASSUME NEW T, NEW s \in Seq(T), s # << >>
  PROVE  Range(s) = {Head(s)} \cup Range(Tail(s))
<1>1. \A i \in 1 .. Len(s) : s[i] = Head(s) \/ s[i] \in Range(Tail(s))
  <2> SUFFICES ASSUME NEW i \in 1 .. Len(s), i # 1 PROVE s[i] \in Range(Tail(s))
    OBVIOUS
  <2>1. i - 1 \in 1 .. Len(Tail(s)) /\ Tail(s)[i - 1] = s[i]
    OBVIOUS
  <2>2. DOMAIN Tail(s) = 1 .. Len(Tail(s))
    OBVIOUS
  <2> QED BY <2>1, <2>2, Zenon DEF Range
<1>2. Head(s) \in Range(s)
  BY DEF Range
<1>3. \A i \in 1 .. Len(Tail(s)) : Tail(s)[i] \in Range(s)
  <2> TAKE i \in 1 .. Len(Tail(s))
  <2>1. i + 1 \in 1 .. Len(s) /\ Tail(s)[i] = s[i + 1]
    OBVIOUS
  <2> QED BY <2>1 DEF Range
<1>4. DOMAIN s = 1 .. Len(s) /\ DOMAIN Tail(s) = 1 .. Len(Tail(s))
  OBVIOUS
<1> QED BY <1>1, <1>2, <1>3, <1>4, Zenon DEF Range

\* Frames that no capture worker has taken from its source.
Outside(f) ==
  \/ f \in pending \cup dropped["source"] \cup dropped["parse"]
  \/ f \in Range(source[SourceOf[f]])

PoolInv ==
  /\ \A r \in Readers : rpc[r] # "decode" /\ (rhand[r] # {} => rpc[r] = "submit")
  /\ ~poolOpen => \A r \in Readers : rpc[r] = "done"
  /\ \A w \in DecodeWorkers :
       /\ dpc[w] \in {"flushall", "done"} => ~poolOpen /\ queue[w] = << >>
       /\ dpc[w] # "decode" => dhand[w] = {}
  /\ ~started => pending = Frames /\ \A r \in Readers : rpc[r] = "check"
  /\ ~hasDB => \A c \in Callers : apc[c] \in {"none", "start", "done"}
  /\ \A c \in Callers : apc[c] = "flush" => \A w \in DecodeWorkers : dpc[w] = "done"

LEMMA PoolInvariant == ASSUME Pooled PROVE Spec => []PoolInv
<1>1. Init => PoolInv
  BY DEF Init, PoolInv, None
<1>2. ASSUME TypeOK, PoolInv, [Next]_vars PROVE PoolInv'
  <2> USE <1>2 DEF TypeOK, PoolInv, Up
  <2>1. ASSUME UNCHANGED <<hasDB, started, pending, rpc, rhand, queue, poolOpen, dpc, dhand, apc>>
        PROVE  PoolInv'
    BY <2>1, Zenon
  <2>2. CASE Start \/ Publish
    <3>1. UNCHANGED <<hasDB, pending, rpc, rhand, queue, poolOpen, dpc, dhand, apc>> /\ started'
      BY <2>2, Zenon DEF Start, Publish
    <3> QED BY <3>1, Zenon
  <2>3. ASSUME NEW f \in Frames, Arrive(f) PROVE PoolInv'
    BY <2>3, Zenon DEF Arrive
  <2>4. ASSUME NEW r \in Readers, CheckStop(r) \/ ReadError(r) PROVE PoolInv'
    BY <2>4, Pooled, ZenonT(60) DEF CheckStop, ReadError, AfterLoop
  <2>5. ASSUME NEW r \in Readers, ReadPacket(r) PROVE PoolInv'
    BY <2>5, Pooled, ZenonT(30) DEF ReadPacket
  <2>6. ASSUME NEW r \in Readers, Submit(r) PROVE PoolInv'
    <3>1. poolOpen
      BY <2>6, Zenon DEF Submit
    <3> QED BY <2>6, <3>1, Zenon DEF Submit, None
  <2>7. ASSUME NEW r \in Readers, ClosePool(r) PROVE PoolInv'
    <3>1. \A q \in Readers : q = r
      BY Pooled DEF Pooled
    <3> QED BY <2>7, <3>1, Zenon DEF ClosePool
  <2>8. ASSUME NEW r \in Readers, ReaderDecode(r) PROVE PoolInv'
    BY <2>8, Zenon DEF ReaderDecode
  <2>9. ASSUME NEW w \in DecodeWorkers, DecodeStep(w) PROVE PoolInv'
    <3>1. CASE Receive(w)
      BY <3>1 DEF Receive
    <3>2. CASE PoolDecode(w)
      BY <3>2 DEF PoolDecode, None
    <3>3. CASE Drained(w)
      BY <3>3, Zenon DEF Drained
    <3>4. CASE FlushAssembler(w)
      BY <3>4 DEF FlushAssembler
    <3> QED BY <2>9, <3>1, <3>2, <3>3, <3>4, Zenon DEF DecodeStep
  <2>10. ASSUME NEW c \in Callers, AnalyzeStep(c) \/ SpawnAnalysis(c) PROVE PoolInv'
    <3>1. CASE PoolWait(c)
      BY <3>1, Pooled, Zenon DEF PoolWait, Flushable
    <3>2. CASE AnalyzeStart(c) \/ SpawnAnalysis(c)
      <4>1. /\ UNCHANGED <<hasDB, started, pending, rpc, rhand, queue, poolOpen, dpc, dhand>>
            /\ \/ apc' = [apc EXCEPT ![c] = "start"] \/ apc' = [apc EXCEPT ![c] = "done"]
               \/ hasDB /\ apc' = [apc EXCEPT ![c] = "wait"]
        BY <3>2, Zenon DEF AnalyzeStart, SpawnAnalysis
      <4> QED BY <4>1, ZenonT(30)
    <3>3. CASE Flush(c) \/ StoreFlows(c) \/ StoreCalls(c) \/ AnalyzeDrain(c)
                 \/ AnalyzeStore(c) \/ Complete(c)
      <4>1. /\ UNCHANGED <<hasDB, started, pending, rpc, rhand, queue, poolOpen, dpc, dhand>>
            /\ hasDB
            /\ \E x \in {"flows", "calls", "drain", "packets", "complete", "done"} :
                  apc' = [apc EXCEPT ![c] = x]
        BY <3>3, Zenon DEF Flush, StoreFlows, StoreCalls, AnalyzeDrain, AnalyzeStore, Complete
      <4> QED BY <4>1
    <3> QED BY <2>10, <3>1, <3>2, <3>3, Zenon DEF AnalyzeStep
  <2>11. ASSUME NEW c \in Callers, StopRequest(c) \/ SessionStop(c) PROVE PoolInv'
    BY <2>11, <2>1, Zenon DEF StopRequest, SessionStop
  <2>12. CASE FlushStep \/ WaitIdle \/ StopAll \/ UNCHANGED vars
    BY <2>12, <2>1, Zenon DEF FlushStep, FlushStop, FlushTick, FlushAcquire, FlushRequeue, WaitIdle, StopAll
  <2>13. ASSUME NEW batch \in SUBSET Frames, FlushWrite(batch) PROVE PoolInv'
    BY <2>13, <2>1, Zenon DEF FlushWrite
  <2> QED
    BY <1>2, <2>2, <2>3, <2>4, <2>5, <2>6, <2>7, <2>8, <2>9, <2>10, <2>11, <2>12, <2>13, Zenon DEF Next,
        StopStep, ReaderStep
<1> QED BY <1>1, <1>2, TypeCorrect, PTL DEF Spec

(* With a decode pool, no analysis reads decoders that a worker is using:   *)
(* the Flush of one StopCapture never races the decoding of the session.    *)
THEOREM FlushIsQuiescent == ASSUME Pooled PROVE Spec => []DecodersQuiescent
<1>1. PoolInv => DecodersQuiescent
  BY Zenon DEF PoolInv, DecodersQuiescent
<1> QED BY <1>1, PoolInvariant, PTL

-----------------------------------------------------------------------------
\* What each goroutine may hold at each of its program points.
HoldInv ==
  /\ \A r \in Readers :
       /\ rpc[r] \notin {"submit", "decode"} => rhand[r] = {}
       /\ \A f \in rhand[r] : rhand[r] = {f} /\ FlowOf[f] # NoFlow
  /\ \A w \in DecodeWorkers :
       /\ dpc[w] # "decode" => dhand[w] = {}
       /\ \A f \in dhand[w] : dhand[w] = {f}
  /\ fpc \in {"select", "done"} => fhand = {}
  /\ \A c \in Callers :
       /\ apc[c] # "packets" => abatch[c] = {}
       /\ spc[c] # "done" => apc[c] = "none"

LEMMA HoldInvariant == Spec => []HoldInv
<1>1. Init => HoldInv
  BY DEF Init, HoldInv, None
<1>2. ASSUME TypeOK, HoldInv, [Next]_vars PROVE HoldInv'
  <2> USE <1>2 DEF TypeOK, HoldInv
  <2>1. ASSUME UNCHANGED <<source, rpc, rhand, queue, dpc, dhand, fpc, fhand, spc, apc, abatch>>
        PROVE  HoldInv'
    BY <2>1, Zenon
  <2>2. ASSUME NEW f \in Frames, Arrive(f) PROVE HoldInv'
    <3>2. UNCHANGED <<rpc, rhand, queue, dpc, dhand, fpc, fhand, spc, apc, abatch>>
      BY <2>2, Zenon DEF Arrive
    <3> QED BY <3>2, Zenon
  <2>3. ASSUME NEW r \in Readers, ReadPacket(r) PROVE HoldInv'
    <3> DEFINE f == Head(source[r])
    <3>2. UNCHANGED <<queue, dpc, dhand, fpc, fhand, spc, apc, abatch>>
      BY <2>3, Zenon DEF ReadPacket
    <3>a. rpc \in [Readers -> {"check", "read", "submit", "decode", "close", "done"}]
            /\ rhand \in [Readers -> SUBSET Frames] /\ rhand[r] = {}
      <4>1. rpc[r] = "read"
        BY <2>3, Zenon DEF ReadPacket
      <4> QED BY <4>1, Zenon
    <3>b. \/ rpc' = [rpc EXCEPT ![r] = "check"] /\ UNCHANGED rhand
          \/ /\ rpc' = [rpc EXCEPT ![r] = IF Pooled THEN "submit" ELSE "decode"]
             /\ rhand' = [rhand EXCEPT ![r] = {f}] /\ FlowOf[f] # NoFlow
      BY <2>3, Zenon DEF ReadPacket
    <3> HIDE DEF f
    <3>3. \A q \in Readers \ {r} : rpc'[q] = rpc[q] /\ rhand'[q] = rhand[q]
      BY ONLY <3>a, <3>b, r \in Readers, Zenon
    <3>4. \/ rpc'[r] = "check" /\ rhand'[r] = {}
          \/ rpc'[r] \in {"submit", "decode"} /\ rhand'[r] = {f} /\ FlowOf[f] # NoFlow
      BY ONLY <3>a, <3>b, r \in Readers, Zenon
    <3>5. \A q \in Readers :
            /\ rpc'[q] \notin {"submit", "decode"} => rhand'[q] = {}
            /\ \A g \in rhand'[q] : rhand'[q] = {g} /\ FlowOf[g] # NoFlow
      BY <3>3, <3>4, ZenonT(30)
    <3> QED BY <3>2, <3>5, Zenon
  <2>4. ASSUME NEW r \in Readers, CheckStop(r) \/ ReadError(r) \/ ClosePool(r) PROVE HoldInv'
    <3>1. /\ UNCHANGED <<source, rhand, queue, dpc, dhand, fpc, fhand, spc, apc, abatch>>
          /\ rpc[r] \notin {"submit", "decode"}
          /\ \A q \in Readers \ {r} : rpc'[q] = rpc[q]
      BY <2>4, Zenon DEF CheckStop, ReadError, ClosePool
    <3> QED BY <3>1, Zenon
  <2>5. ASSUME NEW r \in Readers, ReaderDecode(r) PROVE HoldInv'
    <3>1. UNCHANGED <<source, queue, dpc, dhand, fpc, fhand, spc, apc, abatch>>
      BY <2>5, Zenon DEF ReaderDecode
    <3>2. rhand' = [rhand EXCEPT ![r] = {}] /\ rpc' = [rpc EXCEPT ![r] = "check"]
      BY <2>5, Zenon DEF ReaderDecode, None
    <3> QED BY <3>1, <3>2
  <2>6. ASSUME NEW r \in Readers, Submit(r) PROVE HoldInv'
    <3>1. UNCHANGED <<source, dpc, dhand, fpc, fhand, spc, apc, abatch>>
      BY <2>6, Zenon DEF Submit
    <3>2. rhand' = [rhand EXCEPT ![r] = {}] /\ rpc' = [rpc EXCEPT ![r] = "check"]
      BY <2>6, Zenon DEF Submit, None
    <3> QED BY <3>1, <3>2
  <2>7. ASSUME NEW w \in DecodeWorkers, Receive(w) PROVE HoldInv'
    <3>1. /\ UNCHANGED <<source, rpc, rhand, fpc, fhand, spc, apc, abatch>>
          /\ dhand' = [dhand EXCEPT ![w] = {Head(queue[w])}]
          /\ dpc' = [dpc EXCEPT ![w] = "decode"]
      BY <2>7, Zenon DEF Receive
    <3> QED BY <3>1, Zenon
  <2>8. ASSUME NEW w \in DecodeWorkers, PoolDecode(w) PROVE HoldInv'
    <3>1. /\ UNCHANGED <<source, rpc, rhand, queue, fpc, fhand, spc, apc, abatch>>
          /\ dhand' = [dhand EXCEPT ![w] = {}]
          /\ dpc' = [dpc EXCEPT ![w] = "recv"]
      BY <2>8, Zenon DEF PoolDecode, None
    <3> QED BY <3>1, Zenon
  <2>9. ASSUME NEW w \in DecodeWorkers, Drained(w) \/ FlushAssembler(w) PROVE HoldInv'
    <3>1. /\ UNCHANGED <<source, rpc, rhand, queue, dhand, fpc, fhand, spc, apc, abatch>>
          /\ dpc[w] # "decode" /\ \A v \in DecodeWorkers \ {w} : dpc'[v] = dpc[v]
      BY <2>9, Zenon DEF Drained, FlushAssembler
    <3> QED BY <3>1, Zenon
  <2>10. CASE FlushStep
    <3>1. UNCHANGED <<source, rpc, rhand, queue, dpc, dhand, spc, apc, abatch>>
      BY <2>10, Zenon DEF FlushStep, FlushStop, FlushTick, FlushAcquire, FlushRequeue
    <3>2. fpc' \in {"select", "done"} => fhand' = {}
      BY <2>10, Zenon DEF FlushStep, FlushStop, FlushTick, FlushAcquire, FlushRequeue, None
    <3> QED BY <3>1, <3>2, Zenon
  <2>11. ASSUME NEW c \in Callers, StopRequest(c) \/ SessionStop(c) PROVE HoldInv'
    <3>1. /\ UNCHANGED <<source, rpc, rhand, queue, dpc, dhand, fpc, fhand, apc, abatch>>
          /\ spc[c] # "done" /\ \A d \in Callers \ {c} : spc'[d] = spc[d]
      BY <2>11, Zenon DEF StopRequest, SessionStop
    <3> QED BY <3>1, Zenon
  <2>12. CASE StopAll
    <3>1. /\ UNCHANGED <<source, rpc, rhand, queue, dpc, dhand, fpc, fhand, apc, abatch>>
          /\ spc[Main] # "done" /\ \A d \in Callers \ {Main} : spc'[d] = spc[d]
      BY <2>12, Zenon DEF StopAll
    <3> QED BY <3>1, Zenon DEF Callers
  <2>13. ASSUME NEW c \in Callers, SpawnAnalysis(c) PROVE HoldInv'
    <3>1. /\ UNCHANGED <<source, rpc, rhand, queue, dpc, dhand, fpc, fhand, abatch>>
          /\ spc[c] = "spawn" /\ spc' = [spc EXCEPT ![c] = "done"]
          /\ apc' = [apc EXCEPT ![c] = "start"]
      BY <2>13, Zenon DEF SpawnAnalysis
    <3> QED BY <3>1, Zenon
  <2>14. ASSUME NEW c \in Callers, AnalyzeStep(c) PROVE HoldInv'
    <3>1. /\ UNCHANGED <<source, rpc, rhand, queue, dpc, dhand, fpc, fhand, spc>>
          /\ apc[c] # "none"
      BY <2>14, Zenon DEF AnalyzeStep, AnalyzeStart, PoolWait, Flush, StoreFlows, StoreCalls, AnalyzeDrain,
          AnalyzeStore, Complete
    <3>2. \A d \in Callers \ {c} : apc'[d] = apc[d] /\ abatch'[d] = abatch[d]
      <4> SUFFICES ASSUME NEW d \in Callers \ {c} PROVE apc'[d] = apc[d] /\ abatch'[d] = abatch[d]
        BY Zenon
      <4>1. CASE AnalyzeStart(c)
        BY <4>1, Zenon DEF AnalyzeStart
      <4>2. CASE PoolWait(c)
        BY <4>2, Zenon DEF PoolWait
      <4>3. CASE Flush(c)
        BY <4>3, Zenon DEF Flush
      <4>4. CASE StoreFlows(c)
        BY <4>4, Zenon DEF StoreFlows
      <4>5. CASE StoreCalls(c)
        BY <4>5, Zenon DEF StoreCalls
      <4>6. CASE AnalyzeDrain(c)
        BY <4>6, Zenon DEF AnalyzeDrain
      <4>7. CASE AnalyzeStore(c)
        BY <4>7, Zenon DEF AnalyzeStore
      <4>8. CASE Complete(c)
        BY <4>8, Zenon DEF Complete
      <4> QED BY <2>14, <4>1, <4>2, <4>3, <4>4, <4>5, <4>6, <4>7, <4>8, Zenon DEF AnalyzeStep
    <3>3. apc'[c] # "packets" => abatch'[c] = {}
      <4>1. CASE AnalyzeDrain(c) \/ AnalyzeStore(c)
        BY <4>1 DEF AnalyzeDrain, AnalyzeStore
      <4>2. CASE ~(AnalyzeDrain(c) \/ AnalyzeStore(c))
        <5>1. UNCHANGED abatch /\ apc[c] # "packets"
          BY <2>14, <4>2, Zenon DEF AnalyzeStep, AnalyzeStart, PoolWait, Flush, StoreFlows, StoreCalls, Complete
        <5> QED BY <5>1, Zenon
      <4> QED BY <4>1, <4>2, Zenon
    <3>4. spc[c] = "done"
      BY <3>1, Zenon
    <3> QED BY <3>1, <3>2, <3>3, <3>4
  <2>15. CASE Start \/ Publish \/ WaitIdle \/ UNCHANGED vars
    BY <2>15, <2>1, Zenon DEF Start, Publish, WaitIdle
  <2>16. ASSUME NEW batch \in SUBSET Frames, FlushWrite(batch) PROVE HoldInv'
    BY <2>16, <2>1, Zenon DEF FlushWrite
  <2> HIDE DEF HoldInv
  <2> QED
    BY <1>2, <2>2, <2>3, <2>4, <2>5, <2>6, <2>7, <2>8, <2>9, <2>10, <2>11, <2>12, <2>13, <2>14, <2>15,
        <2>16, Zenon DEF Next, ReaderStep, DecodeStep, StopStep
<1> QED BY <1>1, <1>2, TypeCorrect, PTL DEF Spec

-----------------------------------------------------------------------------
(* One place.  A frame is in exactly one place, and a channel holds it once; *)
(* every step that touches packets moves a set of them from one place to     *)
(* another.  Holds(f, k, a) says that place a of kind k holds frame f.        *)

LEMMA InjectiveAppend ==
  ASSUME NEW T, NEW s \in Seq(T), IsInjective(s), NEW e \in T, e \notin Range(s)
  PROVE  IsInjective(Append(s, e))
<1>1. \A i \in 1 .. Len(s) : s[i] # e
  BY DEF Range
<1>2. \A i, j \in 1 .. Len(s) : s[i] = s[j] => i = j
  BY DEF IsInjective
<1>3. \A i, j \in 1 .. Len(s) + 1 : Append(s, e)[i] = Append(s, e)[j] => i = j
  BY <1>1, <1>2
<1> QED BY <1>3 DEF IsInjective

LEMMA InjectiveTail ==
  ASSUME NEW T, NEW s \in Seq(T), s # << >>, IsInjective(s)
  PROVE  IsInjective(Tail(s)) /\ Range(Tail(s)) = Range(s) \ {Head(s)}
<1>1. \A i, j \in 1 .. Len(s) : s[i] = s[j] => i = j
  BY DEF IsInjective
<1>2. \A i \in 1 .. Len(Tail(s)) : Tail(s)[i] = s[i + 1] /\ i + 1 \in 1 .. Len(s) /\ i + 1 # 1
  OBVIOUS
<1>3. DOMAIN Tail(s) = 1 .. Len(Tail(s)) /\ 1 \in 1 .. Len(s) /\ Head(s) = s[1]
  OBVIOUS
<1>4. \A i, j \in 1 .. Len(Tail(s)) : Tail(s)[i] = Tail(s)[j] => i = j
  BY <1>1, <1>2
<1>5. Head(s) \notin Range(Tail(s))
  BY <1>1, <1>2, <1>3 DEF Range
<1>6. Range(s) = {Head(s)} \cup Range(Tail(s))
  BY RangeTail, Zenon
<1> QED BY <1>3, <1>4, <1>5, <1>6 DEF IsInjective

Holds(f, k, a) ==
  \/ k = "alone" /\ \/ a = "pending" /\ f \in pending
                    \/ a = "buffer" /\ f \in buffer
                    \/ a = "fhand" /\ f \in fhand
                    \/ a = "stored" /\ f \in stored
  \/ k = "source" /\ a \in Readers /\ f \in Range(source[a])
  \/ k = "rhand" /\ a \in Readers /\ f \in rhand[a]
  \/ k = "queue" /\ a \in DecodeWorkers /\ f \in Range(queue[a])
  \/ k = "dhand" /\ a \in DecodeWorkers /\ f \in dhand[a]
  \/ k = "writes" /\ a \in writes /\ f \in a
  \/ k = "abatch" /\ a \in Callers /\ f \in abatch[a]
  \/ k = "dropped" /\ a \in DropReason /\ f \in dropped[a]

OnePlace == \A f \in Frames : \E k, a : \A l, b : Holds(f, l, b) <=> l = k /\ b = a

PlaceInv ==
  /\ OnePlace
  /\ \A r \in Readers : IsInjective(source[r])
  /\ \A w \in DecodeWorkers : IsInjective(queue[w])

\* The step moves the frames of M from place (k1, a1) to (k2, a2), and no other.
Moves(M, k1, a1, k2, a2) ==
  /\ \A f \in M : Holds(f, k1, a1)
  /\ \A f \in Frames : \A l, b :
       Holds(f, l, b)' <=> \/ Holds(f, l, b) /\ ~(f \in M /\ l = k1 /\ b = a1)
                           \/ f \in M /\ l = k2 /\ b = a2

\* The step takes the frames of M from place (k1, a1) and leaves every place
\* but (k1, a1) and those of kind "dropped" or named s as it is.
Takes(M, k1, a1, s) ==
  /\ k1 # "dropped" /\ ~(k1 = "alone" /\ a1 = s)
  /\ \A f \in M : Holds(f, k1, a1)
  /\ \A f \in Frames : \A l, b : l # "dropped" /\ ~(l = "alone" /\ b = s) =>
       (Holds(f, l, b)' <=> Holds(f, l, b) /\ ~(f \in M /\ l = k1 /\ b = a1))

LEMMA MoveKeepsOnePlace ==
  ASSUME OnePlace, NEW M, NEW k1, NEW a1, NEW k2, NEW a2, Moves(M, k1, a1, k2, a2)
  PROVE  OnePlace'
<1> SUFFICES ASSUME NEW f \in Frames PROVE \E k, a : \A l, b : Holds(f, l, b)' <=> l = k /\ b = a
  BY Zenon DEF OnePlace
<1>1. PICK k, a : \A l, b : Holds(f, l, b) <=> l = k /\ b = a
  BY Zenon DEF OnePlace
<1>2. CASE f \in M
  <2>1. k = k1 /\ a = a1
    BY <1>1, <1>2 DEF Moves
  <2>2. \A l, b : Holds(f, l, b)' <=> l = k2 /\ b = a2
    BY <1>1, <1>2, <2>1 DEF Moves
  <2> QED BY <2>2
<1>3. CASE f \notin M
  <2>2. \A l, b : Holds(f, l, b)' <=> l = k /\ b = a
    BY <1>1, <1>3, Zenon DEF Moves
  <2> QED BY <2>2
<1> QED BY <1>2, <1>3, Zenon

\* A step that moves nothing.
LEMMA StayKeepsPlaces ==
  ASSUME PlaceInv,
         UNCHANGED <<pending, source, rhand, queue, dhand, buffer, fhand, writes, abatch, stored, dropped>>
  PROVE  PlaceInv'
<1>1. OnePlace'
  <2> SUFFICES ASSUME NEW f \in Frames PROVE \E k, a : \A l, b : Holds(f, l, b)' <=> l = k /\ b = a
    BY Zenon DEF OnePlace
  <2>1. PICK k, a : \A l, b : Holds(f, l, b) <=> l = k /\ b = a
    BY Zenon DEF OnePlace, PlaceInv
  <2>2. \A l, b : Holds(f, l, b)' <=> Holds(f, l, b)
    BY DEF Holds
  <2>3. \A l, b : Holds(f, l, b)' <=> l = k /\ b = a
    BY <2>1, <2>2, Zenon
  <2> QED BY <2>3
<1> QED BY <1>1, Zenon DEF PlaceInv

\* What is dropped for reason x is moved there.
LEMMA DropMoves ==
  ASSUME TypeOK, NEW M \in SUBSET Frames, NEW x \in DropReason, NEW k, NEW a, NEW s,
         Takes(M, k, a, s), \A f \in Frames : Holds(f, "alone", s)' <=> Holds(f, "alone", s),
         dropped' = [dropped EXCEPT ![x] = @ \cup M]
  PROVE  Moves(M, k, a, "dropped", x)
<1>1. \A y \in DropReason : dropped'[y] = dropped[y] \cup (IF y = x THEN M ELSE {})
  BY Zenon DEF TypeOK
<1>2. ASSUME NEW f \in Frames, NEW l, NEW b
      PROVE  Holds(f, l, b)' <=> \/ Holds(f, l, b) /\ ~(f \in M /\ l = k /\ b = a)
                                 \/ f \in M /\ l = "dropped" /\ b = x
  <2>1. CASE l = "dropped"
    BY <1>1, <2>1 DEF Holds, Takes
  <2>2. CASE l = "alone" /\ b = s
    BY <2>2, Zenon DEF Takes
  <2>3. CASE l # "dropped" /\ ~(l = "alone" /\ b = s)
    BY <2>3, Zenon DEF Takes
  <2> QED BY <2>1, <2>2, <2>3, Zenon
<1> QED BY <1>2, Zenon DEF Moves, Takes

\* BufferPacket moves its packet to the buffer, or drops it.
LEMMA BufferMoves ==
  ASSUME TypeOK, OnePlace, NEW f \in Frames, BufferPacket(f), NEW k, NEW a,
         Takes({f}, k, a, "buffer")
  PROVE  OnePlace'
<1>1. CASE buffer' = buffer \cup {f} /\ UNCHANGED dropped
  <2>1. ASSUME NEW g \in Frames, NEW l, NEW b
        PROVE  Holds(g, l, b)' <=> \/ Holds(g, l, b) /\ ~(g \in {f} /\ l = k /\ b = a)
                                   \/ g \in {f} /\ l = "alone" /\ b = "buffer"
    <3>1. CASE l = "dropped"
      BY <1>1, <3>1, Zenon DEF Holds, Takes
    <3>2. CASE l = "alone" /\ b = "buffer"
      BY <1>1, <3>2, Zenon DEF Holds, Takes
    <3>3. CASE l # "dropped" /\ ~(l = "alone" /\ b = "buffer")
      BY <3>3, Zenon DEF Takes
    <3> QED BY <3>1, <3>2, <3>3, Zenon
  <2>2. Moves({f}, k, a, "alone", "buffer")
    BY <2>1, Zenon DEF Moves, Takes
  <2> QED BY <2>2, MoveKeepsOnePlace, Zenon
<1>2. CASE dropped' = [dropped EXCEPT !["full"] = @ \cup {f}] /\ UNCHANGED buffer
  <2>1. \A g \in Frames : Holds(g, "alone", "buffer")' <=> Holds(g, "alone", "buffer")
    BY <1>2, Zenon DEF Holds
  <2>2. Moves({f}, k, a, "dropped", "full")
    BY <1>2, <2>1, DropMoves, Zenon DEF DropReason
  <2> QED BY <2>2, MoveKeepsOnePlace, Zenon
<1> QED BY <1>1, <1>2, Zenon DEF BufferPacket

\* StorePackets moves its batch to the packets table, or gives it up.
LEMMA StoreMoves ==
  ASSUME TypeOK, OnePlace, NEW batch \in SUBSET Frames, StorePackets(batch), NEW k, NEW a,
         Takes(batch, k, a, "stored")
  PROVE  OnePlace'
<1>1. CASE stored' = stored \cup batch /\ UNCHANGED dropped
  <2>1. ASSUME NEW g \in Frames, NEW l, NEW b
        PROVE  Holds(g, l, b)' <=> \/ Holds(g, l, b) /\ ~(g \in batch /\ l = k /\ b = a)
                                   \/ g \in batch /\ l = "alone" /\ b = "stored"
    <3>1. CASE l = "dropped"
      BY <1>1, <3>1, Zenon DEF Holds, Takes
    <3>2. CASE l = "alone" /\ b = "stored"
      BY <1>1, <3>2, Zenon DEF Holds, Takes
    <3>3. CASE l # "dropped" /\ ~(l = "alone" /\ b = "stored")
      BY <3>3, Zenon DEF Takes
    <3> QED BY <3>1, <3>2, <3>3, Zenon
  <2>2. Moves(batch, k, a, "alone", "stored")
    BY <2>1, Zenon DEF Moves, Takes
  <2> QED BY <2>2, MoveKeepsOnePlace, Zenon
<1>2. CASE dropped' = [dropped EXCEPT !["dberr"] = @ \cup batch] /\ UNCHANGED stored
  <2>1. \A g \in Frames : Holds(g, "alone", "stored")' <=> Holds(g, "alone", "stored")
    BY <1>2, Zenon DEF Holds
  <2>2. Moves(batch, k, a, "dropped", "dberr")
    BY <1>2, <2>1, DropMoves, Zenon DEF DropReason
  <2> QED BY <2>2, MoveKeepsOnePlace, Zenon
<1> QED BY <1>1, <1>2, Zenon DEF StorePackets

LEMMA PlaceInvariant == Spec => []PlaceInv
<1>1. Init => PlaceInv
  <2> SUFFICES ASSUME Init PROVE PlaceInv
    BY Zenon
  <2>1. \A r \in Readers : source[r] = << >>
    BY Zenon DEF Init
  <2>2. \A w \in DecodeWorkers : queue[w] = << >>
    BY Zenon DEF Init
  <2>3. ASSUME NEW f \in Frames PROVE \A l, b : Holds(f, l, b) <=> l = "alone" /\ b = "pending"
    <3>1. /\ f \in pending /\ buffer = {} /\ fhand = {} /\ stored = {} /\ writes = {}
          /\ \A r \in Readers : rhand[r] = {}
          /\ \A w \in DecodeWorkers : dhand[w] = {}
          /\ \A c \in Callers : abatch[c] = {}
          /\ \A x \in DropReason : dropped[x] = {}
      BY Zenon DEF Init, None
    <3>2. Range(<< >>) = {}
      BY DEF Range
    <3> QED BY <2>1, <2>2, <3>1, <3>2, Zenon DEF Holds
  <2>4. OnePlace
    BY <2>3 DEF OnePlace
  <2>5. IsInjective(<< >>)
    BY DEF IsInjective
  <2> QED BY <2>1, <2>2, <2>4, <2>5, Zenon DEF PlaceInv
<1>2. ASSUME TypeOK, HoldInv, PlaceInv, [Next]_vars PROVE PlaceInv'
  <2> USE <1>2
  <2>0. OnePlace
    BY Zenon DEF PlaceInv
  <2>1. ASSUME UNCHANGED <<source, queue>>, OnePlace' PROVE PlaceInv'
    BY <2>1, Zenon DEF PlaceInv
  <2>2. ASSUME NEW f \in Frames, Arrive(f) PROVE PlaceInv'
    <3> DEFINE r == SourceOf[f]
    <3>1. r \in Readers /\ source \in [Readers -> Seq(Frames)] /\ source[r] \in Seq(Frames)
      BY ConstantsAssumption, Zenon DEF TypeOK
    <3>2. /\ f \in pending /\ pending' = pending \ {f}
          /\ UNCHANGED <<rhand, queue, dhand, buffer, fhand, writes, abatch, stored>>
      BY <2>2, Zenon DEF Arrive
    <3>3. CASE Len(source[r]) < SourceCap
      <4>1. source' = [source EXCEPT ![r] = Append(@, f)] /\ UNCHANGED dropped
        BY <2>2, <3>3, Zenon DEF Arrive
      <4>2. Range(Append(source[r], f)) = Range(source[r]) \cup {f}
        BY <3>1, RangeAppend
      <4>3. f \notin Range(source[r])
        <5>1. Holds(f, "alone", "pending")
          BY <3>2, Zenon DEF Holds
        <5>2. ~Holds(f, "source", r)
          BY <2>0, <5>1 DEF OnePlace
        <5> QED BY <3>1, <5>2, Zenon DEF Holds
      <4>4. IsInjective(Append(source[r], f))
        BY <3>1, <4>3, InjectiveAppend, Zenon DEF PlaceInv
      <4> HIDE DEF r
      <4>5. \A q \in Readers : Range(source'[q]) = Range(source[q]) \cup (IF q = r THEN {f} ELSE {})
        BY <3>1, <4>1, <4>2, Zenon
      <4>6. Moves({f}, "alone", "pending", "source", r)
        BY ONLY <3>1, <3>2, <4>1, <4>5, f \in Frames DEF Moves, Holds
      <4>7. OnePlace'
        BY <2>0, <4>6, MoveKeepsOnePlace, Zenon
      <4>8. \A q \in Readers : IsInjective(source'[q])
        BY <3>1, <4>1, <4>4, Zenon DEF PlaceInv
      <4> QED BY <3>2, <4>7, <4>8, Zenon DEF PlaceInv
    <3>4. CASE ~(Len(source[r]) < SourceCap)
      <4>1. dropped' = [dropped EXCEPT !["source"] = @ \cup {f}] /\ UNCHANGED source
        BY <2>2, <3>4, Zenon DEF Arrive
      <4>2. Takes({f}, "alone", "pending", "none")
        BY ONLY <3>2, <4>1, f \in Frames DEF Takes, Holds
      <4>3. \A g \in Frames : Holds(g, "alone", "none")' <=> Holds(g, "alone", "none")
        BY Zenon DEF Holds
      <4>4. Moves({f}, "alone", "pending", "dropped", "source")
        BY <4>1, <4>2, <4>3, DropMoves, Zenon DEF DropReason
      <4> QED BY <2>0, <2>1, <3>2, <4>1, <4>4, MoveKeepsOnePlace, Zenon
    <3> QED BY <3>3, <3>4, Zenon
  <2>3. ASSUME NEW r \in Readers, ReadPacket(r) PROVE PlaceInv'
    <3> DEFINE f == Head(source[r])
    <3>1. /\ rpc[r] = "read" /\ source[r] # << >>
          /\ source' = [source EXCEPT ![r] = Tail(@)]
          /\ UNCHANGED <<pending, queue, dhand, buffer, fhand, writes, abatch, stored>>
          /\ \/ dropped' = [dropped EXCEPT !["parse"] = @ \cup {f}] /\ UNCHANGED rhand
             \/ rhand' = [rhand EXCEPT ![r] = {f}] /\ UNCHANGED dropped
      BY <2>3, Zenon DEF ReadPacket
    <3>2. source \in [Readers -> Seq(Frames)] /\ source[r] \in Seq(Frames) /\ rhand \in [Readers -> SUBSET Frames]
      BY Zenon DEF TypeOK
    <3>3. f \in Frames /\ f \in Range(source[r])
      BY <3>1, <3>2, RangeTail
    <3>4. IsInjective(Tail(source[r])) /\ Range(Tail(source[r])) = Range(source[r]) \ {f}
      BY <3>1, <3>2, InjectiveTail, Zenon DEF PlaceInv
    <3> HIDE DEF f
    <3>5. \A q \in Readers : Range(source'[q]) = Range(source[q]) \ (IF q = r THEN {f} ELSE {})
      BY <3>1, <3>2, <3>4, Zenon
    <3>6. \A q \in Readers : IsInjective(source'[q])
      BY <3>1, <3>2, <3>4, Zenon DEF PlaceInv
    <3>7. rhand[r] = {}
      BY <3>1, Zenon DEF HoldInv
    <3>9. UNCHANGED <<pending, queue, dhand, buffer, fhand, writes, abatch, stored>>
      BY <3>1, Zenon
    <3>8. OnePlace'
      <4>1. CASE rhand' = [rhand EXCEPT ![r] = {f}] /\ UNCHANGED dropped
        <5>1. \A q \in Readers : rhand'[q] = IF q = r THEN {f} ELSE rhand[q]
          BY <3>2, <4>1, Zenon
        <5>2. Moves({f}, "source", r, "rhand", r)
          BY ONLY <3>9, <3>3, <3>5, <3>7, <4>1, <5>1, r \in Readers DEF Moves, Holds
        <5> QED BY <2>0, <5>2, MoveKeepsOnePlace, Zenon
      <4>2. CASE dropped' = [dropped EXCEPT !["parse"] = @ \cup {f}] /\ UNCHANGED rhand
        <5>2. Takes({f}, "source", r, "none")
          BY ONLY <3>9, <3>3, <3>5, <4>2, r \in Readers DEF Takes, Holds
        <5>3. \A g \in Frames : Holds(g, "alone", "none")' <=> Holds(g, "alone", "none")
          BY Zenon DEF Holds
        <5>4. Moves({f}, "source", r, "dropped", "parse")
          BY <3>3, <4>2, <5>2, <5>3, DropMoves, Zenon DEF DropReason
        <5> QED BY <2>0, <5>4, MoveKeepsOnePlace, Zenon
      <4> QED BY <3>1, <4>1, <4>2, Zenon
    <3> QED BY <3>1, <3>6, <3>8, Zenon DEF PlaceInv
  <2>4. ASSUME NEW r \in Readers, Submit(r) PROVE PlaceInv'
    <3>1. /\ rhand' = [rhand EXCEPT ![r] = {}]
          /\ UNCHANGED <<pending, source, dhand, buffer, fhand, writes, abatch, stored, dropped>>
      BY <2>4, Zenon DEF Submit, None
    <3>2. PICK f \in rhand[r] : queue' = [queue EXCEPT ![RouteOf[FlowOf[f]]] = Append(@, f)]
      BY <2>4, Zenon DEF Submit
    <3> DEFINE w == RouteOf[FlowOf[f]]
    <3>3. /\ queue \in [DecodeWorkers -> Seq(Frames)] /\ rhand \in [Readers -> SUBSET Frames]
          /\ f \in Frames
      BY Zenon DEF TypeOK
    <3>4. rhand[r] = {f} /\ w \in DecodeWorkers /\ queue[w] \in Seq(Frames)
      BY <3>3, ConstantsAssumption, Zenon DEF HoldInv
    <3>5. Range(Append(queue[w], f)) = Range(queue[w]) \cup {f}
      BY <3>3, <3>4, RangeAppend
    <3>6. f \notin Range(queue[w])
      <4>1. Holds(f, "rhand", r)
        BY Zenon DEF Holds
      <4>2. ~Holds(f, "queue", w)
        BY <2>0, <3>3, <4>1 DEF OnePlace
      <4> QED BY <3>4, <4>2, Zenon DEF Holds
    <3>7. IsInjective(Append(queue[w], f))
      BY <3>3, <3>4, <3>6, InjectiveAppend, Zenon DEF PlaceInv
    <3>8. \A v \in DecodeWorkers : queue'[v] = IF v = w THEN Append(queue[w], f) ELSE queue[v]
      BY <3>2, <3>3, Zenon
    <3>9. \A q \in Readers : rhand'[q] = IF q = r THEN {} ELSE rhand[q]
      BY <3>1, <3>3, Zenon
    <3> HIDE DEF w
    <3>10. Moves({f}, "rhand", r, "queue", w)
      BY ONLY <3>1, <3>4, <3>5, <3>8, <3>9, r \in Readers DEF Moves, Holds
    <3>11. OnePlace'
      BY <2>0, <3>10, MoveKeepsOnePlace, Zenon
    <3> QED BY <3>1, <3>7, <3>8, <3>11, Zenon DEF PlaceInv
  <2>5. ASSUME NEW w \in DecodeWorkers, Receive(w) PROVE PlaceInv'
    <3> DEFINE f == Head(queue[w])
    <3>1. /\ dpc[w] = "recv" /\ queue[w] # << >>
          /\ queue' = [queue EXCEPT ![w] = Tail(@)] /\ dhand' = [dhand EXCEPT ![w] = {f}]
          /\ UNCHANGED <<pending, source, rhand, buffer, fhand, writes, abatch, stored, dropped>>
      BY <2>5, Zenon DEF Receive
    <3>2. /\ queue \in [DecodeWorkers -> Seq(Frames)] /\ queue[w] \in Seq(Frames)
          /\ dhand \in [DecodeWorkers -> SUBSET Frames]
      BY Zenon DEF TypeOK
    <3>3. f \in Frames /\ f \in Range(queue[w])
      BY <3>1, <3>2, RangeTail
    <3>4. IsInjective(Tail(queue[w])) /\ Range(Tail(queue[w])) = Range(queue[w]) \ {f}
      BY <3>1, <3>2, InjectiveTail, Zenon DEF PlaceInv
    <3> HIDE DEF f
    <3>5. \A v \in DecodeWorkers : Range(queue'[v]) = Range(queue[v]) \ (IF v = w THEN {f} ELSE {})
      BY <3>1, <3>2, <3>4, Zenon
    <3>6. \A v \in DecodeWorkers : IsInjective(queue'[v])
      BY <3>1, <3>2, <3>4, Zenon DEF PlaceInv
    <3>7. dhand[w] = {} /\ \A v \in DecodeWorkers : dhand'[v] = IF v = w THEN {f} ELSE dhand[v]
      BY <3>1, <3>2, Zenon DEF HoldInv
    <3>8. Moves({f}, "queue", w, "dhand", w)
      BY ONLY <3>1, <3>3, <3>5, <3>7, w \in DecodeWorkers DEF Moves, Holds
    <3>9. OnePlace'
      BY <2>0, <3>8, MoveKeepsOnePlace, Zenon
    <3> QED BY <3>1, <3>6, <3>9, Zenon DEF PlaceInv
  <2>6. ASSUME NEW r \in Readers, ReaderDecode(r) PROVE PlaceInv'
    <3>1. /\ rhand' = [rhand EXCEPT ![r] = {}]
          /\ UNCHANGED <<pending, source, queue, dhand, fhand, writes, abatch, stored>>
      BY <2>6, Zenon DEF ReaderDecode, None
    <3>2. PICK f \in rhand[r] : BufferPacket(f)
      BY <2>6, Zenon DEF ReaderDecode
    <3>3. rhand[r] = {f} /\ f \in Frames /\ rhand \in [Readers -> SUBSET Frames]
      BY Zenon DEF TypeOK, HoldInv
    <3>4. \A q \in Readers : rhand'[q] = IF q = r THEN {} ELSE rhand[q]
      BY <3>1, <3>3, Zenon
    <3>5. Takes({f}, "rhand", r, "buffer")
      BY ONLY <3>1, <3>3, <3>4, r \in Readers DEF Takes, Holds
    <3> QED BY <2>0, <2>1, <3>1, <3>2, <3>3, <3>5, BufferMoves, Zenon
  <2>7. ASSUME NEW w \in DecodeWorkers, PoolDecode(w) PROVE PlaceInv'
    <3>1. /\ dhand' = [dhand EXCEPT ![w] = {}]
          /\ UNCHANGED <<pending, source, queue, rhand, fhand, writes, abatch, stored>>
      BY <2>7, Zenon DEF PoolDecode, None
    <3>2. PICK f \in dhand[w] : BufferPacket(f)
      BY <2>7, Zenon DEF PoolDecode
    <3>3. dhand[w] = {f} /\ f \in Frames /\ dhand \in [DecodeWorkers -> SUBSET Frames]
      BY Zenon DEF TypeOK, HoldInv
    <3>4. \A v \in DecodeWorkers : dhand'[v] = IF v = w THEN {} ELSE dhand[v]
      BY <3>1, <3>3, Zenon
    <3>5. Takes({f}, "dhand", w, "buffer")
      BY ONLY <3>1, <3>3, <3>4, w \in DecodeWorkers DEF Takes, Holds
    <3> QED BY <2>0, <2>1, <3>1, <3>2, <3>3, <3>5, BufferMoves, Zenon
  <2>8. CASE FlushTick
    <3>1. /\ fpc = "select" /\ fhand' = buffer /\ buffer' = {}
          /\ UNCHANGED <<pending, source, queue, rhand, dhand, writes, abatch, stored, dropped>>
      BY <2>8, Zenon DEF FlushTick
    <3>2. fhand = {}
      BY <3>1, Zenon DEF HoldInv
    <3>3. Moves(buffer, "alone", "buffer", "alone", "fhand")
      BY ONLY <3>1, <3>2 DEF Moves, Holds
    <3> QED BY <2>0, <2>1, <3>1, <3>3, MoveKeepsOnePlace, Zenon
  <2>9. CASE FlushAcquire
    <3>1. UNCHANGED <<pending, source, queue, rhand, dhand, buffer, abatch, stored, dropped>>
      BY <2>9, Zenon DEF FlushAcquire
    <3>2. CASE writes' = writes \cup {fhand} /\ fhand' = {}
      <4>1. \A g \in fhand : g \in Frames /\ fhand \notin writes
        <5> SUFFICES ASSUME NEW g \in fhand PROVE g \in Frames /\ fhand \notin writes
          BY Zenon
        <5>1. g \in Frames /\ Holds(g, "alone", "fhand")
          BY Zenon DEF Holds, TypeOK
        <5>2. ~Holds(g, "writes", fhand)
          BY <2>0, <5>1 DEF OnePlace
        <5> QED BY <5>1, <5>2, Zenon DEF Holds
      <4>2. Moves(fhand, "alone", "fhand", "writes", fhand)
        BY ONLY <3>1, <3>2, <4>1 DEF Moves, Holds
      <4> QED BY <2>0, <2>1, <3>1, <4>2, MoveKeepsOnePlace, Zenon
    <3>3. CASE UNCHANGED <<writes, fhand>>
      BY <3>1, <3>3, StayKeepsPlaces, Zenon
    <3> QED BY <2>9, <3>2, <3>3, Zenon DEF FlushAcquire, None
  <2>10. CASE FlushRequeue
    <3>1. UNCHANGED <<pending, source, queue, rhand, dhand, writes, abatch, stored>>
      BY <2>10, Zenon DEF FlushRequeue
    <3>2. ASSUME NEW f \in fhand, BufferPacket(f), fhand' = fhand \ {f} PROVE PlaceInv'
      <4>1. f \in Frames
        BY Zenon DEF TypeOK
      <4>2. Takes({f}, "alone", "fhand", "buffer")
        BY ONLY <3>1, <3>2 DEF Takes, Holds
      <4> QED BY <2>0, <2>1, <3>1, <3>2, <4>1, <4>2, BufferMoves, Zenon
    <3>3. CASE UNCHANGED <<fhand, buffer, dropped>>
      BY <3>1, <3>3, StayKeepsPlaces, Zenon
    <3> QED BY <2>10, <3>2, <3>3, Zenon DEF FlushRequeue
  <2>11. ASSUME NEW batch \in SUBSET Frames, FlushWrite(batch) PROVE PlaceInv'
    <3>1. /\ UNCHANGED <<pending, source, queue, rhand, dhand, buffer, fhand, abatch>>
          /\ batch \in writes /\ writes' = writes \ {batch} /\ StorePackets(batch)
      BY <2>11, Zenon DEF FlushWrite
    <3>2. Takes(batch, "writes", batch, "stored")
      BY ONLY <3>1, batch \in SUBSET Frames DEF Takes, Holds
    <3> QED BY <2>0, <2>1, <3>1, <3>2, StoreMoves, Zenon
  <2>12. ASSUME NEW c \in Callers, AnalyzeDrain(c) PROVE PlaceInv'
    <3>1. /\ UNCHANGED <<pending, source, queue, rhand, dhand, fhand, writes, stored, dropped>>
          /\ abatch' = [abatch EXCEPT ![c] = buffer] /\ buffer' = {} /\ apc[c] = "drain"
      BY <2>12, Zenon DEF AnalyzeDrain
    <3>2. abatch[c] = {} /\ \A d \in Callers : abatch'[d] = IF d = c THEN buffer ELSE abatch[d]
      BY <3>1, Zenon DEF HoldInv, TypeOK
    <3>3. Moves(buffer, "alone", "buffer", "abatch", c)
      BY ONLY <3>1, <3>2, c \in Callers DEF Moves, Holds
    <3> QED BY <2>0, <2>1, <3>1, <3>3, MoveKeepsOnePlace, Zenon
  <2>13. ASSUME NEW c \in Callers, AnalyzeStore(c) PROVE PlaceInv'
    <3>1. /\ UNCHANGED <<pending, source, queue, rhand, dhand, buffer, fhand, writes>>
          /\ abatch' = [abatch EXCEPT ![c] = {}] /\ StorePackets(abatch[c])
      BY <2>13, Zenon DEF AnalyzeStore
    <3>2. abatch[c] \in SUBSET Frames /\ \A d \in Callers : abatch'[d] = IF d = c THEN {} ELSE abatch[d]
      BY <3>1, Zenon DEF TypeOK
    <3>3. Takes(abatch[c], "abatch", c, "stored")
      BY ONLY <3>1, <3>2, c \in Callers DEF Takes, Holds
    <3> QED BY <2>0, <2>1, <3>1, <3>2, <3>3, StoreMoves, Zenon
  <2>14. CASE Start \/ Publish \/ FlushStop \/ StopAll \/ WaitIdle \/ UNCHANGED vars
    BY <2>14, StayKeepsPlaces, Zenon DEF Start, Publish, FlushStop, StopAll, WaitIdle
  <2>15. ASSUME NEW r \in Readers, CheckStop(r) \/ ReadError(r) \/ ClosePool(r) PROVE PlaceInv'
    BY <2>15, StayKeepsPlaces, Zenon DEF CheckStop, ReadError, ClosePool
  <2>16. ASSUME NEW w \in DecodeWorkers, Drained(w) \/ FlushAssembler(w) PROVE PlaceInv'
    BY <2>16, StayKeepsPlaces, Zenon DEF Drained, FlushAssembler
  <2>17. ASSUME NEW c \in Callers,
                \/ StopRequest(c) \/ StopStep(c) \/ AnalyzeStart(c) \/ PoolWait(c) \/ Flush(c)
                \/ StoreFlows(c) \/ StoreCalls(c) \/ Complete(c)
         PROVE  PlaceInv'
    BY <2>17, StayKeepsPlaces, Zenon DEF StopRequest, StopStep, SessionStop, SpawnAnalysis, AnalyzeStart,
        PoolWait, Flush, StoreFlows, StoreCalls, Complete
  <2> QED
    BY <1>2, <2>2, <2>3, <2>4, <2>5, <2>6, <2>7, <2>8, <2>9, <2>10, <2>11, <2>12, <2>13, <2>14, <2>15,
        <2>16, <2>17, Zenon DEF Next, ReaderStep, DecodeStep, FlushStep, AnalyzeStep
<1> QED BY <1>1, <1>2, TypeCorrect, HoldInvariant, PTL DEF Spec

(* Every packet is in exactly one place, for every number of sources, pool   *)
(* workers, writers and concurrent stops: periodicFlush, its re-queueing and *)
(* the final drains of the analyses never store it twice, and it is given up *)
(* only for a reason in DropReason.                                          *)
THEOREM EveryPacketAccounted == Spec => []Accounted
<1>1. ASSUME TypeOK, PlaceInv PROVE Accounted
  <2> SUFFICES ASSUME NEW f \in Frames PROVE \E p \in Places(f) : Places(f) = {p}
    BY Zenon DEF Accounted
  <2>1. PICK k, a : \A l, b : Holds(f, l, b) <=> l = k /\ b = a
    BY <1>1, Zenon DEF PlaceInv, OnePlace
  <2>2. Holds(f, k, a)
    BY <2>1, Zenon
  <2>3. source \in [Readers -> Seq(Frames)] /\ queue \in [DecodeWorkers -> Seq(Frames)]
    BY <1>1, Zenon DEF TypeOK
  <2> DEFINE alone == [pending |-> pending, buffer |-> buffer, fhand |-> fhand, stored |-> stored]
             InSource(r) == {<<"source", r, i>> : i \in Positions(f, source[r])}
             InQueue(w) == {<<"queue", w, i>> : i \in Positions(f, queue[w])}
             A == {<<"alone", p>> : p \in {x \in DOMAIN alone : f \in alone[x]}}
             S == UNION {InSource(r) : r \in Readers}
             R == {<<"rhand", r>> : r \in {x \in Readers : f \in rhand[x]}}
             Q == UNION {InQueue(w) : w \in DecodeWorkers}
             D == {<<"dhand", w>> : w \in {x \in DecodeWorkers : f \in dhand[x]}}
             W == {<<"writes", b>> : b \in {x \in writes : f \in x}}
             B == {<<"abatch", c>> : c \in {x \in Callers : f \in abatch[x]}}
             X == {<<"dropped", d>> : d \in {x \in DropReason : f \in dropped[x]}}
  <2>p. Places(f) = A \cup S \cup R \cup Q \cup D \cup W \cup B \cup X
    BY Zenon DEF Places
  <2>s. \A p : p \in S <=> \E r \in Readers : \E i \in DOMAIN source[r] : source[r][i] = f /\ p = <<"source", r, i>>
    BY DEF Positions
  <2>q. \A p : p \in Q <=> \E w \in DecodeWorkers : \E i \in DOMAIN queue[w] : queue[w][i] = f /\ p = <<"queue", w, i>>
    BY DEF Positions
  <2>a. \A p : p \in A <=> \E b : Holds(f, "alone", b) /\ p = <<"alone", b>>
    BY DEF Holds
  <2>o. \A p : p \in R \cup D \cup W \cup B \cup X <=>
                 \E l, b : l \notin {"alone", "source", "queue"} /\ Holds(f, l, b) /\ p = <<l, b>>
    BY DEF Holds
  <2> HIDE DEF A, S, R, Q, D, W, B, X
  <2>4. \A p \in Places(f) :
          \/ \E l, b : l \notin {"source", "queue"} /\ Holds(f, l, b) /\ p = <<l, b>>
          \/ \E r \in Readers : \E i \in DOMAIN source[r] : source[r][i] = f /\ p = <<"source", r, i>>
          \/ \E w \in DecodeWorkers : \E i \in DOMAIN queue[w] : queue[w][i] = f /\ p = <<"queue", w, i>>
    <3> SUFFICES ASSUME NEW p \in Places(f), p \notin S, p \notin Q
                 PROVE  \E l, b : l \notin {"source", "queue"} /\ Holds(f, l, b) /\ p = <<l, b>>
      BY <2>s, <2>q, Zenon
    <3>1. p \in A \/ p \in R \cup D \cup W \cup B \cup X
      BY <2>p, Zenon
    <3>2. CASE p \in A
      BY <2>a, <3>2, Zenon
    <3>3. CASE p \in R \cup D \cup W \cup B \cup X
      BY <2>o, <3>3, Zenon
    <3> QED BY <3>1, <3>2, <3>3, Zenon
  <2>5. ASSUME NEW r \in Readers, NEW i \in DOMAIN source[r], source[r][i] = f
        PROVE  k = "source" /\ a = r /\ <<"source", r, i>> \in Places(f)
    <3>1. Holds(f, "source", r)
      BY <2>5, Zenon DEF Holds, Range
    <3> QED BY <2>1, <2>5, <2>p, <2>s, <3>1
  <2>6. ASSUME NEW w \in DecodeWorkers, NEW i \in DOMAIN queue[w], queue[w][i] = f
        PROVE  k = "queue" /\ a = w /\ <<"queue", w, i>> \in Places(f)
    <3>1. Holds(f, "queue", w)
      BY <2>6, Zenon DEF Holds, Range
    <3> QED BY <2>1, <2>6, <2>p, <2>q, <3>1
  <2>7. CASE k = "source"
    <3>1. a \in Readers /\ f \in Range(source[a])
      BY <2>2, <2>7, Zenon DEF Holds
    <3>2. PICK i \in DOMAIN source[a] : source[a][i] = f
      BY <3>1, Zenon DEF Range
    <3>3. IsInjective(source[a])
      BY <1>1, <3>1, Zenon DEF PlaceInv
    <3>4. \A p \in Places(f) : p = <<"source", a, i>>
      BY <2>1, <2>4, <2>5, <2>6, <2>7, <3>2, <3>3 DEF IsInjective
    <3> QED BY <2>5, <3>1, <3>2, <3>4, Zenon
  <2>8. CASE k = "queue"
    <3>1. a \in DecodeWorkers /\ f \in Range(queue[a])
      BY <2>2, <2>8, Zenon DEF Holds
    <3>2. PICK i \in DOMAIN queue[a] : queue[a][i] = f
      BY <3>1, Zenon DEF Range
    <3>3. IsInjective(queue[a])
      BY <1>1, <3>1, Zenon DEF PlaceInv
    <3>4. \A p \in Places(f) : p = <<"queue", a, i>>
      BY <2>1, <2>4, <2>5, <2>6, <2>8, <3>2, <3>3 DEF IsInjective
    <3> QED BY <2>6, <3>1, <3>2, <3>4, Zenon
  <2>9. CASE k \notin {"source", "queue"}
    <3>1. <<k, a>> \in Places(f)
      BY <2>2, <2>9, <2>p, <2>a, <2>o, Zenon
    <3>2. \A p \in Places(f) : p = <<k, a>>
      BY <2>1, <2>4, <2>5, <2>6, <2>9
    <3> QED BY <3>1, <3>2, Zenon
  <2> QED BY <2>7, <2>8, <2>9, Zenon
<1> QED BY <1>1, TypeCorrect, PlaceInvariant, PTL
-----------------------------------------------------------------------------
(* With a decode pool, no packet is lost on its way to the analysis.         *)

Past(c) == hasDB /\ apc[c] \in {"flows", "calls", "drain", "packets", "complete", "done"}

\* The session was stopped before its capture workers read anything.
Unread ==
  /\ closes > 0
  /\ \A r \in Readers : rpc[r] \in {"check", "close", "done"}
  /\ \A f \in Frames : Outside(f)

\* Every frame is outside, in a hand, in a channel, or in the decoders.
Covered(f) ==
  \/ Outside(f)
  \/ \E r \in Readers : f \in rhand[r]
  \/ \E w \in DecodeWorkers : f \in Range(queue[w]) \/ f \in dhand[w]
  \/ \E d \in Decoders : f \in decoded[d]

CoverInv == \A f \in Frames : Covered(f)

PastInv ==
  \A c \in Callers : Past(c) =>
    \/ Unread
    \/ /\ \A w \in DecodeWorkers : dpc[w] = "done"
       /\ \A d \in Decoders : decoded[d] \subseteq aflows[c]

LEMMA CoverInvariant == ASSUME Pooled PROVE Spec => []CoverInv
<1>1. Init => CoverInv
  BY Zenon DEF Init, CoverInv, Covered, Outside
<1>2. ASSUME TypeOK, PoolInv, HoldInv, CoverInv, [Next]_vars PROVE CoverInv'
  <2> SUFFICES ASSUME NEW g \in Frames PROVE Covered(g)'
    BY Zenon DEF CoverInv
  <2> USE <1>2 DEF CoverInv, Covered, Outside
  <2>g. SourceOf[g] \in Readers
    BY ConstantsAssumption, Zenon
  <2>1. ASSUME UNCHANGED <<pending, source, rhand, queue, dhand, decoded>>,
               dropped["source"] \subseteq dropped'["source"],
               dropped["parse"] \subseteq dropped'["parse"]
        PROVE  Covered(g)'
    BY <2>1, Zenon
  <2>2. ASSUME NEW f \in Frames, Arrive(f) PROVE Covered(g)'
    <3> DEFINE r == SourceOf[f]
    <3>1. r \in Readers /\ source[r] \in Seq(Frames)
      BY ConstantsAssumption, Zenon DEF TypeOK
    <3>2. Range(Append(source[r], f)) = Range(source[r]) \cup {f}
      BY <3>1, RangeAppend
    <3>3. /\ pending' = pending \ {f} /\ UNCHANGED <<rhand, queue, dhand, decoded>>
          /\ \/ source' = [source EXCEPT ![r] = Append(@, f)] /\ UNCHANGED dropped
             \/ dropped' = [dropped EXCEPT !["source"] = @ \cup {f}] /\ UNCHANGED source
      BY <2>2, Zenon DEF Arrive
    <3>4. CASE source' = [source EXCEPT ![r] = Append(@, f)] /\ UNCHANGED dropped
      <4>1. Range(source'[SourceOf[g]]) =
              Range(source[SourceOf[g]]) \cup (IF SourceOf[g] = r THEN {f} ELSE {})
        BY <2>g, <3>1, <3>2, <3>4, Zenon DEF TypeOK
      <4> HIDE DEF r
      <4> QED BY <3>3, <3>4, <4>1, Zenon DEF r
    <3>5. CASE dropped' = [dropped EXCEPT !["source"] = @ \cup {f}] /\ UNCHANGED source
      <4>1. dropped'["source"] = dropped["source"] \cup {f} /\ dropped'["parse"] = dropped["parse"]
        BY <3>5, Zenon DEF TypeOK, DropReason
      <4> QED BY <3>3, <3>5, <4>1, Zenon
    <3> QED BY <3>3, <3>4, <3>5, Zenon
  <2>3. ASSUME NEW r \in Readers, ReadPacket(r) PROVE Covered(g)'
    <3> DEFINE f == Head(source[r])
    <3>1. Range(source[r]) = {f} \cup Range(Tail(source[r])) /\ rhand[r] = {}
      BY <2>3, RangeTail DEF ReadPacket, TypeOK, PoolInv
    <3>2. /\ source' = [source EXCEPT ![r] = Tail(@)]
          /\ UNCHANGED <<pending, queue, dhand, decoded>>
          /\ \/ dropped' = [dropped EXCEPT !["parse"] = @ \cup {f}] /\ UNCHANGED rhand
             \/ rhand' = [rhand EXCEPT ![r] = {f}] /\ UNCHANGED dropped
      BY <2>3, Zenon DEF ReadPacket
    <3>3. g = f \/ g \in Range(source'[SourceOf[g]]) \/ g \notin Range(source[SourceOf[g]])
      BY <2>g, <3>1, <3>2, Zenon DEF TypeOK
    <3>4. CASE dropped' = [dropped EXCEPT !["parse"] = @ \cup {f}] /\ UNCHANGED rhand
      <4>1. dropped'["parse"] = dropped["parse"] \cup {f} /\ dropped'["source"] = dropped["source"]
        BY <3>4, Zenon DEF TypeOK, DropReason
      <4> QED BY <3>2, <3>3, <3>4, <4>1, Zenon
    <3>5. CASE rhand' = [rhand EXCEPT ![r] = {f}] /\ UNCHANGED dropped
      <4>1. f \in rhand'[r] /\ \A q \in Readers : rhand[q] \subseteq rhand'[q]
        BY <3>1, <3>5, Zenon DEF TypeOK
      <4> QED BY <3>2, <3>3, <3>5, <4>1, ZenonT(30)
    <3> QED BY <3>2, <3>4, <3>5, Zenon
  <2>4. ASSUME NEW r \in Readers, Submit(r) PROVE Covered(g)'
    <3>1. PICK f \in rhand[r] : queue' = [queue EXCEPT ![RouteOf[FlowOf[f]]] = Append(@, f)]
      BY <2>4, Zenon DEF Submit
    <3> DEFINE w == RouteOf[FlowOf[f]]
    <3>2. rhand[r] = {f} /\ f \in Frames /\ FlowOf[f] # NoFlow
      BY Zenon DEF TypeOK, HoldInv
    <3>3. w \in DecodeWorkers
      BY <3>2, ConstantsAssumption, Zenon
    <3>4. Range(Append(queue[w], f)) = Range(queue[w]) \cup {f}
      <4>1. queue[w] \in Seq(Frames)
        BY <3>3, Zenon DEF TypeOK
      <4> QED BY ONLY <3>2, <4>1, RangeAppend
    <3>5. f \in Range(queue'[w]) /\ \A v \in DecodeWorkers : Range(queue[v]) \subseteq Range(queue'[v])
      <4>1. queue \in [DecodeWorkers -> Seq(Frames)]
        BY Zenon DEF TypeOK
      <4>2. queue'[w] = Append(queue[w], f) /\ \A v \in DecodeWorkers \ {w} : queue'[v] = queue[v]
        BY <3>1, <3>3, <4>1, Zenon
      <4> QED BY <3>4, <4>2, Zenon
    <3>6. \A q \in Readers : rhand[q] \subseteq rhand'[q] \cup {f}
      BY <2>4, <3>2, Zenon DEF Submit, TypeOK
    <3>7. UNCHANGED <<pending, source, dhand, decoded, dropped>>
      BY <2>4, Zenon DEF Submit
    <3> HIDE DEF w
    <3> QED BY <3>3, <3>5, <3>6, <3>7, Zenon
  <2>5. ASSUME NEW w \in DecodeWorkers, Receive(w) PROVE Covered(g)'
    <3>1. Range(queue[w]) = {Head(queue[w])} \cup Range(Tail(queue[w])) /\ dhand[w] = {}
      BY <2>5, RangeTail, Zenon DEF Receive, TypeOK, PoolInv
    <3>2. /\ Head(queue[w]) \in dhand'[w]
          /\ \A v \in DecodeWorkers :
               /\ dhand[v] \subseteq dhand'[v]
               /\ Range(queue[v]) \subseteq Range(queue'[v]) \cup {Head(queue[w])}
      BY <2>5, <3>1, Zenon DEF Receive, TypeOK
    <3>3. UNCHANGED <<pending, source, rhand, decoded, dropped>>
      BY <2>5, Zenon DEF Receive
    <3> QED BY <3>2, <3>3, Zenon
  <2>6. ASSUME NEW w \in DecodeWorkers, PoolDecode(w) PROVE Covered(g)'
    <3>1. w \in Decoders /\ dhand[w] \subseteq decoded'[w]
            /\ \A d \in Decoders : decoded[d] \subseteq decoded'[d]
      BY <2>6, Zenon DEF PoolDecode, Decoders, TypeOK
    <3>2. dropped["source"] \subseteq dropped'["source"] /\ dropped["parse"] \subseteq dropped'["parse"]
      BY <2>6, Zenon DEF PoolDecode, BufferPacket, TypeOK, DropReason
    <3>3. \A v \in DecodeWorkers : v = w \/ dhand'[v] = dhand[v]
      BY <2>6, Zenon DEF PoolDecode, TypeOK
    <3>4. UNCHANGED <<pending, source, rhand, queue>>
      BY <2>6, Zenon DEF PoolDecode
    <3> QED BY <3>1, <3>2, <3>3, <3>4, Zenon
  <2>7. ASSUME NEW r \in Readers, CheckStop(r) \/ ReadError(r) \/ ClosePool(r) \/ ReaderDecode(r)
        PROVE  Covered(g)'
    BY <2>7, <2>1, Zenon DEF CheckStop, ReadError, ClosePool, ReaderDecode, PoolInv
  <2>8. ASSUME NEW w \in DecodeWorkers, Drained(w) \/ FlushAssembler(w) PROVE Covered(g)'
    BY <2>8, <2>1, Zenon DEF Drained, FlushAssembler
  <2>9. CASE FlushRequeue
    <3>1. dropped["source"] \subseteq dropped'["source"] /\ dropped["parse"] \subseteq dropped'["parse"]
      BY <2>9, Zenon DEF FlushRequeue, BufferPacket, TypeOK, DropReason
    <3> QED BY <2>9, <3>1, <2>1, Zenon DEF FlushRequeue
  <2>10. CASE Start \/ Publish \/ FlushStop \/ FlushTick \/ FlushAcquire \/ StopAll \/ WaitIdle \/ UNCHANGED vars
    BY <2>10, <2>1, Zenon DEF Start, Publish, FlushStop, FlushTick, FlushAcquire, StopAll, WaitIdle
  <2>11. ASSUME NEW batch \in SUBSET Frames, FlushWrite(batch) PROVE Covered(g)'
    <3>1. dropped["source"] \subseteq dropped'["source"] /\ dropped["parse"] \subseteq dropped'["parse"]
      BY <2>11, Zenon DEF FlushWrite, StorePackets, TypeOK, DropReason
    <3> QED BY <2>11, <3>1, <2>1, Zenon DEF FlushWrite
  <2>12. ASSUME NEW c \in Callers, AnalyzeStore(c) PROVE Covered(g)'
    <3>1. dropped["source"] \subseteq dropped'["source"] /\ dropped["parse"] \subseteq dropped'["parse"]
      BY <2>12, Zenon DEF AnalyzeStore, StorePackets, TypeOK, DropReason
    <3> QED BY <2>12, <3>1, <2>1, Zenon DEF AnalyzeStore
  <2>13. ASSUME NEW c \in Callers,
                \/ StopRequest(c) \/ StopStep(c) \/ AnalyzeStart(c) \/ PoolWait(c) \/ Flush(c)
                \/ StoreFlows(c) \/ StoreCalls(c) \/ AnalyzeDrain(c) \/ Complete(c)
         PROVE  Covered(g)'
    BY <2>13, <2>1, Zenon DEF StopRequest, StopStep, SessionStop, SpawnAnalysis, AnalyzeStart, PoolWait,
        Flush, StoreFlows, StoreCalls, AnalyzeDrain, Complete
  <2> HIDE DEF Covered, CoverInv, Outside
  <2> QED
    BY <1>2, <2>2, <2>3, <2>4, <2>5, <2>6, <2>7, <2>8, <2>9, <2>10, <2>11, <2>12, <2>13, Zenon DEF Next,
        ReaderStep, DecodeStep, FlushStep, AnalyzeStep
<1> QED BY <1>1, <1>2, TypeCorrect, PoolInvariant, HoldInvariant, PTL DEF Spec

LEMMA PastInvariant == ASSUME Pooled PROVE Spec => []PastInv
<1>1. Init => PastInv
  BY Zenon DEF Init, PastInv, Past
<1>2. ASSUME TypeOK, StopInv, PoolInv, PastInv, [Next]_vars PROVE PastInv'
  <2> SUFFICES ASSUME NEW e \in Callers, Past(e)'
               PROVE  \/ Unread'
                      \/ /\ \A w \in DecodeWorkers : dpc'[w] = "done"
                         /\ \A d \in Decoders : decoded'[d] \subseteq aflows'[e]
    BY Zenon DEF PastInv
  <2> DEFINE Seen == /\ \A w \in DecodeWorkers : dpc[w] = "done"
                     /\ \A d \in Decoders : decoded[d] \subseteq aflows[e]
  <2>1. ASSUME Past(e) PROVE Unread \/ Seen
    BY <1>2, <2>1, Zenon DEF PastInv
  <2>2. Unread => Unread'
    <3> SUFFICES ASSUME Unread PROVE Unread'
      BY Zenon
    <3> USE <1>2 DEF TypeOK, Unread, Outside
    <3>1. ASSUME UNCHANGED <<pending, source, rpc>>, closes' > 0,
                 dropped["source"] \subseteq dropped'["source"],
                 dropped["parse"] \subseteq dropped'["parse"]
          PROVE  Unread'
      BY <3>1, Zenon
    <3>2. ASSUME NEW f \in Frames, Arrive(f) PROVE Unread'
      <4> DEFINE r == SourceOf[f]
      <4>1. r \in Readers /\ source[r] \in Seq(Frames)
        BY ConstantsAssumption, Zenon
      <4>2. Range(Append(source[r], f)) = Range(source[r]) \cup {f}
        BY <4>1, RangeAppend
      <4>3. UNCHANGED <<rpc, closes>> /\ pending' = pending \ {f}
        BY <3>2, Zenon DEF Arrive
      <4>4. /\ \A q \in Readers : Range(source[q]) \subseteq Range(source'[q])
            /\ dropped["source"] \subseteq dropped'["source"]
            /\ dropped["parse"] \subseteq dropped'["parse"]
            /\ f \in Range(source'[r]) \cup dropped'["source"]
        <5>1. CASE Len(source[r]) < SourceCap
          BY <3>2, <4>1, <4>2, <5>1, Zenon DEF Arrive
        <5>2. CASE ~(Len(source[r]) < SourceCap)
          BY <3>2, <4>1, <5>2 DEF Arrive, DropReason
        <5> QED BY <5>1, <5>2, Zenon
      <4>5. \A g \in Frames : SourceOf[g] \in Readers
        BY ConstantsAssumption, Zenon
      <4> QED BY <4>3, <4>4, <4>5, Zenon
    <3>3. ASSUME NEW r \in Readers, CheckStop(r) PROVE Unread'
      <4>1. rpc' = [rpc EXCEPT ![r] = "close"]
        BY <3>3, Pooled, Zenon DEF CheckStop, AfterLoop, stopped
      <4> QED BY <3>3, <4>1, Zenon DEF CheckStop
    <3>4. ASSUME NEW r \in Readers, ClosePool(r) PROVE Unread'
      BY <3>4, Zenon DEF ClosePool
    <3>5. ASSUME NEW r \in Readers, ReadPacket(r) \/ ReadError(r) \/ Submit(r) \/ ReaderDecode(r)
          PROVE  FALSE
      BY <3>5, Zenon DEF ReadPacket, ReadError, Submit, ReaderDecode
    <3>6. ASSUME NEW w \in DecodeWorkers, PoolDecode(w) PROVE Unread'
      BY <3>6, <3>1 DEF PoolDecode, BufferPacket, DropReason
    <3>7. ASSUME NEW w \in DecodeWorkers, Receive(w) \/ Drained(w) \/ FlushAssembler(w)
          PROVE  Unread'
      BY <3>7, <3>1, Zenon DEF Receive, Drained, FlushAssembler
    <3>8. CASE FlushRequeue
      BY <3>8, <3>1 DEF FlushRequeue, BufferPacket, DropReason
    <3>9. ASSUME NEW batch \in SUBSET Frames, FlushWrite(batch) PROVE Unread'
      BY <3>9, <3>1, Zenon DEF FlushWrite, StorePackets, DropReason
    <3>10. ASSUME NEW c \in Callers, AnalyzeStore(c) PROVE Unread'
      BY <3>10, <3>1, Zenon DEF AnalyzeStore, StorePackets, DropReason
    <3>11. CASE Start \/ Publish \/ FlushStop \/ FlushTick \/ FlushAcquire \/ StopAll \/ WaitIdle \/ UNCHANGED vars
      BY <3>11, <3>1, Zenon DEF Start, Publish, FlushStop, FlushTick, FlushAcquire, StopAll, WaitIdle
    <3>12. ASSUME NEW c \in Callers,
                  \/ StopRequest(c) \/ StopStep(c) \/ AnalyzeStart(c) \/ PoolWait(c) \/ Flush(c)
                  \/ StoreFlows(c) \/ StoreCalls(c) \/ AnalyzeDrain(c) \/ Complete(c)
           PROVE  Unread'
      <4>1. closes' = closes \/ closes' = closes + 1
        BY <3>12, Zenon DEF StopRequest, StopStep, SessionStop, SpawnAnalysis, AnalyzeStart, PoolWait,
            Flush, StoreFlows, StoreCalls, AnalyzeDrain, Complete
      <4>2. UNCHANGED <<pending, source, rpc, dropped>>
        BY <3>12, Zenon DEF StopRequest, StopStep, SessionStop, SpawnAnalysis, AnalyzeStart, PoolWait,
            Flush, StoreFlows, StoreCalls, AnalyzeDrain, Complete
      <4>3. closes' > 0
        BY <4>1
      <4> QED BY <4>2, <4>3, <3>1, Zenon
    <3> HIDE DEF Unread, TypeOK, Outside
    <3> QED
      BY <3>2, <3>3, <3>4, <3>5, <3>6, <3>7, <3>8, <3>9, <3>10, <3>11, <3>12, Zenon DEF Next, ReaderStep,
          DecodeStep, FlushStep, AnalyzeStep
  <2>3. ASSUME \A w \in DecodeWorkers : dpc[w] = "done"
        PROVE  UNCHANGED <<dpc, decoded>>
    <3> USE <1>2, <2>3
    <3>1. ASSUME NEW r \in Readers, ReaderStep(r) PROVE UNCHANGED <<dpc, decoded>>
      BY <3>1, Zenon DEF PoolInv, ReaderStep, CheckStop, ReadPacket, ReadError, Submit, ReaderDecode, ClosePool
    <3>2. ASSUME NEW w \in DecodeWorkers, DecodeStep(w) PROVE FALSE
      BY <3>2, Zenon DEF DecodeStep, Receive, PoolDecode, Drained, FlushAssembler
    <3>3. CASE Start \/ Publish \/ FlushStep \/ StopAll \/ WaitIdle \/ UNCHANGED vars
      BY <3>3, Zenon DEF Start, Publish, FlushStep, FlushStop, FlushTick, FlushAcquire, FlushRequeue,
          StopAll, WaitIdle
    <3>4. ASSUME NEW batch \in SUBSET Frames, FlushWrite(batch) PROVE UNCHANGED <<dpc, decoded>>
      BY <3>4, Zenon DEF FlushWrite
    <3>5. ASSUME NEW f \in Frames, Arrive(f) PROVE UNCHANGED <<dpc, decoded>>
      BY <3>5, Zenon DEF Arrive
    <3>6. ASSUME NEW c \in Callers, StopRequest(c) \/ StopStep(c) \/ AnalyzeStep(c)
          PROVE  UNCHANGED <<dpc, decoded>>
      BY <3>6, Zenon DEF StopRequest, StopStep, SessionStop, SpawnAnalysis, AnalyzeStep, AnalyzeStart,
          PoolWait, Flush, StoreFlows, StoreCalls, AnalyzeDrain, AnalyzeStore, Complete
    <3> QED BY <3>1, <3>2, <3>3, <3>4, <3>5, <3>6, Zenon DEF Next
  <2>4. CASE \E c \in Callers : Flush(c)
    <3>1. PICK c \in Callers : Flush(c)
      BY <2>4, Zenon
    <3>2. \A w \in DecodeWorkers : dpc[w] = "done"
      BY <1>2, <3>1, Zenon DEF Flush, PoolInv
    <3>3. CASE c = e
      <4>1. aflows'[e] = UNION {decoded[d] : d \in Decoders}
        BY <1>2, <3>1, <3>3, Zenon DEF Flush, TypeOK
      <4>2. UNCHANGED <<dpc, decoded>>
        BY <2>3, <3>2, Zenon
      <4> QED BY <3>2, <4>1, <4>2, Zenon
    <3>4. CASE c # e
      <4>1. Past(e) /\ aflows'[e] = aflows[e]
        BY <1>2, <3>1, <3>4, Zenon DEF Flush, Past, TypeOK
      <4>2. UNCHANGED <<dpc, decoded>>
        BY <2>3, <3>2, Zenon
      <4> QED BY <2>1, <2>2, <4>1, <4>2, Zenon
    <3> QED BY <3>3, <3>4, Zenon
  <2>5. CASE \E c \in Callers : PoolWait(c)
    <3>1. PICK c \in Callers : PoolWait(c)
      BY <2>5, Zenon
    <3>2. UNCHANGED <<hasDB, aflows>>
      BY <3>1, Zenon DEF PoolWait, Flushable
    <3>3. CASE Past(e)
      BY <2>1, <2>2, <2>3, <3>2, <3>3, Zenon
    <3>4. CASE ~Past(e)
      <4>1. ~started /\ apc[c] = "wait"
        <5>1. Flushable <=> started
          BY Pooled, Zenon DEF Flushable
        <5>2. apc[c] = "wait" /\ apc' = [apc EXCEPT ![c] = IF Flushable THEN "flush" ELSE "flows"]
          BY <3>1, Zenon DEF PoolWait
        <5>3. apc \in [Callers -> {"none", "start", "wait", "flush", "flows", "calls",
                                   "drain", "packets", "complete", "done"}]
          BY <1>2, Zenon DEF TypeOK
        <5> QED BY <3>2, <3>4, <5>1, <5>2, <5>3, Zenon DEF Past
      <4>2. Unread
        <5>0. closes = 1
          BY <1>2, <4>1, Zenon DEF StopInv
        <5>1. closes > 0
          BY ONLY <5>0
        <5>2. pending = Frames /\ \A r \in Readers : rpc[r] = "check"
          BY <1>2, <4>1, Zenon DEF PoolInv
        <5> QED BY <5>1, <5>2, Zenon DEF Unread, Outside
      <4> QED BY <2>2, <4>2, Zenon
    <3> QED BY <3>3, <3>4, Zenon
  <2>6. CASE ~\E c \in Callers : PoolWait(c) \/ Flush(c)
    <3>1. UNCHANGED <<hasDB, aflows>>
      BY <1>2, <2>6, Zenon DEF Next, Start, Publish, Arrive, ReaderStep, CheckStop, ReadPacket, ReadError,
          Submit, ReaderDecode, ClosePool, DecodeStep, Receive, PoolDecode, Drained, FlushAssembler,
          FlushStep, FlushStop, FlushTick, FlushAcquire, FlushRequeue, FlushWrite, StopAll, StopRequest,
          StopStep, SessionStop, SpawnAnalysis, AnalyzeStep, AnalyzeStart, StoreFlows, StoreCalls,
          AnalyzeDrain, AnalyzeStore, Complete, WaitIdle
    <3>2. Past(e)
      <4>1. ASSUME NEW c \in Callers, SpawnAnalysis(c) \/ AnalyzeStart(c) PROVE Past(e)
        BY <1>2, <3>1, <4>1, Zenon DEF SpawnAnalysis, AnalyzeStart, Past, TypeOK
      <4>2. ASSUME NEW c \in Callers,
                   StoreFlows(c) \/ StoreCalls(c) \/ AnalyzeDrain(c) \/ AnalyzeStore(c) \/ Complete(c)
            PROVE  Past(e)
        <5>1. apc[c] \in {"flows", "calls", "drain", "packets", "complete"}
          BY <4>2, Zenon DEF StoreFlows, StoreCalls, AnalyzeDrain, AnalyzeStore, Complete
        <5>2. c = e \/ apc'[e] = apc[e]
          BY <1>2, <4>2, Zenon DEF StoreFlows, StoreCalls, AnalyzeDrain, AnalyzeStore, Complete, TypeOK
        <5> QED BY <3>1, <5>1, <5>2, Zenon DEF Past
      <4>3. CASE UNCHANGED apc
        BY <3>1, <4>3, Zenon DEF Past
      <4> QED
        BY <1>2, <2>6, <4>1, <4>2, <4>3, Zenon DEF Next, Start, Publish, Arrive, ReaderStep, CheckStop,
            ReadPacket, ReadError, Submit, ReaderDecode, ClosePool, DecodeStep, Receive, PoolDecode,
            Drained, FlushAssembler, FlushStep, FlushStop, FlushTick, FlushAcquire, FlushRequeue,
            FlushWrite, StopAll, StopRequest, StopStep, SessionStop, AnalyzeStep, WaitIdle
    <3> QED BY <2>1, <2>2, <2>3, <3>1, <3>2, Zenon
  <2> QED BY <2>4, <2>5, <2>6, Zenon
<1> QED BY <1>1, <1>2, TypeCorrect, StopInvariant, PoolInvariant, PTL DEF Spec

(* With a decode pool, an analysis misses no packet: whatever the number of *)
(* pool workers, channel capacities and concurrent stops, every packet that *)
(* a capture worker read is covered by the flows of every analysis.         *)
THEOREM PoolLosesNothing == ASSUME Pooled PROVE Spec => []AnalysisSeesAll
<1>1. ASSUME TypeOK, PoolInv, CoverInv, PastInv PROVE AnalysisSeesAll
  <2> SUFFICES ASSUME NEW c \in Callers, Past(c), NEW f \in Frames, ~Outside(f)
               PROVE  f \in aflows[c]
    BY Zenon DEF AnalysisSeesAll, Past, Outside
  <2>1. /\ \A w \in DecodeWorkers : dpc[w] = "done"
        /\ \A d \in Decoders : decoded[d] \subseteq aflows[c]
    BY <1>1, Zenon DEF PastInv, Unread
  <2>2. ~poolOpen
    BY <1>1, <2>1, ConstantsAssumption, Zenon DEF PoolInv
  <2>3. /\ \A w \in DecodeWorkers : queue[w] = << >> /\ dhand[w] = {}
        /\ \A r \in Readers : rhand[r] = {}
    BY <1>1, <2>1, <2>2, Zenon DEF PoolInv
  <2>4. Range(<< >>) = {}
    BY DEF Range
  <2> QED BY <1>1, <2>1, <2>3, <2>4, Zenon DEF CoverInv, Covered
<1> QED BY <1>1, TypeCorrect, PoolInvariant, CoverInvariant, PastInvariant, PTL
=============================================================================

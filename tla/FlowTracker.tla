---------------------------- MODULE FlowTracker ----------------------------
(***************************************************************************)
(* flowengine.Tracker: the bidirectional flow records, fed with the        *)
(* packets of a TCP connection (whose sequence numbers wrap) and of a ping *)
(* between the same two hosts.  Hosts are numbers, in the order of their   *)
(* addresses; times are in units of the throughput buckets.                *)
(***************************************************************************)
EXTENDS Integers, Sequences, FiniteSets, Functions

CONSTANTS
  SeqSpan,        \* 2^32
  FirstSeq,      \* the first sequence number of both sides
  MaxPackets,    \* bound on packets handed to the tracker
  MaxClock,      \* bound on time
  BucketCap,     \* 3600: seconds for which throughput is kept
  TrendPoints,   \* 60: points of a throughput trend
  Suspicious     \* rstTTLSuspiciousDelta

\* Half of the sequence numbers are more than a segment.
ASSUME FlowConstants ==
  /\ SeqSpan \in Nat /\ SeqSpan % 2 = 0 /\ SeqSpan > 4 /\ FirstSeq \in 0..SeqSpan - 1
  /\ {MaxPackets, MaxClock, BucketCap, TrendPoints, Suspicious} \subseteq Nat /\ TrendPoints > 0

Protocols == {"TCP", "ICMP"}
Dirs == {"fwd", "rev"}
Opp(d) == IF d = "fwd" THEN "rev" ELSE "fwd"

VARIABLES
  flows,     \* Tracker.flows
  client,    \* the host that opens the connection (never changes)
  sndNxt,    \* the next sequence number of each host
  lastSeg,   \* the data segment a host sent last, for retransmission
  clock,
  handled,   \* packets of each protocol (history since the last Flush)
  talked,    \* hosts that have sent data (history since the last Flush)
  resent,    \* data sent again by those hosts (history since the last Flush)
  pushed,    \* data segments with PSH (history since the last Flush)
  shook,     \* how far the handshake was seen (history since the last Flush)
  seenAll    \* packets so far, of any kind

flowVars == <<flows, client, sndNxt, lastSeg, clock, handled, talked, resent, pushed, shook,
              seenAll>>

----------------------------------------------------------------------------
(* Keys. *)

\* Mutant: an ICMP flow is keyed by type and code, as if they were ports.
KeyByType(p) ==
  IF p.src < p.dst \/ (p.src = p.dst /\ p.sport <= p.dport)
  THEN [key |-> <<p.src, p.dst, p.sport, p.dport, p.proto>>, dir |-> "fwd"]
  ELSE [key |-> <<p.dst, p.src, p.dport, p.sport, p.proto>>, dir |-> "rev"]

\* makeKey: the flow of a packet and the packet's direction in it.
MakeKey(p) ==
  IF p.proto = "ICMP"
  THEN IF p.src < p.dst THEN [key |-> <<p.src, p.dst, 0, 0, p.proto>>, dir |-> "fwd"]
       ELSE [key |-> <<p.dst, p.src, 0, 0, p.proto>>, dir |-> "rev"]
  ELSE IF p.src < p.dst \/ (p.src = p.dst /\ p.sport <= p.dport)
       THEN [key |-> <<p.src, p.dst, p.sport, p.dport, p.proto>>, dir |-> "fwd"]
       ELSE [key |-> <<p.dst, p.src, p.dport, p.sport, p.proto>>, dir |-> "rev"]

NewRecord(ts) ==
  [start |-> ts, end |-> ts, packets |-> [d \in Dirs |-> 0], bytes |-> [d \in Dirs |-> 0],
   bucketStart |-> -1, buckets |-> << >>, flags |-> {}, syn |-> -1, synAck |-> -1,
   hiSeq |-> [d \in Dirs |-> -1], retrans |-> [d \in Dirs |-> 0],
   pending |-> [d \in Dirs |-> << >>], samples |-> << >>,
   baseline |-> [d \in Dirs |-> 0], rst |-> [seen |-> FALSE, dir |-> "fwd", ttl |-> 0]]

----------------------------------------------------------------------------
(* The parts of HandlePacket, each a function of the record. *)

\* Mutant: the flow ends with the packet that came last.
VolumeLast(r, p, d) ==
  [r EXCEPT !.end = p.ts, !.packets[d] = @ + 1, !.bytes[d] = @ + p.len]

\* Packets and bytes of a direction, and the times.
Volume(r, p, d) ==
  [r EXCEPT !.end = IF p.ts > @ THEN p.ts ELSE @,
            !.packets[d] = @ + 1, !.bytes[d] = @ + p.len]

\* The bytes go into the bucket of their second, if that is within the cap.
Bucket(r, p) ==
  LET first == IF r.bucketStart = -1 THEN p.ts ELSE r.bucketStart
      idx == p.ts - first
      longer == [i \in DOMAIN r.buckets \cup 1..idx + 1 |->
                   IF i <= Len(r.buckets) THEN r.buckets[i] ELSE 0]
  IN  IF p.len = 0 THEN r
      ELSE IF idx < 0 \/ idx >= BucketCap THEN [r EXCEPT !.bucketStart = first]
      ELSE [r EXCEPT !.bucketStart = first, !.buckets = [longer EXCEPT ![idx + 1] = @ + p.len]]

\* Mutant: the baseline is that of the first packet, RST or not.
ClosingAnyBaseline(r, p, d) ==
  LET q == [r EXCEPT !.flags = @ \cup p.flags,
                     !.baseline[d] = IF @ = 0 THEN p.ttl ELSE @]
  IN  IF "RST" \in p.flags /\ ~q.rst.seen
      THEN [q EXCEPT !.rst = [seen |-> TRUE, dir |-> d, ttl |-> p.ttl]] ELSE q

\* Flags; the first RST; the baseline TTL from the first packet that is no RST.
Closing(r, p, d) ==
  LET q == [r EXCEPT !.flags = @ \cup p.flags] IN
  IF "RST" \in p.flags
  THEN IF q.rst.seen THEN q ELSE [q EXCEPT !.rst = [seen |-> TRUE, dir |-> d, ttl |-> p.ttl]]
  ELSE IF p.ttl > 0 /\ q.baseline[d] = 0 THEN [q EXCEPT !.baseline[d] = p.ttl] ELSE q

\* Mutant: both are expected from the forward side.
HandshakeOneSided(r, p, d) ==
  LET syn == "SYN" \in p.flags IN
  IF syn /\ "ACK" \notin p.flags /\ d = "fwd" /\ r.syn = -1 THEN [r EXCEPT !.syn = p.ts]
  ELSE IF syn /\ "ACK" \in p.flags /\ d = "fwd" /\ r.syn # -1 /\ r.synAck = -1
  THEN [r EXCEPT !.synAck = p.ts] ELSE r

\* The SYN of the forward side, then the SYN-ACK of the other.
Handshake(r, p, d) ==
  LET syn == "SYN" \in p.flags IN
  IF syn /\ "ACK" \notin p.flags /\ d = "fwd" /\ r.syn = -1 THEN [r EXCEPT !.syn = p.ts]
  ELSE IF syn /\ "ACK" \in p.flags /\ d = "rev" /\ r.syn # -1 /\ r.synAck = -1
  THEN [r EXCEPT !.synAck = p.ts] ELSE r

\* Mutant: sequence numbers are compared as if they did not wrap.
SeqBeforePlain(a, b) == a < b

\* seqBefore: int32(b - a) > 0.
SeqBefore(a, b) == LET diff == (b - a) % SeqSpan IN diff > 0 /\ diff < SeqSpan \div 2

\* Data before the highest sequence number seen is a retransmission.
Retransmission(r, p, d) ==
  IF p.len = 0 THEN r
  ELSE IF r.hiSeq[d] # -1 /\ SeqBefore(p.seq, r.hiSeq[d])
  THEN [r EXCEPT !.retrans[d] = @ + 1]
  ELSE [r EXCEPT !.hiSeq[d] = (p.seq + p.len) % SeqSpan]

\* Mutant: an acknowledged segment stays in the list.
DrainKeeping(r, d, ack, now) ==
  LET done == SelectSeq(r.pending[d], LAMBDA s : ~SeqBefore(ack, s.expected))
      late == SelectSeq(done, LAMBDA s : now > s.sent)
  IN  [r EXCEPT !.samples = @ \o [i \in 1..Len(late) |-> now - late[i].sent]]

\* drainPending: what ack covers leaves the list and gives a sample.
Drain(r, d, ack, now) ==
  LET done == SelectSeq(r.pending[d], LAMBDA s : ~SeqBefore(ack, s.expected))
      late == SelectSeq(done, LAMBDA s : now > s.sent)
  IN  [r EXCEPT !.pending[d] = SelectSeq(@, LAMBDA s : SeqBefore(ack, s.expected)),
                !.samples = @ \o [i \in 1..Len(late) |-> now - late[i].sent]]

DataRTT(r, p, d) ==
  LET q == IF "PSH" \in p.flags /\ p.len > 0
           THEN [r EXCEPT !.pending[d] =
                   Append(@, [expected |-> (p.seq + p.len) % SeqSpan, sent |-> p.ts])]
           ELSE r
  IN  IF "ACK" \in p.flags /\ p.ack # 0 THEN Drain(q, Opp(d), p.ack, p.ts) ELSE q

\* HandlePacket.
HandlePacket(p) ==
  LET k == MakeKey(p)
      old == IF k.key \in DOMAIN flows THEN flows[k.key] ELSE NewRecord(p.ts)
      vol == Bucket(Volume(old, p, k.dir), p)
      rec == IF p.proto = "TCP"
             THEN DataRTT(Retransmission(Handshake(Closing(vol, p, k.dir), p, k.dir), p, k.dir),
                          p, k.dir)
             ELSE vol
  IN  flows' = IF p.reassembled THEN flows
               ELSE [f \in DOMAIN flows \cup {k.key} |-> IF f = k.key THEN rec ELSE flows[f]]

\* Flush returns the records and starts afresh.
Flush ==
  /\ flows # << >> /\ flows' = << >>
  /\ handled' = [q \in Protocols |-> 0] /\ talked' = {} /\ resent' = 0 /\ pushed' = 0 /\ shook' = "no"
  /\ UNCHANGED <<client, sndNxt, lastSeg, clock, seenAll>>

----------------------------------------------------------------------------
(* toFlow. *)

\* The trend: the buckets in steps, so that there are at most TrendPoints of them.
TrendStepFloor(n) == IF n > TrendPoints THEN n \div TrendPoints ELSE 1
TrendStep(n) == IF n > TrendPoints THEN (n + TrendPoints - 1) \div TrendPoints ELSE 1
Trend(r) ==
  LET n == Len(r.buckets)
      step == TrendStep(n)
  IN  [k \in 1..(n + step - 1) \div step |->
         FoldFunctionOnSet(LAMBDA a, b : a + b, 0, r.buckets,
                           {j \in 1..n : j > (k - 1) * step /\ j <= k * step})]

\* addRSTAuthenticityMetrics: the RST against the baseline of its own direction.
Authenticity(r) ==
  LET base == r.baseline[r.rst.dir]
      delta == IF base > r.rst.ttl THEN base - r.rst.ttl ELSE r.rst.ttl - base
  IN  IF ~r.rst.seen \/ r.rst.ttl = 0 THEN "none"
      ELSE IF base = 0 THEN "unknown"
      ELSE IF delta >= Suspicious THEN "suspicious" ELSE "genuine"

----------------------------------------------------------------------------
(* The network. *)

Hosts == {1, 2}
Peer(h) == 3 - h
Port(h) == IF h = client THEN 5 ELSE 1
PathTTL(h) == Suspicious + 1 + h
NextTS == {t \in {clock - 1, clock, clock + 1} : t \in 0..MaxClock}

Segment(h, flags, seq, len, ttl, ts) ==
  [src |-> h, dst |-> Peer(h), sport |-> Port(h), dport |-> Port(Peer(h)), proto |-> "TCP",
   flags |-> flags, seq |-> seq, ack |-> sndNxt[Peer(h)], len |-> len, ttl |-> ttl, ts |-> ts,
   reassembled |-> FALSE]

FlowInit ==
  /\ flows = << >> /\ client \in Hosts
  /\ sndNxt = [h \in Hosts |-> FirstSeq] /\ lastSeg = [h \in Hosts |-> << >>]
  /\ clock = 0 /\ handled = [q \in Protocols |-> 0] /\ talked = {} /\ resent = 0 /\ pushed = 0 /\ shook = "no"
  /\ seenAll = 0

\* One packet is handed to the tracker.
Packet(p) ==
  /\ seenAll < MaxPackets /\ seenAll' = seenAll + 1
  /\ HandlePacket(p)
  /\ clock' = IF p.ts > clock THEN p.ts ELSE clock
  /\ handled' = IF p.reassembled THEN handled ELSE [handled EXCEPT ![p.proto] = @ + 1]
  /\ UNCHANGED client

Data(h) ==
  \E len \in 1..2, push \in SUBSET {"PSH"}, ts \in NextTS \ {clock - 1} :
    /\ Packet(Segment(h, {"ACK"} \cup push, sndNxt[h], len, PathTTL(h), ts))
    /\ sndNxt' = [sndNxt EXCEPT ![h] = (@ + len) % SeqSpan]
    /\ lastSeg' = [lastSeg EXCEPT ![h] = <<sndNxt[h], len>>]
    /\ talked' = talked \cup {h}
    /\ pushed' = pushed + Cardinality(push)
    /\ UNCHANGED <<resent, shook>>

Resend(h) ==
  /\ lastSeg[h] # << >>
  /\ \E ts \in NextTS :
       Packet(Segment(h, {"ACK", "PSH"}, lastSeg[h][1], lastSeg[h][2], PathTTL(h), ts))
  /\ talked' = talked \cup {h} /\ pushed' = pushed + 1
  /\ resent' = IF h \in talked THEN resent + 1 ELSE resent
  /\ UNCHANGED <<sndNxt, lastSeg, shook>>

Syn(h) ==
  /\ Packet(Segment(h, IF h = client THEN {"SYN"} ELSE {"SYN", "ACK"}, sndNxt[h], 0, PathTTL(h),
                    clock))
  /\ shook' = IF h = client THEN (IF shook = "no" THEN "syn" ELSE shook)
              ELSE IF shook = "no" THEN "no" ELSE "both"
  /\ UNCHANGED <<sndNxt, lastSeg, talked, resent, pushed>>

\* A FIN, or a reset by the peer or by something nearer.
Close(h) ==
  /\ \/ Packet(Segment(h, {"FIN"}, sndNxt[h], 0, PathTTL(h), clock))
     \/ \E ttl \in {1, PathTTL(h)} : Packet(Segment(h, {"RST"}, sndNxt[h], 0, ttl, clock))
  /\ UNCHANGED <<sndNxt, lastSeg, talked, resent, pushed, shook>>

\* An echo request has type 8 in place of the port, its reply type 0.
Ping(h) ==
  /\ Packet([src |-> h, dst |-> Peer(h), sport |-> IF h = client THEN 8 ELSE 0, dport |-> 0,
             proto |-> "ICMP", flags |-> {}, seq |-> 0, ack |-> 0, len |-> 1, ttl |-> 9,
             ts |-> clock, reassembled |-> FALSE])
  /\ UNCHANGED <<sndNxt, lastSeg, talked, resent, pushed, shook>>

\* A message that the assembler has put together comes without sequence number.
Message(h) ==
  /\ Packet([Segment(h, {}, 0, 2, 0, clock) EXCEPT !.reassembled = TRUE])
  /\ UNCHANGED <<sndNxt, lastSeg, talked, resent, pushed, shook>>

FlowNext ==
  \/ \E h \in Hosts : Data(h) \/ Resend(h) \/ Syn(h) \/ Close(h) \/ Ping(h) \/ Message(h)
  \/ Flush

----------------------------------------------------------------------------
(* Properties. *)

Sum(f) == FoldFunction(LAMBDA a, b : a + b, 0, f)
BothDirs(f) == f["fwd"] + f["rev"]
TCPFlows == {k \in DOMAIN flows : k[5] = "TCP"}

\* A flow never ends before it starts, also when timestamps go back.
EndsAfterStart == \A k \in DOMAIN flows : flows[k].start <= flows[k].end

\* Both directions of a connection, and a ping and its reply, are one flow, and no
\* packet is counted twice or left out (makeKey, the test of Reassembled).
OneFlowEach ==
  /\ \A k, l \in DOMAIN flows : k[5] = l[5] => k = l
  /\ \A k \in DOMAIN flows : BothDirs(flows[k].packets) = handled[k[5]]
  /\ \A q \in Protocols : handled[q] > 0 => \E k \in DOMAIN flows : k[5] = q

\* A connection captured in order is charged with exactly the segments sent again,
\* wherever the sequence numbers wrap (seqBefore).
RetransExact ==
  /\ \A k \in TCPFlows : BothDirs(flows[k].retrans) = resent
  /\ TCPFlows = {} => resent = 0

\* A data segment gives at most one RTT sample, and a sample is never negative.
SampleOnce ==
  \A k \in TCPFlows :
    /\ Len(flows[k].samples) + BothDirs([d \in Dirs |-> Len(flows[k].pending[d])]) <= pushed
    /\ \A i \in 1..Len(flows[k].samples) : flows[k].samples[i] > 0

\* A reset that took another path is never called genuine, also when it is the
\* first packet of its direction.
InjectedNotGenuine ==
  \A k \in TCPFlows : flows[k].rst.ttl = 1 => Authenticity(flows[k]) \in {"suspicious", "unknown"}

\* The handshake of a client with the lower address is timed.
HandshakeTimed ==
  client = 1 /\ shook = "both" => \A k \in TCPFlows : flows[k].synAck # -1

\* The trend has at most TrendPoints points and loses no bucket.
TrendWhole ==
  \A k \in DOMAIN flows :
    /\ Len(Trend(flows[k])) <= TrendPoints
    /\ Sum(Trend(flows[k])) = Sum(flows[k].buckets)
    /\ Sum(flows[k].buckets) <= Sum(flows[k].bytes)

\* What HandlePacket keeps of a conversation is what a recount of its packets gives: one
\* flow with every packet once, the segments sent again, the handshake, the span and the
\* origin of a reset; wherever the sequence numbers wrap.
FlowsExact == OneFlowEach /\ EndsAfterStart /\ RetransExact /\ HandshakeTimed /\ InjectedNotGenuine

\* What HandlePacket and toFlow measure is counted once: a segment in one RTT sample, a
\* byte in one point of the trend.
MeasuredOnce == SampleOnce /\ TrendWhole
=============================================================================

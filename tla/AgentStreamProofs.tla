------------------------- MODULE AgentStreamProofs -------------------------
(* The numbering of the batches an agent streams, the order of its packets *)
(* and the application of its filter updates, for every number of          *)
(* connections, packets, filter updates and breaks, and every capacity.    *)
EXTENDS TLAPS, AgentStream

Batches == [seq : Nat, packets : Seq(Nat)]

StreamTypes ==
  /\ epoch \in 0..MaxEpochs /\ seq \in Nat /\ captured \in Nat
  /\ batch \in Seq(Nat) /\ pktCh \in Seq(Nat)
  /\ up \in [Epochs -> Seq(Batches)] /\ received \in [Epochs -> Nat]
  /\ link \in [Epochs -> {"none", "open", "broken"}]
  /\ handler \in [Epochs -> {"none", "handshake", "receive", "done"}]
  /\ apc \in {"run", "wait", "dial", "ack", "loop", "ended"}
  /\ apc \in {"ack", "loop"} => epoch \in Epochs

\* What the numbers mean: as long as batches of the loop reach the wire, the next
\* number counts those received and those on their way, and a connection starts with none.
Counted ==
  /\ \A e \in Epochs : (e > epoch \/ (apc = "ack" /\ e = epoch)) => up[e] = << >> /\ received[e] = 0
  /\ (apc = "loop" /\ link[epoch] = "open" /\ handler[epoch] # "done") =>
       received[epoch] + Len(up[epoch]) = seq

SeqInv == StreamTypes /\ Counted /\ SeqCountsBatches

\* A step that leaves the connections alone, and the number or the loop.
LEMMA QuietStep ==
  ASSUME SeqInv, UNCHANGED <<epoch, up, received, link, handler>>,
         \/ UNCHANGED <<apc, seq>>
         \/ apc' \in {"run", "wait", "dial", "ended"} /\ seq' \in Nat,
         captured' \in Nat, batch' \in Seq(Nat), pktCh' \in Seq(Nat)
  PROVE  SeqInv'
  BY Zenon DEF SeqInv, StreamTypes, Counted, SeqCountsBatches

\* A batch that writeBatch puts on the wire has the next number of its connection.
LEMMA WriteStep ==
  ASSUME SeqInv, apc = "loop", NEW b \in Seq(Nat), Written(b),
         UNCHANGED <<epoch, received, link, handler>>,
         \/ apc' = "loop" /\ seq' = seq + 1
         \/ apc' \in {"run", "wait"} /\ seq' = 0,
         captured' \in Nat, batch' \in Seq(Nat), pktCh' \in Seq(Nat)
  PROVE  SeqInv'
<1>1. epoch \in Epochs /\ seq \in Nat /\ up \in [Epochs -> Seq(Batches)] /\ received \in [Epochs -> Nat]
  BY Zenon DEF SeqInv, StreamTypes
<1>2. CASE link[epoch] = "open" /\ handler[epoch] # "done"
  <2>1. PICK m \in Batches : m = [seq |-> seq, packets |-> b]
    BY <1>1, Zenon DEF Batches
  <2>2. m.seq = seq
    BY <2>1, Zenon
  <2>3. up' = [up EXCEPT ![epoch] = Append(up[epoch], m)]
    BY <1>2, <2>1, Zenon DEF Written
  <2>4. up' \in [Epochs -> Seq(Batches)]
    BY <1>1, <2>3
  <2>5. /\ up'[epoch] = Append(up[epoch], m) /\ Len(up'[epoch]) = Len(up[epoch]) + 1
        /\ \A i \in 1..Len(up[epoch]) : up'[epoch][i] = up[epoch][i]
        /\ up'[epoch][Len(up[epoch]) + 1] = m
    BY <1>1, <2>3
  <2>6. received[epoch] + Len(up[epoch]) = seq
    BY <1>2, Zenon DEF SeqInv, Counted
  <2>7. \A e \in Epochs : e # epoch => up'[e] = up[e]
    BY <1>1, <2>3, Zenon
  <2>8. StreamTypes'
    <3>1. seq' \in Nat
      BY <1>1
    <3> QED BY <2>4, <3>1, Zenon DEF SeqInv, StreamTypes
  <2>9. Counted'
    <3>1. epoch \in Nat /\ apc' # "ack" /\ received' = received /\ epoch' = epoch
      BY <1>1, StreamConstants DEF Epochs
    <3>2. \A e \in Epochs : e > epoch => up'[e] = << >> /\ received'[e] = 0
      BY <2>7, <3>1 DEF SeqInv, Counted
    <3>3. apc' = "loop" => received'[epoch'] + Len(up'[epoch']) = seq'
      <4>1. apc' = "loop" => seq' = seq + 1
        BY Zenon
      <4>2. received[epoch] \in Nat /\ Len(up[epoch]) \in Nat
        BY <1>1
      <4>3. received'[epoch'] + Len(up'[epoch']) = received[epoch] + (Len(up[epoch]) + 1)
        BY <2>5, <3>1, Zenon
      <4> QED
        BY <1>1, <2>6, <4>1, <4>2, <4>3
    <3> QED
      BY <3>1, <3>2, <3>3, Zenon DEF Counted
  <2>10. SeqCountsBatches'
    <3>1. \A i \in 1..Len(up'[epoch]) : up'[epoch][i].seq = received[epoch] + i - 1
      <4> SUFFICES ASSUME NEW i \in 1..Len(up'[epoch]) PROVE up'[epoch][i].seq = received[epoch] + i - 1
        BY Zenon
      <4>1. CASE i \in 1..Len(up[epoch])
        BY <1>1, <2>5, <4>1, Zenon DEF SeqInv, SeqCountsBatches
      <4>2. CASE i = Len(up[epoch]) + 1
        BY <1>1, <2>2, <2>5, <2>6, <4>2
      <4> QED
        BY <1>1, <2>5, <4>1, <4>2
    <3> QED
      BY <1>1, <2>7, <3>1, Zenon DEF SeqInv, SeqCountsBatches
  <2> QED
    BY <2>8, <2>9, <2>10, Zenon DEF SeqInv
<1>3. CASE ~(link[epoch] = "open" /\ handler[epoch] # "done")
  <2>1. up' = up
    BY <1>3, Zenon DEF Written
  <2> QED
    <3>0. seq' \in Nat
      BY <1>1
    <3>1. StreamTypes'
      BY <2>1, <3>0, Zenon DEF SeqInv, StreamTypes
    <3>2. Counted'
      BY <1>3, <2>1, Zenon DEF SeqInv, Counted
    <3> QED BY <2>1, <3>1, <3>2, Zenon DEF SeqInv, SeqCountsBatches
<1> QED
  BY <1>2, <1>3, Zenon

\* connect returns.
LEMMA LeaveStep ==
  ASSUME SeqInv, apc = "loop", LastFlush, NEW next \in {"run", "wait"}, Leave(next),
         UNCHANGED <<epoch, received, link, handler, captured>>
  PROVE  SeqInv'
<1>1. batch \in Seq(Nat) /\ captured \in Nat
  BY Zenon DEF SeqInv, StreamTypes
<1>2. apc' = next /\ seq' = 0 /\ batch' = << >> /\ pktCh' = << >>
  BY Zenon DEF Leave
<1>3. batch' \in Seq(Nat) /\ pktCh' \in Seq(Nat) /\ captured' \in Nat
  BY <1>1, <1>2
<1>4. CASE batch = << >>
  BY <1>2, <1>3, <1>4, QuietStep, Zenon DEF LastFlush
<1>5. CASE batch # << >>
  BY <1>1, <1>2, <1>3, <1>5, WriteStep, Zenon DEF LastFlush
<1> QED
  BY <1>4, <1>5, Zenon

\* Run and the beginning of connect.
LEMMA ConnectStep == SeqInv /\ Connect => SeqInv'
<1> SUFFICES ASSUME SeqInv, Connect PROVE SeqInv'
  BY Zenon
<1>0. captured \in Nat /\ batch \in Seq(Nat) /\ pktCh \in Seq(Nat) /\ seq \in Nat
  BY Zenon DEF SeqInv, StreamTypes
<1>1. CASE Run \/ DialFails \/ AckFails
  <2>1. /\ UNCHANGED <<epoch, up, received, link, handler, seq, captured, batch, pktCh>>
        /\ apc' \in {"run", "wait", "dial", "ended"}
    BY <1>1, Zenon DEF Run, DialFails, AckFails, source, agent, wire, central
  <2> QED
    BY <1>0, <2>1, QuietStep, Zenon
<1>2. CASE Dial
  <2>1. /\ apc' = "ack" /\ epoch' = epoch + 1 /\ epoch' \in Epochs
        /\ UNCHANGED <<up, received, seq, captured, batch, pktCh>>
        /\ epoch \in 0..MaxEpochs /\ MaxEpochs \in Nat
    BY <1>2, StreamConstants DEF Dial, source, agent, SeqInv, StreamTypes, Epochs
  <2>2. /\ link' \in [Epochs -> {"none", "open", "broken"}]
        /\ handler' \in [Epochs -> {"none", "handshake", "receive", "done"}]
    BY <1>2, Zenon DEF Dial, SeqInv, StreamTypes
  <2>3. \A e \in Epochs : (e > epoch' \/ e = epoch') => e > epoch
    BY <2>1 DEF Epochs
  <2>4. Counted'
    BY <2>1, <2>3, Zenon DEF SeqInv, Counted
  <2>5. StreamTypes'
    BY <2>1, <2>2 DEF SeqInv, StreamTypes, Epochs
  <2> QED
    BY <2>1, <2>4, <2>5, Zenon DEF SeqInv, SeqCountsBatches
<1>3. CASE Accepted
  <2>1. /\ apc = "ack" /\ apc' = "loop" /\ seq' = 0 /\ batch' = << >> /\ pktCh' = << >>
        /\ UNCHANGED <<epoch, up, received, link, handler, captured>>
    BY <1>3, Zenon DEF Accepted, wire, central
  <2>2. epoch \in Epochs /\ up[epoch] = << >> /\ received[epoch] = 0
    BY <2>1, Zenon DEF SeqInv, StreamTypes, Counted
  <2>3. Counted'
    BY <2>1, <2>2 DEF SeqInv, Counted
  <2>4. StreamTypes'
    BY <2>1, <2>2 DEF SeqInv, StreamTypes
  <2> QED
    BY <2>1, <2>3, <2>4, Zenon DEF SeqInv, SeqCountsBatches
<1> QED
  BY <1>1, <1>2, <1>3, Zenon DEF Connect

\* The select loop of connect.
LEMMA LoopStep == SeqInv /\ Loop => SeqInv'
<1> SUFFICES ASSUME SeqInv, Loop PROVE SeqInv'
  BY Zenon
<1>0. captured \in Nat /\ batch \in Seq(Nat) /\ pktCh \in Seq(Nat) /\ seq \in Nat
  BY Zenon DEF SeqInv, StreamTypes
<1>1. CASE LoopEnds \/ NewFilter
  <2>1. /\ apc = "loop" /\ LastFlush /\ UNCHANGED <<epoch, received, link, handler, captured>>
        /\ \E next \in {"run", "wait"} : Leave(next)
    BY <1>1, Zenon DEF LoopEnds, NewFilter, central
  <2> QED
    BY <2>1, LeaveStep, Zenon
<1>2. CASE BatchPacket
  <2>1. /\ apc = "loop" /\ apc' = "loop" /\ pktCh # << >> /\ pktCh' = Tail(pktCh)
        /\ UNCHANGED <<epoch, received, link, handler, captured>>
    BY <1>2, Zenon DEF BatchPacket, central
  <2>2. PICK b \in Seq(Nat) : b = Append(batch, Head(pktCh))
    <3>1. Head(pktCh) \in Nat
      BY <1>0, <2>1
    <3>2. Append(batch, Head(pktCh)) \in Seq(Nat)
      BY <1>0, <3>1
    <3> QED
      BY <3>2, Zenon
  <2>3. pktCh' \in Seq(Nat) /\ captured' \in Nat
    BY <1>0, <2>1
  <2>4. \/ batch' = b /\ UNCHANGED <<up, seq>>
        \/ Written(b) /\ seq' = seq + 1 /\ batch' = << >>
    BY <1>2, <2>2, Zenon DEF BatchPacket
  <2>5. batch' \in Seq(Nat)
    <3>1. << >> \in Seq(Nat)
      OBVIOUS
    <3>2. batch' = b \/ batch' = << >>
      BY <2>4, Zenon
    <3> QED
      BY <2>2, <3>1, <3>2, Zenon
  <2>6. CASE batch' = b /\ UNCHANGED <<up, seq>>
    BY <2>1, <2>3, <2>5, <2>6, QuietStep, Zenon
  <2>7. CASE Written(b) /\ seq' = seq + 1
    BY <2>1, <2>3, <2>5, <2>7, WriteStep, Zenon
  <2> QED
    BY <2>4, <2>6, <2>7, Zenon
<1>3. ASSUME NEW force \in BOOLEAN, Tick(force) PROVE SeqInv'
  <2>1. /\ apc = "loop" /\ apc' = "loop"
        /\ UNCHANGED <<epoch, received, link, handler, captured, pktCh>>
    BY <1>3, Zenon DEF Tick, source, central
  <2>2. \/ UNCHANGED <<up, batch, seq>>
        \/ Written(batch) /\ seq' = seq + 1 /\ batch' = << >>
    BY <1>3, Zenon DEF Tick, Flush
  <2>3. pktCh' \in Seq(Nat) /\ captured' \in Nat /\ batch' \in Seq(Nat)
    <3>1. << >> \in Seq(Nat)
      OBVIOUS
    <3>2. batch' = batch \/ batch' = << >>
      BY <2>2, Zenon
    <3> QED
      BY <1>0, <2>1, <3>1, <3>2, Zenon
  <2>4. CASE UNCHANGED <<up, batch, seq>>
    BY <2>1, <2>3, <2>4, QuietStep, Zenon
  <2>5. CASE Written(batch) /\ seq' = seq + 1
    BY <1>0, <2>1, <2>3, <2>5, WriteStep, Zenon
  <2> QED
    BY <2>2, <2>4, <2>5, Zenon
<1>4. CASE SendFails
  <2>1. /\ apc' = "wait" /\ seq' = 0 /\ batch' = << >> /\ pktCh' = << >>
        /\ UNCHANGED <<epoch, received, link, handler, captured, up>>
    BY <1>4, Zenon DEF SendFails, Leave, central
  <2>2. pktCh' \in Seq(Nat) /\ captured' \in Nat /\ batch' \in Seq(Nat) /\ seq' \in Nat
    BY <1>0, <2>1
  <2> QED
    BY <2>1, <2>2, QuietStep, Zenon
<1> QED
  BY <1>1, <1>2, <1>3, <1>4, Zenon DEF Loop

\* The goroutines of the agent, the connection and central.
LEMMA WireStep == SeqInv /\ (\E e \in Epochs : Receive(e) \/ ReceiveFails(e) \/ Break(e)) => SeqInv'
<1> SUFFICES ASSUME SeqInv, NEW e \in Epochs, Receive(e) \/ ReceiveFails(e) \/ Break(e) PROVE SeqInv'
  BY Zenon
<1>0. /\ captured \in Nat /\ batch \in Seq(Nat) /\ pktCh \in Seq(Nat) /\ seq \in Nat
      /\ up \in [Epochs -> Seq(Batches)] /\ received \in [Epochs -> Nat]
      /\ up[e] \in Seq(Batches) /\ received[e] \in Nat
  BY Zenon DEF SeqInv, StreamTypes
<1>1. UNCHANGED <<apc, epoch, captured, batch, pktCh, seq>>
  BY Zenon DEF Receive, ReceiveFails, Break, source, agent
<1>2. CASE Receive(e)
  <2>1. /\ up' = [up EXCEPT ![e] = Tail(up[e])] /\ up[e] # << >>
        /\ received' = [received EXCEPT ![e] = received[e] + 1] /\ UNCHANGED <<link, handler>>
    BY <1>2, Zenon DEF Receive
  <2>2. /\ Tail(up[e]) \in Seq(Batches) /\ Len(Tail(up[e])) = Len(up[e]) - 1 /\ Len(up[e]) \in Nat
        /\ \A i \in 1..Len(Tail(up[e])) : i + 1 \in 1..Len(up[e]) /\ Tail(up[e])[i] = up[e][i + 1]
    BY <1>0, <2>1
  <2>3. /\ up'[e] = Tail(up[e]) /\ received'[e] = received[e] + 1
        /\ \A d \in Epochs : d # e => up'[d] = up[d] /\ received'[d] = received[d]
    BY <1>0, <2>1, Zenon
  <2>4. StreamTypes'
    BY <1>0, <1>1, <2>1, <2>2 DEF SeqInv, StreamTypes
  <2>5. Counted'
    <3>1. ~(e > epoch \/ (apc = "ack" /\ e = epoch))
      BY <2>1, Zenon DEF SeqInv, Counted
    <3>2. (apc = "loop" /\ e = epoch) => received'[e] + Len(up'[e]) = received[e] + Len(up[e])
      BY <1>0, <2>2, <2>3
    <3>3. apc = "loop" => epoch \in Epochs
      BY Zenon DEF SeqInv, StreamTypes
    <3> QED
      BY <1>1, <2>1, <2>3, <3>1, <3>2, <3>3, Zenon DEF SeqInv, Counted
  <2>6. \A i \in 1..Len(up'[e]) : up'[e][i].seq = received'[e] + i - 1
    <3> SUFFICES ASSUME NEW i \in 1..Len(Tail(up[e])) PROVE Tail(up[e])[i].seq = received[e] + 1 + i - 1
      BY <2>3, Zenon
    <3>1. up[e][i + 1].seq = received[e] + (i + 1) - 1
      BY <2>2, Zenon DEF SeqInv, SeqCountsBatches
    <3> QED
      BY <1>0, <2>2, <3>1
  <2> QED
    BY <2>3, <2>4, <2>5, <2>6, Zenon DEF SeqInv, SeqCountsBatches
<1>3. CASE ReceiveFails(e)
  <2>1. /\ up' = [up EXCEPT ![e] = << >>] /\ handler' = [handler EXCEPT ![e] = "done"]
        /\ UNCHANGED <<link, received>>
    BY <1>3, Zenon DEF ReceiveFails
  <2>2. << >> \in Seq(Batches) /\ Len(<< >>) = 0
    OBVIOUS
  <2>3. up'[e] = << >> /\ handler'[e] = "done" /\ \A d \in Epochs : d # e => up'[d] = up[d] /\ handler'[d] = handler[d]
    BY <1>0, <2>1, Zenon DEF SeqInv, StreamTypes
  <2>4. StreamTypes'
    BY <1>0, <1>1, <2>1, <2>2, Zenon DEF SeqInv, StreamTypes
  <2>5. Counted'
    <3>1. apc = "loop" => epoch \in Epochs
      BY Zenon DEF SeqInv, StreamTypes
    <3> QED
      BY <1>1, <2>1, <2>3, <3>1, Zenon DEF SeqInv, Counted
  <2>6. SeqCountsBatches'
    BY <2>1, <2>2, <2>3 DEF SeqInv, SeqCountsBatches
  <2> QED
    BY <2>4, <2>5, <2>6, Zenon DEF SeqInv
<1>4. CASE Break(e)
  <2>1. PICK m \in 0..Len(up[e]) :
           up' = [up EXCEPT ![e] = SubSeq(up[e], 1, m)] /\ link' = [link EXCEPT ![e] = "broken"]
    BY <1>4, Zenon DEF Break
  <2>2. UNCHANGED <<received, handler>>
    BY <1>4, Zenon DEF Break, central
  <2>3. /\ SubSeq(up[e], 1, m) \in Seq(Batches) /\ Len(SubSeq(up[e], 1, m)) = m
        /\ \A i \in 1..m : i \in 1..Len(up[e]) /\ SubSeq(up[e], 1, m)[i] = up[e][i]
        /\ up[e] = << >> => SubSeq(up[e], 1, m) = << >>
    BY <1>0
  <2>4. /\ up'[e] = SubSeq(up[e], 1, m) /\ link'[e] = "broken"
        /\ \A d \in Epochs : d # e => up'[d] = up[d] /\ link'[d] = link[d]
    BY <1>0, <2>1, Zenon DEF SeqInv, StreamTypes
  <2>5. StreamTypes'
    BY <1>0, <1>1, <2>1, <2>2, <2>3, Zenon DEF SeqInv, StreamTypes
  <2>6. Counted'
    <3>1. apc = "loop" => epoch \in Epochs
      BY Zenon DEF SeqInv, StreamTypes
    <3> QED
      BY <1>1, <2>2, <2>3, <2>4, <3>1, Zenon DEF SeqInv, Counted
  <2>7. SeqCountsBatches'
    <3>1. \A i \in 1..Len(up'[e]) : up'[e][i].seq = received[e] + i - 1
      <4> SUFFICES ASSUME NEW i \in 1..m PROVE SubSeq(up[e], 1, m)[i].seq = received[e] + i - 1
        BY <2>3, <2>4, Zenon
      <4> QED
        BY <2>3, Zenon DEF SeqInv, SeqCountsBatches
    <3> QED
      BY <2>2, <2>4, <3>1, Zenon DEF SeqInv, SeqCountsBatches
  <2> QED
    BY <2>5, <2>6, <2>7, Zenon DEF SeqInv
<1> QED
  BY <1>2, <1>3, <1>4, Zenon

\* The handler's own steps: no batch moves, and a handler that ends stops the count.
LEMMA HandlerStep == SeqInv /\ (\E e \in Epochs : Handshake(e) \/ HandlerEnds(e)) => SeqInv'
<1> SUFFICES ASSUME SeqInv, NEW e \in Epochs, Handshake(e) \/ HandlerEnds(e) PROVE SeqInv'
  BY Zenon
<1>1. UNCHANGED <<apc, epoch, captured, batch, pktCh, seq, up, link, received>>
  BY Zenon DEF Handshake, HandlerEnds, source, agent, wire
<1>2. PICK answer \in {"receive", "done"} : handler' = [handler EXCEPT ![e] = answer]
  BY Zenon DEF Handshake, HandlerEnds
<1>3. /\ handler[e] # "done"
      /\ \A d \in Epochs : d # e => handler'[d] = handler[d]
      /\ handler' \in [Epochs -> {"none", "handshake", "receive", "done"}]
  BY <1>2, Zenon DEF Handshake, HandlerEnds, SeqInv, StreamTypes
<1>4. apc = "loop" => epoch \in Epochs
  BY Zenon DEF SeqInv, StreamTypes
<1>5. StreamTypes' /\ SeqCountsBatches'
  BY <1>1, <1>3, Zenon DEF SeqInv, StreamTypes, SeqCountsBatches
<1>6. Counted'
  BY <1>1, <1>3, <1>4, Zenon DEF SeqInv, Counted
<1> QED
  BY <1>5, <1>6, Zenon DEF SeqInv

LEMMA SeqStep == SeqInv /\ [Next]_vars => SeqInv'
<1> SUFFICES ASSUME SeqInv, [Next]_vars PROVE SeqInv'
  BY Zenon
<1>0. captured \in Nat /\ batch \in Seq(Nat) /\ pktCh \in Seq(Nat)
  BY Zenon DEF SeqInv, StreamTypes
<1>1. CASE Cancel \/ ReadPacketFails \/ UNCHANGED vars
  <2>1. UNCHANGED <<epoch, up, received, link, handler, apc, seq, captured, batch, pktCh>>
    BY <1>1, Zenon DEF Cancel, ReadPacketFails, vars, source, agent, wire, central
  <2> QED
    BY <1>0, <2>1, QuietStep, Zenon
<1>2. CASE ReadPacket
  <2>1. /\ UNCHANGED <<epoch, up, received, link, handler, apc, seq, batch>>
        /\ captured' = captured + 1 /\ (pktCh' = Append(pktCh, captured + 1) \/ pktCh' = pktCh)
    BY <1>2, Zenon DEF ReadPacket, agent, wire, central
  <2>2. captured' \in Nat /\ pktCh' \in Seq(Nat)
    <3>1. PICK n \in Nat : n = captured + 1
      BY <1>0
    <3>2. Append(pktCh, n) \in Seq(Nat)
      BY <1>0
    <3> QED
      BY <1>0, <2>1, <3>1, <3>2, Zenon
  <2> QED
    BY <1>0, <2>1, <2>2, QuietStep, Zenon
<1>3. ASSUME NEW e \in Epochs, Control(e) \/ Deliver(e) \/ Analyse(e) \/ SendUpdate(e) PROVE SeqInv'
  <2>1. UNCHANGED <<epoch, up, received, link, handler, apc, seq, captured, batch, pktCh>>
    BY <1>3, Zenon DEF Control, ReadUpdate, PushUpdate, ReadUpdateFails, Deliver, Analyse, SendUpdate,
        source, agent, wire, central
  <2> QED
    BY <1>0, <2>1, QuietStep, Zenon
<1> QED
  BY <1>1, <1>2, <1>3, ConnectStep, LoopStep, WireStep, HandlerStep, Zenon DEF Next, Handler

LEMMA SeqInvariant == Spec => []SeqInv
<1>1. Init => SeqInv
  BY StreamConstants DEF Init, SeqInv, StreamTypes, Counted, SeqCountsBatches, Epochs, Batches
<1> QED
  BY <1>1, SeqStep, PTL DEF Spec

\* The batches of every connection reach central numbered 0, 1, 2, ... without a
\* gap or a repetition, whatever breaks, is refused or is cancelled: the SeqNum that
\* flush counts is the number of batches handleAgent has received before it.
THEOREM BatchesNumbered == Spec => []SeqCountsBatches
<1>1. SeqInv => SeqCountsBatches
  BY Zenon DEF SeqInv
<1> QED
  BY <1>1, SeqInvariant, PTL

----------------------------------------------------------------------------
Distinct(s) == \A i, j \in 1..Len(s) : i # j => s[i] # s[j]

\* Entries, order and distinctness under the operations of the model.
LEMMA EntriesEmpty == Entries(<< >>) = {} /\ Ascending(<< >>) /\ Distinct(<< >>)
  BY DEF Entries, Ascending, Distinct

LEMMA EntriesTyped == ASSUME NEW s \in Seq(Nat) PROVE Entries(s) \subseteq Nat
  BY DEF Entries

LEMMA EntriesAppend ==
  ASSUME NEW s \in Seq(Nat), NEW n \in Nat
  PROVE  /\ Append(s, n) \in Seq(Nat) /\ Entries(Append(s, n)) = Entries(s) \cup {n}
         /\ Ascending(s) /\ Precede(Entries(s), {n}) => Ascending(Append(s, n))
         /\ Distinct(s) /\ n \notin Entries(s) => Distinct(Append(s, n))
<1>1. /\ Append(s, n) \in Seq(Nat) /\ Len(Append(s, n)) = Len(s) + 1 /\ Append(s, n)[Len(s) + 1] = n
      /\ \A i \in 1..Len(s) : Append(s, n)[i] = s[i] /\ s[i] \in Nat
      /\ \A i \in 1..Len(s) + 1 : i = Len(s) + 1 \/ i \in 1..Len(s)
      /\ Len(s) + 1 \in 1..Len(s) + 1 /\ \A i \in 1..Len(s) : i \in 1..Len(s) + 1
  OBVIOUS
<1>2. Entries(Append(s, n)) = Entries(s) \cup {n}
  BY <1>1, Zenon DEF Entries
<1>3. ASSUME Ascending(s), Precede(Entries(s), {n}) PROVE Ascending(Append(s, n))
  <2>1. \A i \in 1..Len(s) : s[i] < n
    BY <1>3, Zenon DEF Precede, Entries
  <2> QED BY <1>1, <1>3, <2>1 DEF Ascending
<1>4. ASSUME Distinct(s), n \notin Entries(s) PROVE Distinct(Append(s, n))
  <2>1. \A i \in 1..Len(s) : s[i] # n
    BY <1>4, Zenon DEF Entries
  <2> QED BY <1>1, <1>4, <2>1, Zenon DEF Distinct
<1> QED BY <1>1, <1>2, <1>3, <1>4, Zenon

LEMMA EntriesTail ==
  ASSUME NEW s \in Seq(Nat), s # << >>
  PROVE  /\ Tail(s) \in Seq(Nat) /\ Head(s) \in Nat
         /\ Entries(s) = {Head(s)} \cup Entries(Tail(s))
         /\ Ascending(s) => Ascending(Tail(s)) /\ Precede({Head(s)}, Entries(Tail(s)))
         /\ Distinct(s) => Distinct(Tail(s)) /\ Head(s) \notin Entries(Tail(s))
<1>1. /\ \A i \in 1..Len(Tail(s)) : Tail(s)[i] = s[i + 1] /\ i + 1 \in 1..Len(s) /\ 1 < i + 1 /\ i \in Nat
      /\ 1 \in 1..Len(s) /\ Head(s) = s[1] /\ Head(s) \in Nat /\ Tail(s) \in Seq(Nat)
  OBVIOUS
<1>2. \A i \in 1..Len(s) : i = 1 \/ (i - 1 \in 1..Len(Tail(s)) /\ Tail(s)[i - 1] = s[i])
  OBVIOUS
<1>3. Entries(s) = {Head(s)} \cup Entries(Tail(s))
  <2>1. \A n \in Entries(s) : n = Head(s) \/ n \in Entries(Tail(s))
    <3> SUFFICES ASSUME NEW i \in 1..Len(s) PROVE s[i] = Head(s) \/ s[i] \in Entries(Tail(s))
      BY Zenon DEF Entries
    <3>1. CASE i = 1
      BY <1>1, <3>1, Zenon
    <3>2. CASE i - 1 \in 1..Len(Tail(s)) /\ Tail(s)[i - 1] = s[i]
      BY <3>2, Zenon DEF Entries
    <3> QED BY <1>2, <3>1, <3>2, Zenon
  <2>2. \A n \in Entries(Tail(s)) : n \in Entries(s)
    BY <1>1 DEF Entries
  <2>3. Head(s) \in Entries(s)
    BY <1>1, Zenon DEF Entries
  <2> QED BY <2>1, <2>2, <2>3, Zenon
<1>4. ASSUME Ascending(s) PROVE Ascending(Tail(s)) /\ Precede({Head(s)}, Entries(Tail(s)))
  <2>1. Ascending(Tail(s))
    BY <1>1, <1>4 DEF Ascending
  <2>2. \A n \in Entries(Tail(s)) : Head(s) < n
    BY <1>1, <1>4, Zenon DEF Ascending, Entries
  <2> QED BY <2>1, <2>2, Zenon DEF Precede
<1>5. ASSUME Distinct(s) PROVE Distinct(Tail(s)) /\ Head(s) \notin Entries(Tail(s))
  <2>1. Distinct(Tail(s))
    <3> SUFFICES ASSUME NEW i \in 1..Len(Tail(s)), NEW j \in 1..Len(Tail(s)), i # j
                 PROVE  Tail(s)[i] # Tail(s)[j]
      BY Zenon DEF Distinct
    <3>1. i + 1 # j + 1
      OBVIOUS
    <3>2. /\ i + 1 \in 1..Len(s) /\ Tail(s)[i] = s[i + 1]
          /\ j + 1 \in 1..Len(s) /\ Tail(s)[j] = s[j + 1]
      BY <1>1, Zenon
    <3>3. s[i + 1] # s[j + 1]
      BY ONLY Distinct(s), <3>1, <3>2, Zenon DEF Distinct
    <3> QED BY <3>2, <3>3, Zenon
  <2>2. Head(s) \notin Entries(Tail(s))
    <3>1. ASSUME NEW i \in 1..Len(Tail(s)), Tail(s)[i] = Head(s) PROVE FALSE
      BY <1>1, <1>5, <3>1 DEF Distinct
    <3> QED BY <3>1, Zenon DEF Entries
  <2> QED BY <2>1, <2>2, Zenon
<1> QED BY <1>1, <1>3, <1>4, <1>5, Zenon

LEMMA EntriesPrefix ==
  ASSUME NEW s \in Seq(Nat), NEW m \in 0..Len(s)
  PROVE  /\ SubSeq(s, 1, m) \in Seq(Nat) /\ Entries(SubSeq(s, 1, m)) \subseteq Entries(s)
         /\ Distinct(s) => Distinct(SubSeq(s, 1, m))
<1>1. /\ SubSeq(s, 1, m) \in Seq(Nat) /\ Len(SubSeq(s, 1, m)) = m
      /\ \A i \in 1..m : SubSeq(s, 1, m)[i] = s[i] /\ i \in 1..Len(s)
  OBVIOUS
<1> QED BY <1>1, Zenon DEF Entries, Distinct

LEMMA EntriesConcat ==
  ASSUME NEW s \in Seq(Nat), NEW t \in Seq(Nat)
  PROVE  /\ Entries(s \o t) = Entries(s) \cup Entries(t)
         /\ Ascending(s) /\ Ascending(t) /\ Precede(Entries(s), Entries(t)) => Ascending(s \o t)
         /\ Distinct(s) /\ Distinct(t) /\ Entries(s) \cap Entries(t) = {} => Distinct(s \o t)
<1>1. /\ Len(s \o t) = Len(s) + Len(t) /\ Len(s) \in Nat /\ Len(t) \in Nat
      /\ \A i \in 1..Len(s) : (s \o t)[i] = s[i] /\ i \in 1..Len(s \o t) /\ s[i] \in Nat
      /\ \A i \in 1..Len(t) : (s \o t)[Len(s) + i] = t[i] /\ Len(s) + i \in 1..Len(s \o t) /\ t[i] \in Nat
  OBVIOUS
<1>2. \A i \in 1..Len(s \o t) : \/ i \in 1..Len(s) /\ (s \o t)[i] = s[i]
                               \/ /\ i - Len(s) \in 1..Len(t) /\ (s \o t)[i] = t[i - Len(s)]
                                  /\ i > Len(s)
  BY <1>1
<1>3. Entries(s \o t) = Entries(s) \cup Entries(t)
  <2>1. \A n \in Entries(s \o t) : n \in Entries(s) \/ n \in Entries(t)
    BY <1>2, Zenon DEF Entries
  <2>2. \A n \in Entries(s) : n \in Entries(s \o t)
    BY <1>1, Zenon DEF Entries
  <2>3. \A n \in Entries(t) : n \in Entries(s \o t)
    BY <1>1, Zenon DEF Entries
  <2> QED BY <2>1, <2>2, <2>3, Zenon
<1>4. ASSUME Ascending(s), Ascending(t), Precede(Entries(s), Entries(t)) PROVE Ascending(s \o t)
  <2>1. \A i \in 1..Len(s), j \in 1..Len(t) : s[i] < t[j]
    BY <1>4, Zenon DEF Precede, Entries
  <2> SUFFICES ASSUME NEW i \in 1..Len(s \o t), NEW j \in 1..Len(s \o t), i < j
               PROVE  (s \o t)[i] < (s \o t)[j]
    BY Zenon DEF Ascending
  <2>2. CASE j \in 1..Len(s)
    <3>1. i \in 1..Len(s)
      BY <1>1, <2>2
    <3> QED BY <1>1, <1>4, <2>2, <3>1, Zenon DEF Ascending
  <2>3. CASE j > Len(s) /\ i \in 1..Len(s)
    BY <1>1, <1>2, <2>1, <2>3
  <2>4. CASE i > Len(s)
    <3>1. j > Len(s)
      BY <1>1, <2>4
    <3>2. /\ i - Len(s) \in 1..Len(t) /\ (s \o t)[i] = t[i - Len(s)]
          /\ j - Len(s) \in 1..Len(t) /\ (s \o t)[j] = t[j - Len(s)]
      BY <1>1, <1>2, <2>4, <3>1
    <3>3. i - Len(s) < j - Len(s)
      BY <1>1
    <3> QED BY <1>4, <3>2, <3>3, Zenon DEF Ascending
  <2> QED BY <1>1, <1>2, <2>2, <2>3, <2>4, Zenon
<1>5. ASSUME Distinct(s), Distinct(t), Entries(s) \cap Entries(t) = {} PROVE Distinct(s \o t)
  <2>1. \A i \in 1..Len(s), j \in 1..Len(t) : s[i] # t[j]
    BY <1>5, Zenon DEF Entries
  <2> SUFFICES ASSUME NEW i \in 1..Len(s \o t), NEW j \in 1..Len(s \o t), i # j
               PROVE  (s \o t)[i] # (s \o t)[j]
    BY Zenon DEF Distinct
  <2>2. CASE i \in 1..Len(s) /\ j \in 1..Len(s)
    BY <1>1, <1>5, <2>2, Zenon DEF Distinct
  <2>3. CASE i \in 1..Len(s) /\ j > Len(s)
    BY <1>1, <1>2, <2>1, <2>3
  <2>4. CASE i > Len(s) /\ j \in 1..Len(s)
    BY <1>1, <1>2, <2>1, <2>4
  <2>5. CASE i > Len(s) /\ j > Len(s)
    <3>2. /\ i - Len(s) \in 1..Len(t) /\ (s \o t)[i] = t[i - Len(s)]
          /\ j - Len(s) \in 1..Len(t) /\ (s \o t)[j] = t[j - Len(s)]
      BY <1>1, <1>2, <2>5
    <3>3. i - Len(s) # j - Len(s)
      BY <1>1
    <3> QED BY <1>5, <3>2, <3>3, Zenon DEF Distinct
  <2> QED BY <1>1, <1>2, <2>2, <2>3, <2>4, <2>5, Zenon
<1> QED BY <1>3, <1>4, <1>5, Zenon

\* A sequence of three followed by another.
LEMMA AfterThree ==
  ASSUME NEW r \in Seq(Seq(Nat)), NEW t \in Seq(Seq(Nat)), Len(r) = 3
  PROVE  /\ Len(r \o t) = 3 + Len(t) /\ (r \o t)[1] = r[1] /\ (r \o t)[2] = r[2] /\ (r \o t)[3] = r[3]
         /\ \A k \in 1..Len(r \o t) : k > 3 => k - 3 \in 1..Len(t) /\ (r \o t)[k] = t[k - 3]
<1>0. Len(r \o t) = Len(r) + Len(t) /\ Len(t) \in Nat
  BY ONLY r \in Seq(Seq(Nat)), t \in Seq(Seq(Nat))
<1>1. Len(r \o t) = 3 + Len(t) /\ Len(t) \in Nat
  BY <1>0, Zenon
<1>2. \A k \in 1..Len(r \o t) : (r \o t)[k] = IF k <= 3 THEN r[k] ELSE t[k - 3]
  BY <1>1
<1>3. 1 \in 1..Len(r \o t) /\ 2 \in 1..Len(r \o t) /\ 3 \in 1..Len(r \o t)
  BY <1>1
<1> QED BY <1>1, <1>2, <1>3

----------------------------------------------------------------------------
\* The packets on the way to central on connection e, and all those past the
\* agent's batch.
Carried(e) == UNION {Entries(up[e][i].packets) : i \in 1..Len(up[e])}
Delivered(e) == Entries(analysed[e]) \cup Entries(session[e]) \cup Entries(hand[e])
Passed(e) == Delivered(e) \cup Carried(e)
Waiting == Entries(batch) \cup Entries(pktCh)

HandTypes ==
  /\ hand \in [Epochs -> Seq(Nat)] /\ session \in [Epochs -> Seq(Nat)]
  /\ analysed \in [Epochs -> Seq(Nat)]

\* The packets of connection e are in order along its stages.
ConnectionInOrder(e) ==
  /\ Ascending(analysed[e]) /\ Ascending(session[e]) /\ Ascending(hand[e])
  /\ Precede(Entries(analysed[e]), Entries(session[e]))
  /\ Precede(Entries(analysed[e]), Entries(hand[e]))
  /\ Precede(Entries(session[e]), Entries(hand[e]))
  /\ \A i \in 1..Len(up[e]) :
       /\ Ascending(up[e][i].packets)
       /\ Precede(Delivered(e), Entries(up[e][i].packets))
       /\ \A j \in 1..Len(up[e]) : i < j => Precede(Entries(up[e][i].packets), Entries(up[e][j].packets))

\* All that a connection carries is older than what a later one carries, and
\* than what the agent still holds; a connection not yet dialled carries nothing.
OrderInv ==
  /\ HandTypes
  /\ \A e \in Epochs : ConnectionInOrder(e)
  /\ \A e, d \in Epochs : e < d => Precede(Passed(e), Passed(d))
  /\ \A e \in Epochs : e > epoch => Passed(e) = {}
  /\ \A e \in Epochs : Precede(Passed(e), Waiting)
  /\ \A e \in Epochs : \A n \in Passed(e) : n <= captured
  /\ \A n \in Waiting : n <= captured
  /\ Ascending(batch) /\ Ascending(pktCh) /\ Precede(Entries(batch), Entries(pktCh))

\* A step of the agent that leaves alone what is past its batch.
LEMMA AgentSide ==
  ASSUME OrderInv, StreamTypes, UNCHANGED <<up, hand, session, analysed>>,
         epoch' \in Nat, epoch' >= epoch, captured' \in Nat, captured' >= captured,
         batch' \in Seq(Nat), pktCh' \in Seq(Nat),
         Ascending(batch'), Ascending(pktCh'), Precede(Entries(batch'), Entries(pktCh')),
         \A n \in Waiting' : n \in Waiting \/ (captured < n /\ n <= captured')
  PROVE  OrderInv'
<1>1. captured \in Nat /\ epoch \in Nat /\ Epochs \subseteq Nat
  BY ONLY StreamTypes, StreamConstants, SMT DEF StreamTypes, Epochs
<1>2. \A e \in Epochs : /\ Delivered(e)' = Delivered(e) /\ Passed(e)' = Passed(e)
                        /\ ConnectionInOrder(e)' = ConnectionInOrder(e)
  BY DEF Delivered, Carried, Passed, ConnectionInOrder
<1>3. \A e \in Epochs : Passed(e) \subseteq Nat
  <2> SUFFICES ASSUME NEW e \in Epochs PROVE Passed(e) \subseteq Nat
    BY Zenon
  <2>1. Delivered(e) \subseteq Nat
    BY EntriesTyped, Zenon DEF OrderInv, HandTypes, Delivered
  <2>2. \A i \in 1..Len(up[e]) : up[e][i].packets \in Seq(Nat)
    <3>1. up[e] \in Seq(Batches)
      BY Zenon DEF StreamTypes
    <3>2. \A i \in 1..Len(up[e]) : up[e][i] \in Batches
      BY <3>1
    <3> QED BY <3>2, Zenon DEF Batches
  <2>3. \A i \in 1..Len(up[e]) : Entries(up[e][i].packets) \subseteq Nat
    BY <2>2, EntriesTyped, Zenon
  <2>4. Carried(e) \subseteq Nat
    BY <2>3, Zenon DEF Carried
  <2> QED BY <2>1, <2>4, Zenon DEF Passed
<1>4. Waiting \subseteq Nat /\ Waiting' \subseteq Nat
  BY EntriesTyped, Zenon DEF StreamTypes, Waiting
<1>5. \A n \in Waiting' : n <= captured'
  <2>1. \A n \in Waiting : n <= captured
    BY Zenon DEF OrderInv
  <2> QED BY <1>1, <1>4, <2>1
<1>6. \A e \in Epochs : Precede(Passed(e)', Waiting')
  <2> SUFFICES ASSUME NEW e \in Epochs, NEW m \in Passed(e), NEW n \in Waiting' PROVE m < n
    BY <1>2, Zenon DEF Precede
  <2>1. m \in Nat /\ m <= captured
    BY <1>3, Zenon DEF OrderInv
  <2>2. CASE n \in Waiting
    BY <2>2, Zenon DEF OrderInv, Precede
  <2>3. CASE captured < n /\ n <= captured'
    BY <1>1, <1>4, <2>1, <2>3
  <2> QED BY <2>2, <2>3, Zenon
<1>7. HandTypes'
  BY Zenon DEF OrderInv, HandTypes
<1>8. /\ \A e \in Epochs : ConnectionInOrder(e)'
      /\ \A e, d \in Epochs : e < d => Precede(Passed(e)', Passed(d)')
      /\ \A e \in Epochs : e > epoch' => Passed(e)' = {}
      /\ \A e \in Epochs : \A n \in Passed(e)' : n <= captured'
  BY <1>1, <1>2, <1>3, SMTT(30) DEF OrderInv
<1> QED BY <1>5, <1>6, <1>7, <1>8, Zenon DEF OrderInv

\* A step of central or of the wire on one connection.
LEMMA CentralSide ==
  ASSUME OrderInv, StreamTypes, NEW e \in Epochs, UNCHANGED <<epoch, captured, batch, pktCh>>,
         HandTypes', ConnectionInOrder(e)', Passed(e)' \subseteq Passed(e),
         \A d \in Epochs : d # e => /\ up'[d] = up[d] /\ hand'[d] = hand[d]
                                    /\ session'[d] = session[d] /\ analysed'[d] = analysed[d]
  PROVE  OrderInv'
<1>1. ASSUME NEW d \in Epochs, d # e PROVE Passed(d)' = Passed(d) /\ ConnectionInOrder(d)'
  <2>1. /\ up'[d] = up[d] /\ hand'[d] = hand[d] /\ session'[d] = session[d] /\ analysed'[d] = analysed[d]
    BY <1>1, Zenon
  <2>2. Delivered(d)' = Delivered(d) /\ Carried(d)' = Carried(d)
    BY <2>1, Zenon DEF Delivered, Carried
  <2>3. ConnectionInOrder(d)
    BY Zenon DEF OrderInv
  <2>4. ConnectionInOrder(d)'
    BY <2>1, <2>2, <2>3, Zenon DEF ConnectionInOrder
  <2> QED BY <2>2, <2>4, Zenon DEF Passed
<1>2. \A d \in Epochs : Passed(d)' \subseteq Passed(d)
  BY <1>1, Zenon
<1>3. \A d \in Epochs : ConnectionInOrder(d)'
  BY <1>1, Zenon DEF OrderInv
<1>4. Waiting' = Waiting
  BY Zenon DEF Waiting
<1>5. \A c, d \in Epochs : c < d => Precede(Passed(c)', Passed(d)')
  BY <1>2, Zenon DEF OrderInv, Precede
<1>6. \A d \in Epochs : /\ d > epoch' => Passed(d)' = {}
                        /\ Precede(Passed(d)', Waiting')
                        /\ \A n \in Passed(d)' : n <= captured'
  BY <1>2, <1>4, Zenon DEF OrderInv, Precede
<1>7. /\ \A n \in Waiting' : n <= captured'
      /\ Ascending(batch') /\ Ascending(pktCh') /\ Precede(Entries(batch'), Entries(pktCh'))
  BY <1>4, Zenon DEF OrderInv
<1> QED BY <1>3, <1>5, <1>6, <1>7, Zenon DEF OrderInv

\* A batch is put on the wire, after all that its connection carries.
LEMMA WriteSide ==
  ASSUME OrderInv, StreamTypes, NEW k \in Epochs, epoch = k, NEW b \in Seq(Nat), Written(b),
         UNCHANGED <<epoch, captured, hand, session, analysed>>,
         Ascending(b), Entries(b) \subseteq Waiting, Waiting' \subseteq Waiting, Precede(Entries(b), Waiting'),
         Ascending(batch'), Ascending(pktCh'), Precede(Entries(batch'), Entries(pktCh'))
  PROVE  OrderInv'
<1>1. HandTypes'
  BY Zenon DEF OrderInv, HandTypes
<1>2. Precede(Passed(k), Entries(b)) /\ Precede(Delivered(k), Entries(b))
  BY Zenon DEF OrderInv, Precede, Passed
<1>3. \A d \in Epochs : Precede(Passed(d), Waiting)
  BY Zenon DEF OrderInv
<1>4. \A d \in Epochs : Delivered(d)' = Delivered(d)
  BY Zenon DEF Delivered
<1>5. CASE link[k] = "open" /\ handler[k] # "done"
  <2>1. PICK m : m = [seq |-> seq, packets |-> b]
    BY Zenon
  <2>2. m.packets = b /\ m \in Batches
    BY <2>1, Zenon DEF Batches, StreamTypes
  <2>3. /\ up' = [up EXCEPT ![k] = Append(up[k], m)]
        /\ up \in [Epochs -> Seq(Batches)] /\ up[k] \in Seq(Batches)
    BY <1>5, <2>1, Zenon DEF Written, StreamTypes
  <2>4. /\ \A d \in Epochs : d # k => up'[d] = up[d]
        /\ up'[k] = Append(up[k], m) /\ Len(up'[k]) = Len(up[k]) + 1
        /\ \A i \in 1..Len(up[k]) : up'[k][i] = up[k][i]
        /\ up'[k][Len(up[k]) + 1] = m /\ Len(up[k]) \in Nat
    BY <2>2, <2>3
  <2>5. \A d \in Epochs : d # k => Passed(d)' = Passed(d) /\ ConnectionInOrder(d)' = ConnectionInOrder(d)
    BY <1>4, <2>4 DEF Passed, Carried, ConnectionInOrder
  <2>6. Passed(k)' \subseteq Passed(k) \cup Entries(b)
    <3>1. \A i \in 1..Len(up'[k]) :
            \/ i \in 1..Len(up[k]) /\ up'[k][i].packets = up[k][i].packets
            \/ up'[k][i].packets = b
      BY <2>2, <2>4
    <3>2. \A i \in 1..Len(up'[k]) : Entries(up'[k][i].packets) \subseteq Carried(k) \cup Entries(b)
      BY <3>1, Zenon DEF Carried
    <3>3. Carried(k)' \subseteq Carried(k) \cup Entries(b)
      BY <3>2, Zenon DEF Carried
    <3> QED BY <1>4, <3>3, Zenon DEF Passed
  <2>7. ConnectionInOrder(k)'
    <3>1. ConnectionInOrder(k)
      BY Zenon DEF OrderInv
    <3>2. \A i \in 1..Len(up[k]) : Precede(Entries(up[k][i].packets), Entries(b))
      <4>1. \A i \in 1..Len(up[k]) : Entries(up[k][i].packets) \subseteq Passed(k)
        BY Zenon DEF Passed, Carried
      <4> QED BY <1>2, <4>1, Zenon DEF Precede
    <3>3. ASSUME NEW i \in 1..Len(up'[k])
          PROVE  /\ Ascending(up'[k][i].packets)
                 /\ Precede(Delivered(k)', Entries(up'[k][i].packets))
                 /\ \A j \in 1..Len(up'[k]) : i < j =>
                      Precede(Entries(up'[k][i].packets), Entries(up'[k][j].packets))
      <4>1. CASE i = Len(up[k]) + 1
        BY <1>2, <1>4, <2>2, <2>4, <4>1
      <4>2. CASE i \in 1..Len(up[k])
        <5>1. up'[k][i] = up[k][i]
          BY <2>4, <4>2, Zenon
        <5>2. Ascending(up'[k][i].packets) /\ Precede(Delivered(k)', Entries(up'[k][i].packets))
          BY <1>4, <3>1, <4>2, <5>1, Zenon DEF ConnectionInOrder
        <5>3. ASSUME NEW j \in 1..Len(up'[k]), i < j
              PROVE  Precede(Entries(up'[k][i].packets), Entries(up'[k][j].packets))
          <6>1. CASE j = Len(up[k]) + 1
            BY <2>2, <2>4, <3>2, <4>2, <5>1, <6>1, Zenon
          <6>2. CASE j \in 1..Len(up[k])
            BY <2>4, <3>1, <4>2, <5>1, <5>3, <6>2, Zenon DEF ConnectionInOrder
          <6> QED BY <2>4, <6>1, <6>2
        <5> QED BY <5>2, <5>3, Zenon
      <4>3. i = Len(up[k]) + 1 \/ i \in 1..Len(up[k])
        BY <2>4
      <4> QED BY <4>1, <4>2, <4>3, Zenon
    <3>4. /\ Ascending(analysed'[k]) /\ Ascending(session'[k]) /\ Ascending(hand'[k])
          /\ Precede(Entries(analysed'[k]), Entries(session'[k]))
          /\ Precede(Entries(analysed'[k]), Entries(hand'[k]))
          /\ Precede(Entries(session'[k]), Entries(hand'[k]))
      BY <3>1, Zenon DEF ConnectionInOrder
    <3> QED BY <3>3, <3>4, Zenon DEF ConnectionInOrder
  <2>8. \A d \in Epochs : ConnectionInOrder(d)'
    BY <2>5, <2>7, Zenon DEF OrderInv
  <2>9. \A c, d \in Epochs : c < d => Precede(Passed(c)', Passed(d)')
    <3>1. \A c, d \in Epochs : c < d => Precede(Passed(c), Passed(d))
      BY Zenon DEF OrderInv
    <3>2. \A d \in Epochs : d > k => Passed(d)' = {}
      BY <2>5, StreamConstants DEF OrderInv, Epochs
    <3>3. \A c \in Epochs : Precede(Passed(c), Entries(b))
      BY <1>3, Zenon DEF Precede
    <3> SUFFICES ASSUME NEW c \in Epochs, NEW d \in Epochs, c < d PROVE Precede(Passed(c)', Passed(d)')
      BY Zenon
    <3>4. CASE c = k
      <4>1. Passed(d)' = {}
        BY <3>2, <3>4, StreamConstants, Zenon DEF Epochs
      <4> QED BY <4>1, Zenon DEF Precede
    <3>5. CASE c # k /\ d = k
      <4>1. Passed(c)' = Passed(c) /\ Passed(d)' \subseteq Passed(d) \cup Entries(b)
        BY <2>5, <2>6, <3>5, Zenon
      <4> QED BY <3>1, <3>3, <4>1, Zenon DEF Precede
    <3>6. CASE c # k /\ d # k
      BY <2>5, <3>1, <3>6, Zenon
    <3> QED BY <3>4, <3>5, <3>6, Zenon
  <2>10. ASSUME NEW d \in Epochs
         PROVE  /\ d > epoch' => Passed(d)' = {}
                /\ Precede(Passed(d)', Waiting')
                /\ \A n \in Passed(d)' : n <= captured'
    <3>1. Passed(d)' \subseteq Passed(d) \cup Entries(b) /\ (d # k => Passed(d)' = Passed(d))
      BY <2>5, <2>6, Zenon
    <3>2. d > epoch' => Passed(d)' = {}
      BY <3>1, StreamConstants DEF OrderInv, Epochs
    <3>3. Precede(Passed(d)', Waiting')
      BY <1>3, <3>1, Zenon DEF Precede
    <3>4. \A n \in Passed(d)' : n <= captured'
      BY <3>1, Zenon DEF OrderInv
    <3> QED BY <3>2, <3>3, <3>4, Zenon
  <2>11. \A n \in Waiting' : n <= captured'
    BY Zenon DEF OrderInv
  <2> QED BY <1>1, <2>8, <2>9, <2>10, <2>11, Zenon DEF OrderInv
<1>6. CASE ~(link[k] = "open" /\ handler[k] # "done")
  <2>1. up' = up
    BY <1>6, Zenon DEF Written
  <2>2. \A d \in Epochs : Passed(d)' = Passed(d) /\ ConnectionInOrder(d)' = ConnectionInOrder(d)
    BY <1>4, <2>1 DEF Passed, Carried, ConnectionInOrder
  <2> QED BY <1>1, <1>3, <2>2 DEF OrderInv, Precede
<1> QED BY <1>5, <1>6, Zenon

\* The agent connects, reads packets and batches them.
LEMMA AgentInOrder ==
  ASSUME OrderInv, StreamTypes,
         \/ Cancel \/ Connect \/ Loop \/ ReadPacket \/ ReadPacketFails \/ UNCHANGED vars
         \/ \E e \in Epochs : Control(e) \/ Handshake(e) \/ HandlerEnds(e) \/ SendUpdate(e)
  PROVE  OrderInv'
<1>1. /\ captured \in Nat /\ epoch \in Nat /\ Epochs \subseteq Nat
      /\ batch \in Seq(Nat) /\ pktCh \in Seq(Nat) /\ << >> \in Seq(Nat)
      /\ Ascending(batch) /\ Ascending(pktCh) /\ Precede(Entries(batch), Entries(pktCh))
  BY StreamConstants DEF StreamTypes, Epochs, OrderInv
<1>2. Entries(<< >>) = {} /\ Ascending(<< >>) /\ Precede({}, {})
  BY EntriesEmpty, Zenon DEF Precede
<1>3. ASSUME UNCHANGED <<up, hand, session, analysed, captured, batch, pktCh>>,
             epoch' = epoch \/ epoch' = epoch + 1
      PROVE  OrderInv'
  <2>1. Waiting' = Waiting
    BY <1>3, Zenon DEF Waiting
  <2>2. epoch' \in Nat /\ epoch' >= epoch /\ captured' >= captured
    BY <1>1, <1>3
  <2> QED BY <1>1, <1>3, <2>1, <2>2, AgentSide, Zenon
<1>4. ASSUME UNCHANGED <<up, hand, session, analysed, captured, epoch>>, batch' = << >>, pktCh' = << >>
      PROVE  OrderInv'
  <2>1. Waiting' = {}
    BY <1>2, <1>4, Zenon DEF Waiting
  <2>2. epoch' \in Nat /\ epoch' >= epoch /\ captured' >= captured
    BY <1>1, <1>4
  <2> QED BY <1>1, <1>2, <1>4, <2>1, <2>2, AgentSide, Zenon
<1>5. CASE Cancel \/ Run \/ DialFails \/ Dial \/ AckFails \/ ReadPacketFails \/ UNCHANGED vars
  BY <1>3, <1>5, Zenon DEF Cancel, Run, DialFails, Dial, AckFails, ReadPacketFails, vars, source, agent,
      wire, central
<1>6. CASE \E e \in Epochs : Control(e) \/ Handshake(e) \/ HandlerEnds(e) \/ SendUpdate(e)
  BY <1>3, <1>6, Zenon DEF Control, ReadUpdate, PushUpdate, ReadUpdateFails, Handshake, HandlerEnds,
      SendUpdate, source, agent, wire, central
<1>7. CASE Accepted \/ SendFails
  BY <1>4, <1>7, Zenon DEF Accepted, SendFails, Leave, wire, central
<1>8. CASE ReadPacket
  <2>1. /\ captured' = captured + 1 /\ UNCHANGED <<up, hand, session, analysed, epoch, batch>>
        /\ pktCh' = pktCh \/ pktCh' = Append(pktCh, captured + 1)
    BY <1>8, Zenon DEF ReadPacket, agent, wire, central
  <2>2. Precede(Waiting, {captured + 1}) /\ Entries(batch) \subseteq Waiting /\ Entries(pktCh) \subseteq Waiting
    <3>1. Waiting \subseteq Nat
      BY <1>1 DEF Waiting, Entries
    <3> QED BY <1>1, <3>1 DEF OrderInv, Precede, Waiting
  <2>3. Precede(Entries(batch), {captured + 1}) /\ Precede(Entries(pktCh), {captured + 1})
    BY <2>2, Zenon DEF Precede
  <2>4. CASE pktCh' = pktCh
    <3>1. Waiting' = Waiting /\ captured' \in Nat /\ captured' >= captured /\ epoch' >= epoch
      BY <1>1, <2>1, <2>4 DEF Waiting
    <3> QED BY <1>1, <2>1, <2>4, <3>1, AgentSide, Zenon
  <2>5. CASE pktCh' = Append(pktCh, captured + 1)
    <3>1. captured + 1 \in Nat /\ captured' >= captured /\ epoch' >= epoch
      BY <1>1, <2>1
    <3>2. Entries(pktCh') = Entries(pktCh) \cup {captured + 1} /\ Ascending(pktCh') /\ pktCh' \in Seq(Nat)
      BY <1>1, <2>3, <2>5, <3>1, EntriesAppend, Zenon
    <3>3. Waiting' = Waiting \cup {captured + 1}
      BY <2>1, <3>2, Zenon DEF Waiting
    <3>4. Precede(Entries(batch'), Entries(pktCh'))
      BY <1>1, <2>1, <2>3, <3>2, Zenon DEF Precede
    <3>5. \A n \in Waiting' : n \in Waiting \/ (captured < n /\ n <= captured')
      BY <1>1, <2>1, <3>3
    <3> QED BY <1>1, <2>1, <3>1, <3>2, <3>4, <3>5, AgentSide, Zenon
  <2> QED BY <2>1, <2>4, <2>5, Zenon
<1>9. CASE BatchPacket
  <2>1. /\ apc = "loop" /\ pktCh # << >> /\ pktCh' = Tail(pktCh)
        /\ UNCHANGED <<hand, session, analysed, epoch, captured>>
        /\ \/ batch' = Append(batch, Head(pktCh)) /\ up' = up
           \/ Written(Append(batch, Head(pktCh))) /\ batch' = << >>
    BY <1>9, Zenon DEF BatchPacket, central
  <2>2. /\ Tail(pktCh) \in Seq(Nat) /\ Head(pktCh) \in Nat
        /\ Entries(pktCh) = {Head(pktCh)} \cup Entries(Tail(pktCh))
        /\ Ascending(Tail(pktCh)) /\ Precede({Head(pktCh)}, Entries(Tail(pktCh)))
    BY <1>1, <2>1, EntriesTail, Zenon
  <2>3. PICK b \in Seq(Nat) : b = Append(batch, Head(pktCh))
    <3>1. Append(batch, Head(pktCh)) \in Seq(Nat)
      BY <1>1, <2>2, EntriesAppend, Zenon
    <3> QED BY <3>1, Zenon
  <2>4. Precede(Entries(batch), {Head(pktCh)})
    BY <1>1, <2>2, Zenon DEF Precede
  <2>5. Entries(b) = Entries(batch) \cup {Head(pktCh)} /\ Ascending(b)
    BY <1>1, <2>2, <2>3, <2>4, EntriesAppend, Zenon
  <2>6. Precede(Entries(b), Entries(pktCh')) /\ Entries(b) \subseteq Waiting /\ Entries(pktCh') \subseteq Waiting
    BY <1>1, <2>1, <2>2, <2>5, Zenon DEF Precede, Waiting
  <2>7. CASE batch' = b /\ up' = up
    <3>1. Waiting' \subseteq Waiting /\ captured' >= captured /\ epoch' >= epoch
      BY <1>1, <2>1, <2>6, <2>7 DEF Waiting
    <3> QED BY <1>1, <2>1, <2>2, <2>5, <2>6, <2>7, <3>1, AgentSide, Zenon
  <2>8. CASE Written(b) /\ batch' = << >>
    <3>1. Waiting' = Entries(pktCh') /\ Precede(Entries(batch'), Entries(pktCh'))
      BY <1>2, <2>8, Zenon DEF Waiting, Precede
    <3>2. epoch \in Epochs
      BY <2>1, Zenon DEF StreamTypes
    <3>3. Ascending(batch') /\ Ascending(pktCh')
      BY <1>2, <2>1, <2>2, <2>8, Zenon
    <3> QED BY <2>1, <2>5, <2>6, <2>8, <3>1, <3>2, <3>3, WriteSide, Zenon
  <2> QED BY <2>1, <2>3, <2>7, <2>8, Zenon
<1>10. ASSUME apc = "loop", Written(batch), batch' = << >>, pktCh' = pktCh \/ pktCh' = << >>,
              UNCHANGED <<hand, session, analysed, epoch, captured>>
       PROVE  OrderInv'
  <2>1. epoch \in Epochs
    BY <1>10, Zenon DEF StreamTypes
  <2>2. Waiting' = Entries(pktCh') /\ Precede(Entries(batch'), Entries(pktCh')) /\ Ascending(batch') /\ Ascending(pktCh')
    BY <1>1, <1>2, <1>10, Zenon DEF Waiting, Precede
  <2>3. Entries(pktCh') \subseteq Entries(pktCh)
    BY <1>2, <1>10, Zenon
  <2>4. /\ Entries(batch) \subseteq Waiting /\ Waiting' \subseteq Waiting /\ Precede(Entries(batch), Waiting')
    BY <1>1, <2>2, <2>3, Zenon DEF Waiting, Precede
  <2> QED BY <1>1, <1>10, <2>1, <2>2, <2>4, WriteSide, Zenon
<1>11. CASE LoopEnds \/ NewFilter
  <2>1. /\ apc = "loop" /\ LastFlush /\ batch' = << >> /\ pktCh' = << >>
        /\ UNCHANGED <<epoch, captured, hand, session, analysed>>
    BY <1>11, Zenon DEF LoopEnds, NewFilter, Leave, central
  <2> QED BY <1>4, <1>10, <2>1, Zenon DEF LastFlush
<1>12. ASSUME NEW force \in BOOLEAN, Tick(force) PROVE OrderInv'
  <2>1. /\ apc = "loop" /\ UNCHANGED <<epoch, captured, pktCh, hand, session, analysed>>
    BY <1>12, Zenon DEF Tick, source, central
  <2>2. \/ UNCHANGED <<up, batch>>
        \/ Written(batch) /\ batch' = << >>
    BY <1>12, Zenon DEF Tick, Flush
  <2> QED BY <1>3, <1>10, <2>1, <2>2, Zenon
<1> QED BY <1>5, <1>6, <1>7, <1>8, <1>9, <1>11, <1>12, Zenon DEF Connect, Loop

\* What is on the wire and at central moves on, is dropped or is lost.
LEMMA CentralInOrder ==
  ASSUME OrderInv, StreamTypes, NEW e \in Epochs,
         Receive(e) \/ Deliver(e) \/ Analyse(e) \/ ReceiveFails(e) \/ Break(e)
  PROVE  OrderInv'
<1>1. /\ hand \in [Epochs -> Seq(Nat)] /\ session \in [Epochs -> Seq(Nat)] /\ analysed \in [Epochs -> Seq(Nat)]
      /\ hand[e] \in Seq(Nat) /\ session[e] \in Seq(Nat) /\ analysed[e] \in Seq(Nat)
      /\ up \in [Epochs -> Seq(Batches)] /\ up[e] \in Seq(Batches) /\ ConnectionInOrder(e)
  BY Zenon DEF OrderInv, HandTypes, StreamTypes
<1>2. UNCHANGED <<epoch, captured, batch, pktCh>>
  BY Zenon DEF Receive, Deliver, Analyse, ReceiveFails, Break, source, agent
<1>3. \A i \in 1..Len(up[e]) : up[e][i].packets \in Seq(Nat) /\ Entries(up[e][i].packets) \subseteq Carried(e)
  <2>1. \A i \in 1..Len(up[e]) : up[e][i] \in Batches
    BY <1>1
  <2> QED BY <2>1, Zenon DEF Batches, Carried
<1>4. CASE Receive(e)
  <2>1. /\ hand[e] = << >> /\ up[e] # << >> /\ hand' = [hand EXCEPT ![e] = Head(up[e]).packets]
        /\ up' = [up EXCEPT ![e] = Tail(up[e])] /\ UNCHANGED <<session, analysed>>
    BY <1>4, Zenon DEF Receive
  <2>2. /\ up[e][1] = Head(up[e]) /\ 1 \in 1..Len(up[e])
        /\ \A i \in 1..Len(Tail(up[e])) : i + 1 \in 1..Len(up[e]) /\ Tail(up[e])[i] = up[e][i + 1] /\ 1 < i + 1
    BY <1>1, <2>1
  <2>3. /\ hand'[e] = up[e][1].packets /\ up'[e] = Tail(up[e])
        /\ \A d \in Epochs : d # e => up'[d] = up[d] /\ hand'[d] = hand[d]
    BY <1>1, <2>1, <2>2, Zenon
  <2>4. HandTypes'
    BY <1>1, <1>3, <2>1, <2>2, Zenon DEF HandTypes
  <2>5. Delivered(e)' \subseteq Delivered(e) \cup Entries(up[e][1].packets)
    BY <2>1, <2>3, Zenon DEF Delivered
  <2>6. \A i \in 1..Len(up'[e]) : i + 1 \in 1..Len(up[e]) /\ up'[e][i] = up[e][i + 1] /\ 1 < i + 1
    BY <2>2, <2>3, Zenon
  <2>7. Carried(e)' \subseteq Carried(e)
    <3>1. \A i \in 1..Len(up'[e]) : Entries(up'[e][i].packets) \subseteq Carried(e)
      BY <1>3, <2>6, Zenon
    <3> QED BY <3>1, Zenon DEF Carried
  <2>8. Passed(e)' \subseteq Passed(e)
    BY <1>3, <2>2, <2>5, <2>7, Zenon DEF Passed
  <2>12. Len(up'[e]) \in Nat
    BY <1>1, <2>1, <2>3
  <2>9. \A i \in 1..Len(up'[e]) :
          /\ Ascending(up'[e][i].packets) /\ Precede(Delivered(e)', Entries(up'[e][i].packets))
          /\ \A j \in 1..Len(up'[e]) : i < j => Precede(Entries(up'[e][i].packets), Entries(up'[e][j].packets))
    <3> SUFFICES ASSUME NEW i \in 1..Len(up'[e])
                 PROVE  /\ Ascending(up'[e][i].packets) /\ Precede(Delivered(e)', Entries(up'[e][i].packets))
                        /\ \A j \in 1..Len(up'[e]) : i < j => Precede(Entries(up'[e][i].packets), Entries(up'[e][j].packets))
      BY Zenon
    <3>1. i + 1 \in 1..Len(up[e]) /\ up'[e][i] = up[e][i + 1] /\ 1 < i + 1
      BY <2>6, Zenon
    <3>2. /\ Ascending(up[e][i + 1].packets) /\ Precede(Delivered(e), Entries(up[e][i + 1].packets))
          /\ Precede(Entries(up[e][1].packets), Entries(up[e][i + 1].packets))
      BY <1>1, <2>2, <3>1, Zenon DEF ConnectionInOrder
    <3>3. Precede(Delivered(e)', Entries(up'[e][i].packets))
      BY <2>5, <3>1, <3>2, Zenon DEF Precede
    <3>4. ASSUME NEW j \in 1..Len(up'[e]), i < j PROVE Precede(Entries(up'[e][i].packets), Entries(up'[e][j].packets))
      <4>1. j + 1 \in 1..Len(up[e]) /\ up'[e][j] = up[e][j + 1] /\ i + 1 < j + 1
        BY ONLY <2>6, j \in 1..Len(up'[e]), i \in 1..Len(up'[e]), i < j, <2>12
      <4> QED BY <1>1, <3>1, <4>1, Zenon DEF ConnectionInOrder
    <3> QED BY <3>1, <3>2, <3>3, <3>4, Zenon
  <2>10. /\ Ascending(analysed'[e]) /\ Ascending(session'[e]) /\ Ascending(hand'[e])
         /\ Precede(Entries(analysed'[e]), Entries(session'[e]))
         /\ Precede(Entries(analysed'[e]), Entries(hand'[e]))
         /\ Precede(Entries(session'[e]), Entries(hand'[e]))
    <3>1. Ascending(up[e][1].packets) /\ Precede(Delivered(e), Entries(up[e][1].packets))
      BY <1>1, <2>2, Zenon DEF ConnectionInOrder
    <3> QED BY <1>1, <2>1, <2>3, <3>1, Zenon DEF ConnectionInOrder, Delivered, Precede
  <2>11. ConnectionInOrder(e)'
    BY <2>9, <2>10, Zenon DEF ConnectionInOrder
  <2> QED BY <1>2, <2>1, <2>3, <2>4, <2>8, <2>11, CentralSide, Zenon
<1>5. ASSUME UNCHANGED up, HandTypes', Delivered(e)' \subseteq Delivered(e),
             Ascending(analysed'[e]), Ascending(session'[e]), Ascending(hand'[e]),
             Precede(Entries(analysed'[e]), Entries(session'[e])),
             Precede(Entries(analysed'[e]), Entries(hand'[e])),
             Precede(Entries(session'[e]), Entries(hand'[e])),
             \A d \in Epochs : d # e => hand'[d] = hand[d] /\ session'[d] = session[d] /\ analysed'[d] = analysed[d]
      PROVE  OrderInv'
  <2>1. \A i \in 1..Len(up[e]) : Precede(Delivered(e)', Entries(up[e][i].packets))
    BY <1>1, <1>5, Zenon DEF ConnectionInOrder, Precede
  <2>2. ConnectionInOrder(e)'
    BY <1>1, <1>5, <2>1, Zenon DEF ConnectionInOrder
  <2>3. Passed(e)' \subseteq Passed(e)
    BY <1>5 DEF Passed, Carried
  <2> QED BY <1>2, <1>5, <2>2, <2>3, CentralSide, Zenon
<1>6. CASE Deliver(e)
  <2>1. /\ hand[e] # << >> /\ hand' = [hand EXCEPT ![e] = Tail(hand[e])]
        /\ \/ session' = session
           \/ session' = [session EXCEPT ![e] = Append(session[e], Head(hand[e]))]
        /\ UNCHANGED <<up, analysed>>
    BY <1>6, Zenon DEF Deliver, wire
  <2>2. /\ Tail(hand[e]) \in Seq(Nat) /\ Head(hand[e]) \in Nat
        /\ Entries(hand[e]) = {Head(hand[e])} \cup Entries(Tail(hand[e]))
        /\ Ascending(Tail(hand[e])) /\ Precede({Head(hand[e])}, Entries(Tail(hand[e])))
    BY <1>1, <2>1, EntriesTail, Zenon DEF ConnectionInOrder
  <2>3. Precede(Entries(session[e]), {Head(hand[e])}) /\ Precede(Entries(analysed[e]), {Head(hand[e])})
    BY <1>1, <2>2, Zenon DEF ConnectionInOrder, Precede
  <2>4. /\ Entries(Append(session[e], Head(hand[e]))) = Entries(session[e]) \cup {Head(hand[e])}
        /\ Ascending(Append(session[e], Head(hand[e]))) /\ Append(session[e], Head(hand[e])) \in Seq(Nat)
    <3>1. Ascending(session[e])
      BY <1>1, Zenon DEF ConnectionInOrder
    <3> QED BY <1>1, <2>2, <2>3, <3>1, EntriesAppend, Zenon
  <2>5. /\ hand'[e] = Tail(hand[e]) /\ session'[e] \in {session[e], Append(session[e], Head(hand[e]))}
        /\ \A d \in Epochs : d # e => hand'[d] = hand[d] /\ session'[d] = session[d] /\ analysed'[d] = analysed[d]
        /\ HandTypes'
    BY <1>1, <2>1, <2>2, <2>4, Zenon DEF HandTypes
  <2>6. /\ Ascending(analysed'[e]) /\ Ascending(session'[e]) /\ Ascending(hand'[e])
    BY <1>1, <2>1, <2>2, <2>4, <2>5, Zenon DEF ConnectionInOrder
  <2>7. Entries(session'[e]) \subseteq Entries(session[e]) \cup {Head(hand[e])}
    BY <2>4, <2>5, Zenon
  <2>8. Delivered(e)' \subseteq Delivered(e)
    BY <2>1, <2>2, <2>5, <2>7, Zenon DEF Delivered
  <2>9. /\ Precede(Entries(analysed'[e]), Entries(session'[e]))
        /\ Precede(Entries(analysed'[e]), Entries(hand'[e]))
        /\ Precede(Entries(session'[e]), Entries(hand'[e]))
    BY <1>1, <2>1, <2>2, <2>3, <2>5, <2>7, Zenon DEF ConnectionInOrder, Precede
  <2> QED BY <1>5, <2>1, <2>5, <2>6, <2>8, <2>9, Zenon
<1>7. CASE Analyse(e)
  <2>1. /\ session[e] # << >> /\ session' = [session EXCEPT ![e] = Tail(session[e])]
        /\ analysed' = [analysed EXCEPT ![e] = Append(analysed[e], Head(session[e]))]
        /\ UNCHANGED <<up, hand>>
    BY <1>7, Zenon DEF Analyse, wire
  <2>2. /\ Tail(session[e]) \in Seq(Nat) /\ Head(session[e]) \in Nat
        /\ Entries(session[e]) = {Head(session[e])} \cup Entries(Tail(session[e]))
        /\ Ascending(Tail(session[e])) /\ Precede({Head(session[e])}, Entries(Tail(session[e])))
    BY <1>1, <2>1, EntriesTail, Zenon DEF ConnectionInOrder
  <2>3. Precede(Entries(analysed[e]), {Head(session[e])}) /\ Precede({Head(session[e])}, Entries(hand[e]))
    BY <1>1, <2>2, Zenon DEF ConnectionInOrder, Precede
  <2>4. /\ Entries(Append(analysed[e], Head(session[e]))) = Entries(analysed[e]) \cup {Head(session[e])}
        /\ Ascending(Append(analysed[e], Head(session[e]))) /\ Append(analysed[e], Head(session[e])) \in Seq(Nat)
    <3>1. Ascending(analysed[e])
      BY <1>1, Zenon DEF ConnectionInOrder
    <3> QED BY <1>1, <2>2, <2>3, <3>1, EntriesAppend, Zenon
  <2>5. /\ session'[e] = Tail(session[e]) /\ analysed'[e] = Append(analysed[e], Head(session[e]))
        /\ \A d \in Epochs : d # e => hand'[d] = hand[d] /\ session'[d] = session[d] /\ analysed'[d] = analysed[d]
        /\ HandTypes'
    BY <1>1, <2>1, <2>2, <2>4, Zenon DEF HandTypes
  <2>6. /\ Ascending(analysed'[e]) /\ Ascending(session'[e]) /\ Ascending(hand'[e])
    BY <1>1, <2>1, <2>2, <2>4, <2>5, Zenon DEF ConnectionInOrder
  <2>7. Entries(analysed'[e]) = Entries(analysed[e]) \cup {Head(session[e])}
    BY <2>4, <2>5, Zenon
  <2>8. Delivered(e)' \subseteq Delivered(e)
    BY <2>1, <2>2, <2>5, <2>7, Zenon DEF Delivered
  <2>9. /\ Precede(Entries(analysed'[e]), Entries(session'[e]))
        /\ Precede(Entries(analysed'[e]), Entries(hand'[e]))
        /\ Precede(Entries(session'[e]), Entries(hand'[e]))
    BY <1>1, <2>1, <2>2, <2>3, <2>5, <2>7, Zenon DEF ConnectionInOrder, Precede
  <2> QED BY <1>5, <2>1, <2>5, <2>6, <2>8, <2>9, Zenon
<1>8. CASE ReceiveFails(e) \/ Break(e)
  <2>1. PICK m \in 0..Len(up[e]) : up' = [up EXCEPT ![e] = SubSeq(up[e], 1, m)]
    <3>1. CASE ReceiveFails(e)
      <4>1. SubSeq(up[e], 1, 0) = << >> /\ 0 \in 0..Len(up[e])
        BY <1>1
      <4> QED BY <3>1, <4>1, Zenon DEF ReceiveFails
    <3>2. CASE Break(e)
      BY <3>2, Zenon DEF Break
    <3> QED BY <1>8, <3>1, <3>2, Zenon
  <2>2. UNCHANGED <<hand, session, analysed>>
    BY <1>8, Zenon DEF ReceiveFails, Break, central
  <2>3. /\ Len(up'[e]) = m /\ \A i \in 1..m : up'[e][i] = up[e][i] /\ i \in 1..Len(up[e])
        /\ \A d \in Epochs : d # e => up'[d] = up[d]
    BY <1>1, <2>1
  <2>4. HandTypes' /\ Delivered(e)' = Delivered(e)
    BY <1>1, <2>2, Zenon DEF HandTypes, Delivered
  <2>5. Passed(e)' \subseteq Passed(e)
    <3>1. \A i \in 1..Len(up'[e]) : Entries(up'[e][i].packets) \subseteq Carried(e)
      BY <1>3, <2>3, Zenon
    <3>2. Carried(e)' \subseteq Carried(e)
      BY <3>1, Zenon DEF Carried
    <3> QED BY <2>4, <3>2, Zenon DEF Passed
  <2>6. ConnectionInOrder(e)'
    BY <1>1, <2>2, <2>3, <2>4, Zenon DEF ConnectionInOrder
  <2> QED BY <1>2, <2>2, <2>3, <2>4, <2>5, <2>6, CentralSide, Zenon
<1> QED BY <1>4, <1>6, <1>7, <1>8, Zenon

LEMMA OrderInvariant == Spec => []OrderInv
<1>1. Init => OrderInv
  <2> SUFFICES ASSUME Init PROVE OrderInv
    BY Zenon
  <2>1. /\ batch = << >> /\ pktCh = << >> /\ epoch = 0 /\ captured = 0
        /\ \A e \in Epochs : up[e] = << >> /\ hand[e] = << >> /\ session[e] = << >> /\ analysed[e] = << >>
    BY Zenon DEF Init
  <2>2. HandTypes
    BY DEF Init, HandTypes
  <2>3. \A e \in Epochs : Delivered(e) = {} /\ Carried(e) = {} /\ Passed(e) = {}
    BY <2>1, EntriesEmpty DEF Delivered, Carried, Passed
  <2>4. Waiting = {}
    BY <2>1, EntriesEmpty, Zenon DEF Waiting
  <2>5. \A e \in Epochs : ConnectionInOrder(e)
    BY <2>1, EntriesEmpty DEF ConnectionInOrder, Precede
  <2> QED BY <2>1, <2>2, <2>3, <2>4, <2>5, EntriesEmpty, Zenon DEF OrderInv, Precede
<1>2. ASSUME SeqInv, OrderInv, [Next]_vars PROVE OrderInv'
  <2>1. StreamTypes
    BY <1>2, Zenon DEF SeqInv
  <2> QED BY <1>2, <2>1, AgentInOrder, CentralInOrder, Zenon DEF Next, Handler
<1> QED BY <1>1, <1>2, SeqInvariant, PTL DEF Spec

\* Over all connections, a packet of the agent is in one place at most and those
\* further along are older, whatever breaks, is dropped or is sent again.
THEOREM StreamedInOrder == Spec => []AtMostOnceInOrder
<1>1. ASSUME SeqInv, OrderInv PROVE AtMostOnceInOrder
  <2>1. /\ batch \in Seq(Nat) /\ pktCh \in Seq(Nat)
        /\ Ascending(batch) /\ Ascending(pktCh) /\ Precede(Entries(batch), Entries(pktCh))
    BY <1>1, Zenon DEF SeqInv, StreamTypes, OrderInv
  <2>2. Ascending(batch \o pktCh) /\ Entries(batch \o pktCh) = Waiting
    BY <2>1, EntriesConcat, Zenon DEF Waiting
  <2>3. ASSUME NEW e \in Epochs
        PROVE  /\ Len(Stages(e)) = Len(up[e]) + 3 /\ Len(up[e]) \in Nat
               /\ Stages(e)[1] = analysed[e] /\ Stages(e)[2] = session[e] /\ Stages(e)[3] = hand[e]
               /\ \A k \in 1..Len(Stages(e)) : k > 3 =>
                    k - 3 \in 1..Len(up[e]) /\ Stages(e)[k] = up[e][k - 3].packets
    <3> DEFINE t == [i \in 1..Len(up[e]) |-> up[e][i].packets]
    <3>1. up[e] \in Seq(Batches)
      BY <1>1, Zenon DEF SeqInv, StreamTypes
    <3>2. \A i \in 1..Len(up[e]) : up[e][i].packets \in Seq(Nat)
      <4>1. \A i \in 1..Len(up[e]) : up[e][i] \in Batches
        BY <3>1
      <4> QED BY <4>1, Zenon DEF Batches
    <3>3. t \in Seq(Seq(Nat)) /\ Len(t) = Len(up[e]) /\ Len(up[e]) \in Nat
      <4>1. Len(up[e]) \in Nat
        BY <3>1
      <4>2. t \in [1..Len(up[e]) -> Seq(Nat)]
        BY <3>2, Zenon
      <4>3. t \in Seq(Seq(Nat)) /\ DOMAIN t = 1..Len(up[e])
        BY <4>1, <4>2
      <4> HIDE DEF t
      <4> QED BY <4>1, <4>3
    <3>4. \A i \in 1..Len(up[e]) : t[i] = up[e][i].packets
      BY Zenon
    <3> HIDE DEF t
    <3> DEFINE r == <<analysed[e], session[e], hand[e]>>
    <3>5. r \in Seq(Seq(Nat)) /\ Len(r) = 3 /\ r[1] = analysed[e] /\ r[2] = session[e] /\ r[3] = hand[e]
      BY <1>1 DEF OrderInv, HandTypes
    <3> HIDE DEF r
    <3>6. /\ Len(r \o t) = 3 + Len(t) /\ (r \o t)[1] = r[1] /\ (r \o t)[2] = r[2] /\ (r \o t)[3] = r[3]
          /\ \A k \in 1..Len(r \o t) : k > 3 => k - 3 \in 1..Len(t) /\ (r \o t)[k] = t[k - 3]
      BY ONLY <3>3, <3>5, AfterThree, Zenon
    <3>7. Stages(e) = r \o t
      BY Zenon DEF Stages, r, t
    <3>8. Len(Stages(e)) = Len(up[e]) + 3
      BY ONLY <3>3, <3>6, <3>7
    <3> QED BY <3>3, <3>4, <3>5, <3>6, <3>7, <3>8, Zenon
  <2>4. ASSUME NEW e \in Epochs, NEW k \in 1..Len(Stages(e))
        PROVE  Ascending(Stages(e)[k]) /\ Entries(Stages(e)[k]) \subseteq Passed(e)
    <3>1. ConnectionInOrder(e)
      BY <1>1, Zenon DEF OrderInv
    <3>2. k \in {1, 2, 3} \/ k > 3
      BY <2>3
    <3>3. CASE k \in {1, 2, 3}
      BY <2>3, <3>1, <3>3, Zenon DEF ConnectionInOrder, Passed, Delivered
    <3>4. CASE k > 3
      BY <2>3, <3>1, <3>4, Zenon DEF ConnectionInOrder, Passed, Carried
    <3> QED BY <3>2, <3>3, <3>4, Zenon
  <2>5. ASSUME NEW e \in Epochs, NEW k \in 1..Len(Stages(e)), NEW l \in 1..Len(Stages(e)), k < l
        PROVE  Precede(Entries(Stages(e)[k]), Entries(Stages(e)[l]))
    <3>1. ConnectionInOrder(e)
      BY <1>1, Zenon DEF OrderInv
    <3>2. CASE l \in {1, 2, 3}
      <4>1. k \in {1, 2} /\ (l = 2 => k = 1) /\ l # 1
        BY <2>3, <2>5, <3>2
      <4> QED BY <2>3, <3>1, <3>2, <4>1, ZenonT(30) DEF ConnectionInOrder
    <3>3. CASE l > 3 /\ k \in {1, 2, 3}
      <4>1. l - 3 \in 1..Len(up[e]) /\ Stages(e)[l] = up[e][l - 3].packets
        BY <2>3, <3>3, Zenon
      <4>2. Entries(Stages(e)[k]) \subseteq Delivered(e)
        BY <2>3, <3>3, Zenon DEF Delivered
      <4>3. Precede(Delivered(e), Entries(Stages(e)[l]))
        BY <3>1, <4>1, Zenon DEF ConnectionInOrder
      <4> QED BY <4>2, <4>3, Zenon DEF Precede
    <3>4. CASE k > 3 /\ l > 3
      <4>1. /\ l - 3 \in 1..Len(up[e]) /\ Stages(e)[l] = up[e][l - 3].packets
            /\ k - 3 \in 1..Len(up[e]) /\ Stages(e)[k] = up[e][k - 3].packets /\ k - 3 < l - 3
        <5>1. k \in Nat /\ l \in Nat
          BY <2>3
        <5>2. k - 3 < l - 3
          BY <2>5, <5>1
        <5> QED BY <2>3, <3>4, <5>2, Zenon
      <4> QED BY <3>1, <4>1, Zenon DEF ConnectionInOrder
    <3> QED BY <2>3, <2>5, <3>2, <3>3, <3>4
  <2>6. ASSUME NEW e \in Epochs, NEW k \in 1..Len(Stages(e)), NEW d \in Epochs, NEW l \in 1..Len(Stages(d)), e < d
        PROVE  Precede(Entries(Stages(e)[k]), Entries(Stages(d)[l]))
    <3>1. Precede(Passed(e), Passed(d))
      BY <1>1, <2>6, Zenon DEF OrderInv
    <3>2. Entries(Stages(e)[k]) \subseteq Passed(e) /\ Entries(Stages(d)[l]) \subseteq Passed(d)
      BY <2>4, Zenon
    <3> QED BY <3>1, <3>2, Zenon DEF Precede
  <2>7. ASSUME NEW e \in Epochs, NEW k \in 1..Len(Stages(e))
        PROVE  Precede(Entries(Stages(e)[k]), Entries(batch \o pktCh))
    <3>1. Precede(Passed(e), Waiting)
      BY <1>1, Zenon DEF OrderInv
    <3> QED BY <2>2, <2>4, <3>1, Zenon DEF Precede
  <2> QED BY <2>2, <2>4, <2>5, <2>6, <2>7, Zenon DEF AtMostOnceInOrder
<1> QED BY <1>1, OrderInvariant, SeqInvariant, PTL

----------------------------------------------------------------------------
Held(e) == {ctlHand[e]} \ {0}

\* Every update that central has sent is in at most one place.
UpdateInv ==
  /\ nfilters \in Nat /\ applied \in Seq(Nat) /\ filterCh \in Seq(Nat)
  /\ ctlHand \in [Epochs -> Nat] /\ down \in [Epochs -> Seq(Nat)]
  /\ ctl \in [Epochs -> {"none", "read", "push", "done"}]
  /\ Distinct(applied) /\ Distinct(filterCh) /\ Entries(applied) \cap Entries(filterCh) = {}
  /\ \A n \in Entries(applied) \cup Entries(filterCh) : n <= nfilters
  /\ \A e \in Epochs :
       /\ ctl[e] = "push" => ctlHand[e] # 0
       /\ Distinct(down[e])
       /\ \A n \in Held(e) \cup Entries(down[e]) :
            n # 0 /\ n <= nfilters /\ n \notin Entries(applied) /\ n \notin Entries(filterCh)
       /\ \A d \in Epochs : Held(e) \cap Entries(down[d]) = {}
       /\ \A d \in Epochs : d # e => Held(e) \cap Held(d) = {} /\ Entries(down[e]) \cap Entries(down[d]) = {}

\* A step that only loses updates: those of a connection that is left or breaks.
LEMMA UpdatesLost ==
  ASSUME UpdateInv, UNCHANGED <<nfilters, applied, filterCh, ctlHand>>,
         down' \in [Epochs -> Seq(Nat)], ctl' \in [Epochs -> {"none", "read", "push", "done"}],
         \A e \in Epochs : Distinct(down'[e]) /\ Entries(down'[e]) \subseteq Entries(down[e]),
         \A e \in Epochs : ctl'[e] = "push" => ctl[e] = "push"
  PROVE  UpdateInv'
<1>1. \A e \in Epochs : Held(e)' = Held(e)
  BY Zenon DEF Held
<1>2. /\ nfilters' \in Nat /\ applied' \in Seq(Nat) /\ filterCh' \in Seq(Nat)
      /\ ctlHand' \in [Epochs -> Nat] /\ down' \in [Epochs -> Seq(Nat)]
      /\ ctl' \in [Epochs -> {"none", "read", "push", "done"}]
      /\ Distinct(applied') /\ Distinct(filterCh') /\ Entries(applied') \cap Entries(filterCh') = {}
      /\ \A n \in Entries(applied') \cup Entries(filterCh') : n <= nfilters'
  BY Zenon DEF UpdateInv
<1>3. ASSUME NEW e \in Epochs
      PROVE  /\ ctl'[e] = "push" => ctlHand'[e] # 0
             /\ \A n \in Held(e)' \cup Entries(down'[e]) :
                  n # 0 /\ n <= nfilters' /\ n \notin Entries(applied') /\ n \notin Entries(filterCh')
             /\ \A d \in Epochs : Held(e)' \cap Entries(down'[d]) = {}
             /\ \A d \in Epochs : d # e =>
                  Held(e)' \cap Held(d)' = {} /\ Entries(down'[e]) \cap Entries(down'[d]) = {}
  BY <1>1 DEF UpdateInv
<1> QED BY <1>2, <1>3, Zenon DEF UpdateInv

LEMMA UpdateInvariant == Spec => []UpdateInv
<1>1. Init => UpdateInv
  <2> SUFFICES ASSUME Init PROVE UpdateInv
    BY Zenon
  <2>1. /\ nfilters = 0 /\ applied = << >> /\ filterCh = << >> /\ ctlHand \in [Epochs -> Nat]
        /\ down \in [Epochs -> Seq(Nat)]
        /\ ctl \in [Epochs -> {"none", "read", "push", "done"}]
        /\ \A e \in Epochs : ctlHand[e] = 0 /\ down[e] = << >> /\ ctl[e] = "none"
    BY DEF Init
  <2>2. \A e \in Epochs : Held(e) = {}
    BY <2>1, Zenon DEF Held
  <2> QED BY <2>1, <2>2, EntriesEmpty DEF UpdateInv
<1>2. ASSUME SeqInv, UpdateInv, [Next]_vars PROVE UpdateInv'
  <2> USE <1>2
  <2>1. /\ nfilters \in Nat /\ applied \in Seq(Nat) /\ filterCh \in Seq(Nat)
        /\ ctlHand \in [Epochs -> Nat] /\ down \in [Epochs -> Seq(Nat)]
        /\ ctl \in [Epochs -> {"none", "read", "push", "done"}]
        /\ \A e \in Epochs : down[e] \in Seq(Nat) /\ Distinct(down[e]) /\ ctlHand[e] \in Nat
    BY Zenon DEF UpdateInv
  <2>2. ASSUME UNCHANGED <<nfilters, applied, filterCh, ctlHand, down>>,
               ctl' \in [Epochs -> {"none", "read", "push", "done"}],
               \A e \in Epochs : ctl'[e] = "push" => ctl[e] = "push"
        PROVE  UpdateInv'
    BY <2>1, <2>2, UpdatesLost, Zenon
  <2>3. ASSUME NEW s \in Seq(Nat), NEW e \in Epochs, Distinct(s), Entries(s) \subseteq Entries(down[e]),
               down' = [down EXCEPT ![e] = s], UNCHANGED <<nfilters, applied, filterCh, ctlHand, ctl>>
        PROVE  UpdateInv'
    <3>1. /\ down' \in [Epochs -> Seq(Nat)]
          /\ \A d \in Epochs : down'[d] = IF d = e THEN s ELSE down[d]
      BY <2>1, <2>3, Zenon
    <3>2. \A d \in Epochs : Distinct(down'[d]) /\ Entries(down'[d]) \subseteq Entries(down[d])
      BY <2>1, <2>3, <3>1, Zenon
    <3> QED BY <2>1, <2>3, <3>1, <3>2, UpdatesLost, Zenon
  <2>4. CASE \/ Cancel \/ Run \/ DialFails \/ Dial \/ AckFails \/ ReadPacket \/ ReadPacketFails
             \/ BatchPacket \/ (\E force \in BOOLEAN : Tick(force)) \/ UNCHANGED vars
             \/ \E e \in Epochs : Handler(e) \/ ReceiveFails(e) \/ Analyse(e)
    <3>1. UNCHANGED <<nfilters, applied, filterCh, ctlHand, down, ctl>>
      BY <2>4, Zenon DEF Cancel, Run, DialFails, Dial, AckFails, ReadPacket, ReadPacketFails, BatchPacket,
          Tick, Flush, Handler, Handshake, Receive, Deliver, HandlerEnds, ReceiveFails, Analyse, vars,
          source, agent, control, wire, central
    <3> QED BY <2>1, <2>2, <3>1, Zenon
  <2>5. CASE Accepted \/ (\E e \in Epochs : ReadUpdateFails(e))
    <3>1. /\ UNCHANGED <<nfilters, applied, filterCh, ctlHand, down>>
          /\ \E e \in Epochs, v \in {"read", "done"} : ctl' = [ctl EXCEPT ![e] = v]
      BY <2>5, Zenon DEF Accepted, ReadUpdateFails, source, agent, wire, central, SeqInv, StreamTypes
    <3>2. /\ ctl' \in [Epochs -> {"none", "read", "push", "done"}]
          /\ \A e \in Epochs : ctl'[e] = "push" => ctl[e] = "push"
      BY <2>1, <3>1, Zenon
    <3> QED BY <2>2, <3>1, <3>2, Zenon
  <2>6. CASE LoopEnds \/ SendFails
    <3>1. /\ UNCHANGED <<nfilters, applied, filterCh, ctlHand, ctl>> /\ down' = [down EXCEPT ![epoch] = << >>]
          /\ apc = "loop"
      BY <2>6, Zenon DEF LoopEnds, SendFails, Leave, control, central
    <3>2. << >> \in Seq(Nat) /\ epoch \in Epochs
      BY <3>1 DEF SeqInv, StreamTypes
    <3> QED BY <2>3, <3>1, <3>2, EntriesEmpty, Zenon
  <2>7. ASSUME NEW e \in Epochs, Break(e) PROVE UpdateInv'
    <3>1. PICK n \in 0..Len(down[e]) : down' = [down EXCEPT ![e] = SubSeq(down[e], 1, n)]
      BY <2>7, Zenon DEF Break
    <3>2. UNCHANGED <<nfilters, applied, filterCh, ctlHand, ctl>>
      BY <2>7, Zenon DEF Break, agent, control, central
    <3>3. /\ SubSeq(down[e], 1, n) \in Seq(Nat) /\ Entries(SubSeq(down[e], 1, n)) \subseteq Entries(down[e])
          /\ Distinct(SubSeq(down[e], 1, n))
      BY <2>1, EntriesPrefix, Zenon
    <3> QED BY <2>3, <3>1, <3>2, <3>3, Zenon
  <2>8. ASSUME NEW e \in Epochs, ReadUpdate(e) PROVE UpdateInv'
    <3> DEFINE n == Head(down[e])
    <3>1. /\ down[e] # << >> /\ down' = [down EXCEPT ![e] = Tail(down[e])]
          /\ ctlHand' = [ctlHand EXCEPT ![e] = n] /\ ctl' = [ctl EXCEPT ![e] = "push"]
          /\ UNCHANGED <<nfilters, applied, filterCh>>
      BY <2>8, Zenon DEF ReadUpdate, agent, central
    <3>2. /\ Tail(down[e]) \in Seq(Nat) /\ n \in Nat
          /\ Entries(down[e]) = {n} \cup Entries(Tail(down[e]))
          /\ Distinct(Tail(down[e])) /\ n \notin Entries(Tail(down[e]))
      BY <2>1, <3>1, EntriesTail, Zenon
    <3> HIDE DEF n
    <3>3. n # 0 /\ n <= nfilters /\ n \notin Entries(applied) /\ n \notin Entries(filterCh)
      BY <3>2, Zenon DEF UpdateInv
    <3>4. \A d \in Epochs : n \notin Held(d) /\ (d # e => n \notin Entries(down[d]))
      BY <3>2, Zenon DEF UpdateInv
    <3>5. \A d \in Epochs : /\ Held(d)' = IF d = e THEN {n} ELSE Held(d)
                            /\ d # e => down'[d] = down[d] /\ ctlHand'[d] = ctlHand[d] /\ ctl'[d] = ctl[d]
      BY <2>1, <3>1, <3>2, <3>3, Zenon DEF Held
    <3>6. /\ down'[e] = Tail(down[e]) /\ ctlHand'[e] = n
          /\ ctlHand' \in [Epochs -> Nat] /\ down' \in [Epochs -> Seq(Nat)]
          /\ ctl' \in [Epochs -> {"none", "read", "push", "done"}]
      BY <2>1, <3>1, <3>2, Zenon
    <3>7. \A d \in Epochs : Entries(down'[d]) \subseteq Entries(down[d]) /\ n \notin Entries(down'[d]) /\ Distinct(down'[d])
      BY <2>1, <3>2, <3>4, <3>5, <3>6, Zenon
    <3>8. /\ nfilters' \in Nat /\ applied' \in Seq(Nat) /\ filterCh' \in Seq(Nat)
          /\ Distinct(applied') /\ Distinct(filterCh') /\ Entries(applied') \cap Entries(filterCh') = {}
          /\ \A m \in Entries(applied') \cup Entries(filterCh') : m <= nfilters'
      BY <3>1, Zenon DEF UpdateInv
    <3>9. ASSUME NEW d \in Epochs
          PROVE  /\ ctl'[d] = "push" => ctlHand'[d] # 0
                 /\ \A m \in Held(d)' \cup Entries(down'[d]) :
                      m # 0 /\ m <= nfilters' /\ m \notin Entries(applied') /\ m \notin Entries(filterCh')
      <4>1. Held(d)' \cup Entries(down'[d]) \subseteq Held(d) \cup Entries(down[d]) \cup {n}
        BY <3>5, <3>7, Zenon
      <4>2. \A m \in Held(d) \cup Entries(down[d]) :
              m # 0 /\ m <= nfilters /\ m \notin Entries(applied) /\ m \notin Entries(filterCh)
        BY Zenon DEF UpdateInv
      <4>3. ctl'[d] = "push" => ctlHand'[d] # 0
        BY <3>3, <3>5, <3>6, Zenon DEF UpdateInv
      <4> QED BY <3>1, <3>3, <4>1, <4>2, <4>3, Zenon
    <3>10. ASSUME NEW c \in Epochs, NEW d \in Epochs
           PROVE  /\ Held(c)' \cap Entries(down'[d]) = {}
                  /\ d # c => Held(c)' \cap Held(d)' = {} /\ Entries(down'[c]) \cap Entries(down'[d]) = {}
      <4>1. /\ Held(c) \cap Entries(down[d]) = {}
            /\ d # c => Held(c) \cap Held(d) = {} /\ Entries(down[c]) \cap Entries(down[d]) = {}
        BY Zenon DEF UpdateInv
      <4>2. Held(c)' = (IF c = e THEN {n} ELSE Held(c)) /\ Held(d)' = IF d = e THEN {n} ELSE Held(d)
        BY <3>5, Zenon
      <4>3. /\ Entries(down'[d]) \subseteq Entries(down[d]) /\ n \notin Entries(down'[d]) /\ n \notin Held(d)
            /\ Entries(down'[c]) \subseteq Entries(down[c]) /\ n \notin Held(c)
        BY <3>4, <3>7, Zenon
      <4> QED BY <4>1, <4>2, <4>3, Zenon
    <3> QED BY <3>6, <3>7, <3>8, <3>9, <3>10, Zenon DEF UpdateInv
  <2>9. ASSUME NEW e \in Epochs, PushUpdate(e) PROVE UpdateInv'
    <3> DEFINE n == ctlHand[e]
    <3>1. /\ ctl[e] = "push" /\ (filterCh' = Append(filterCh, n) \/ filterCh' = filterCh)
          /\ ctlHand' = [ctlHand EXCEPT ![e] = 0] /\ ctl' = [ctl EXCEPT ![e] = "read"]
          /\ UNCHANGED <<nfilters, applied, down>>
      BY <2>9, Zenon DEF PushUpdate, agent, wire, central
    <3>2. n # 0 /\ n \in Nat /\ Held(e) = {n}
      BY <2>1, <3>1, Zenon DEF UpdateInv, Held
    <3> HIDE DEF n
    <3>3. n <= nfilters /\ n \notin Entries(applied) /\ n \notin Entries(filterCh)
      BY <3>2, Zenon DEF UpdateInv
    <3>4. /\ \A d \in Epochs : n \notin Entries(down[d]) /\ (d # e => n \notin Held(d))
      BY <3>2, Zenon DEF UpdateInv
    <3>5. \A d \in Epochs : Held(d)' = (IF d = e THEN {} ELSE Held(d)) /\ (ctl'[d] = "push" => ctlHand'[d] # 0)
      BY <2>1, <3>1, Zenon DEF Held, UpdateInv
    <3>6. /\ ctlHand' \in [Epochs -> Nat] /\ ctl' \in [Epochs -> {"none", "read", "push", "done"}]
      BY <2>1, <3>1, Zenon
    <3>7. /\ filterCh' \in Seq(Nat) /\ Distinct(filterCh') /\ Entries(filterCh') \subseteq Entries(filterCh) \cup {n}
      <4>1. Distinct(filterCh)
        BY Zenon DEF UpdateInv
      <4>2. Append(filterCh, n) \in Seq(Nat) /\ Distinct(Append(filterCh, n))
            /\ Entries(Append(filterCh, n)) = Entries(filterCh) \cup {n}
        BY <2>1, <3>2, <3>3, <4>1, EntriesAppend, Zenon
      <4> QED BY <2>1, <3>1, <4>1, <4>2, Zenon
    <3>8. /\ nfilters' \in Nat /\ applied' \in Seq(Nat) /\ down' \in [Epochs -> Seq(Nat)]
          /\ Distinct(applied') /\ Entries(applied') \cap Entries(filterCh') = {}
          /\ \A m \in Entries(applied') \cup Entries(filterCh') : m <= nfilters'
      BY <3>1, <3>3, <3>7, Zenon DEF UpdateInv
    <3>9. ASSUME NEW d \in Epochs
          PROVE  \A m \in Held(d)' \cup Entries(down'[d]) :
                      m # 0 /\ m <= nfilters' /\ m \notin Entries(applied') /\ m \notin Entries(filterCh')
      <4>1. Held(d)' \cup Entries(down'[d]) \subseteq (Held(d) \cup Entries(down[d])) \ {n}
        BY <3>1, <3>2, <3>4, <3>5, Zenon
      <4>2. \A m \in Held(d) \cup Entries(down[d]) :
              m # 0 /\ m <= nfilters /\ m \notin Entries(applied) /\ m \notin Entries(filterCh)
        BY Zenon DEF UpdateInv
      <4> QED BY <3>1, <3>7, <4>1, <4>2, Zenon
    <3>10. ASSUME NEW c \in Epochs, NEW d \in Epochs
           PROVE  /\ Held(c)' \cap Entries(down'[d]) = {}
                  /\ d # c => Held(c)' \cap Held(d)' = {} /\ Entries(down'[c]) \cap Entries(down'[d]) = {}
      <4>1. /\ Held(c) \cap Entries(down[d]) = {}
            /\ d # c => Held(c) \cap Held(d) = {} /\ Entries(down[c]) \cap Entries(down[d]) = {}
        BY Zenon DEF UpdateInv
      <4>2. Held(c)' \subseteq Held(c) /\ Held(d)' \subseteq Held(d)
        BY <3>5, Zenon
      <4> QED BY <3>1, <4>1, <4>2, Zenon
    <3>11. \A d \in Epochs : Distinct(down'[d])
      BY <2>1, <3>1, Zenon
    <3> QED BY <3>5, <3>6, <3>7, <3>8, <3>9, <3>10, <3>11, Zenon DEF UpdateInv
  <2>10. CASE NewFilter
    <3> DEFINE n == Head(filterCh)
    <3>1. /\ filterCh # << >> /\ filterCh' = Tail(filterCh) /\ applied' = Append(applied, n)
          /\ down' = [down EXCEPT ![epoch] = << >>] /\ UNCHANGED <<nfilters, ctlHand, ctl>>
      BY <2>10, Zenon DEF NewFilter, Leave, central
    <3>2. /\ Tail(filterCh) \in Seq(Nat) /\ n \in Nat
          /\ Entries(filterCh) = {n} \cup Entries(Tail(filterCh))
          /\ Distinct(Tail(filterCh)) /\ n \notin Entries(Tail(filterCh))
      BY <2>1, <3>1, EntriesTail, Zenon DEF UpdateInv
    <3> HIDE DEF n
    <3>3. n \notin Entries(applied) /\ n <= nfilters
      BY <3>2, Zenon DEF UpdateInv
    <3>4. Append(applied, n) \in Seq(Nat) /\ Entries(Append(applied, n)) = Entries(applied) \cup {n} /\ Distinct(Append(applied, n))
      BY <2>1, <3>2, <3>3, EntriesAppend, Zenon DEF UpdateInv
    <3>5. Entries(applied') \cup Entries(filterCh') = Entries(applied) \cup Entries(filterCh)
      BY <3>1, <3>2, <3>4, Zenon
    <3>6. /\ nfilters' \in Nat /\ applied' \in Seq(Nat) /\ filterCh' \in Seq(Nat)
          /\ ctlHand' \in [Epochs -> Nat] /\ ctl' \in [Epochs -> {"none", "read", "push", "done"}]
          /\ Distinct(applied') /\ Distinct(filterCh') /\ Entries(applied') \cap Entries(filterCh') = {}
          /\ \A m \in Entries(applied') \cup Entries(filterCh') : m <= nfilters'
      BY <2>1, <3>1, <3>2, <3>3, <3>4, <3>5, ZenonT(30) DEF UpdateInv
    <3>7. << >> \in Seq(Nat)
      OBVIOUS
    <3>8. /\ down' \in [Epochs -> Seq(Nat)]
          /\ \A d \in Epochs : /\ Distinct(down'[d]) /\ Entries(down'[d]) \subseteq Entries(down[d])
                               /\ Held(d)' = Held(d) /\ (ctl'[d] = "push" => ctlHand'[d] # 0)
      <4>1. /\ down' \in [Epochs -> Seq(Nat)]
            /\ \A d \in Epochs : down'[d] = IF d = epoch THEN << >> ELSE down[d]
        BY <2>1, <3>1, <3>7, Zenon
      <4>2. \A d \in Epochs : Held(d)' = Held(d) /\ (ctl'[d] = "push" => ctlHand'[d] # 0)
        BY <3>1, Zenon DEF Held, UpdateInv
      <4> QED BY <2>1, <4>1, <4>2, EntriesEmpty, Zenon
    <3>9. ASSUME NEW d \in Epochs
          PROVE  \A m \in Held(d)' \cup Entries(down'[d]) :
                      m # 0 /\ m <= nfilters' /\ m \notin Entries(applied') /\ m \notin Entries(filterCh')
      <4>1. Held(d)' \cup Entries(down'[d]) \subseteq Held(d) \cup Entries(down[d])
        BY <3>8, Zenon
      <4>2. \A m \in Held(d) \cup Entries(down[d]) :
              m # 0 /\ m <= nfilters /\ m \notin Entries(applied) \cup Entries(filterCh)
        BY Zenon DEF UpdateInv
      <4> QED BY <3>1, <3>5, <4>1, <4>2, Zenon
    <3>10. ASSUME NEW c \in Epochs, NEW d \in Epochs
           PROVE  /\ Held(c)' \cap Entries(down'[d]) = {}
                  /\ d # c => Held(c)' \cap Held(d)' = {} /\ Entries(down'[c]) \cap Entries(down'[d]) = {}
      <4>1. /\ Held(c) \cap Entries(down[d]) = {}
            /\ d # c => Held(c) \cap Held(d) = {} /\ Entries(down[c]) \cap Entries(down[d]) = {}
        BY Zenon DEF UpdateInv
      <4> QED BY <3>8, <4>1, Zenon
    <3> QED BY <3>6, <3>8, <3>9, <3>10, Zenon DEF UpdateInv
  <2>11. ASSUME NEW e \in Epochs, SendUpdate(e) PROVE UpdateInv'
    <3> DEFINE n == nfilters + 1
    <3>1. /\ nfilters' = n /\ UNCHANGED <<applied, filterCh, ctlHand, ctl>>
          /\ down' = down \/ down' = [down EXCEPT ![e] = Append(down[e], n)]
      BY <2>11, Zenon DEF SendUpdate, agent, control
    <3>2. n \in Nat /\ n # 0 /\ nfilters < n
      BY <2>1
    <3>3. /\ \A m \in Entries(applied) \cup Entries(filterCh) : m \in Nat /\ m < n
          /\ \A d \in Epochs : \A m \in Held(d) \cup Entries(down[d]) : m \in Nat /\ m < n
      <4>1. /\ \A m \in Entries(applied) \cup Entries(filterCh) : m \in Nat /\ m <= nfilters
        BY <2>1, EntriesTyped, Zenon DEF UpdateInv
      <4>2. \A d \in Epochs : \A m \in Held(d) \cup Entries(down[d]) : m \in Nat /\ m <= nfilters
        <5>1. \A d \in Epochs : Entries(down[d]) \subseteq Nat /\ Held(d) \subseteq Nat
          BY <2>1, EntriesTyped, Zenon DEF Held
        <5> QED BY <5>1, Zenon DEF UpdateInv
      <4> QED BY <2>1, <4>1, <4>2
    <3> HIDE DEF n
    <3>4. /\ Append(down[e], n) \in Seq(Nat) /\ Entries(Append(down[e], n)) = Entries(down[e]) \cup {n}
          /\ Distinct(Append(down[e], n))
      <4>1. n \notin Entries(down[e])
        BY <3>2, <3>3
      <4> QED BY <2>1, <3>2, <4>1, EntriesAppend, Zenon
    <3>5. /\ down' \in [Epochs -> Seq(Nat)]
          /\ \A d \in Epochs : /\ Distinct(down'[d]) /\ Entries(down'[d]) \subseteq Entries(down[d]) \cup {n}
                               /\ d # e => down'[d] = down[d]
      BY <2>1, <3>1, <3>4, Zenon
    <3>6. /\ nfilters' \in Nat /\ applied' \in Seq(Nat) /\ filterCh' \in Seq(Nat)
          /\ ctlHand' \in [Epochs -> Nat] /\ ctl' \in [Epochs -> {"none", "read", "push", "done"}]
          /\ Distinct(applied') /\ Distinct(filterCh') /\ Entries(applied') \cap Entries(filterCh') = {}
          /\ \A m \in Entries(applied') \cup Entries(filterCh') : m <= nfilters'
      BY <3>1, <3>2, <3>3 DEF UpdateInv
    <3>7. \A d \in Epochs : Held(d)' = Held(d) /\ n \notin Held(d) /\ (ctl'[d] = "push" => ctlHand'[d] # 0)
      BY <3>1, <3>2, <3>3 DEF Held, UpdateInv
    <3>8. \A d \in Epochs : n \notin Entries(down[d]) /\ n \notin Entries(applied) /\ n \notin Entries(filterCh)
      BY <3>2, <3>3
    <3>9. ASSUME NEW d \in Epochs
          PROVE  \A m \in Held(d)' \cup Entries(down'[d]) :
                      m # 0 /\ m <= nfilters' /\ m \notin Entries(applied') /\ m \notin Entries(filterCh')
      <4>1. Held(d)' \cup Entries(down'[d]) \subseteq Held(d) \cup Entries(down[d]) \cup {n}
        BY <3>5, <3>7, Zenon
      <4>2. \A m \in Held(d) \cup Entries(down[d]) :
              m # 0 /\ m \notin Entries(applied) /\ m \notin Entries(filterCh)
        BY Zenon DEF UpdateInv
      <4> QED BY <3>1, <3>2, <3>3, <3>8, <4>1, <4>2
    <3>10. ASSUME NEW c \in Epochs, NEW d \in Epochs
           PROVE  /\ Held(c)' \cap Entries(down'[d]) = {}
                  /\ d # c => Held(c)' \cap Held(d)' = {} /\ Entries(down'[c]) \cap Entries(down'[d]) = {}
      <4>1. /\ Held(c) \cap Entries(down[d]) = {}
            /\ d # c => Held(c) \cap Held(d) = {} /\ Entries(down[c]) \cap Entries(down[d]) = {}
        BY Zenon DEF UpdateInv
      <4>2. /\ Held(c)' = Held(c) /\ Held(d)' = Held(d) /\ n \notin Held(c)
            /\ n \notin Entries(down[c]) /\ n \notin Entries(down[d])
        BY <3>7, <3>8, Zenon
      <4>3. /\ Entries(down'[c]) \subseteq Entries(down[c]) \cup {n} /\ (c # e => Entries(down'[c]) = Entries(down[c]))
            /\ Entries(down'[d]) \subseteq Entries(down[d]) \cup {n} /\ (d # e => Entries(down'[d]) = Entries(down[d]))
        BY <3>5, Zenon
      <4> QED BY <4>1, <4>2, <4>3, Zenon
    <3> QED BY <3>5, <3>6, <3>7, <3>9, <3>10, Zenon DEF UpdateInv
  <2> QED
    BY <1>2, <2>4, <2>5, <2>6, <2>7, <2>8, <2>9, <2>10, <2>11, Zenon DEF Next, Connect, Loop, Control
<1> QED BY <1>1, <1>2, SeqInvariant, PTL DEF Spec

\* Whatever goroutines of earlier connections still hold, an update is applied at
\* most once: connect is left at most once for each filter that central sends.
THEOREM UpdatesApplyOnce == Spec => []UpdateAppliedOnce
<1>1. ASSUME UpdateInv PROVE UpdateAppliedOnce
  <2>1. applied \in Seq(Nat) /\ filterCh \in Seq(Nat)
    BY <1>1, Zenon DEF UpdateInv
  <2>2. Distinct(applied \o filterCh) /\ Entries(applied \o filterCh) = Entries(applied) \cup Entries(filterCh)
    BY <1>1, <2>1, EntriesConcat, Zenon DEF UpdateInv
  <2>3. \A e \in Epochs : ctlHand[e] # 0 => ctlHand[e] \in Held(e)
    BY Zenon DEF Held
  <2>4. \A e \in Epochs : ctlHand[e] # 0 => ctlHand[e] \notin Entries(applied \o filterCh)
    BY <1>1, <2>2, <2>3, Zenon DEF UpdateInv
  <2> QED BY <2>2, <2>4, Zenon DEF UpdateAppliedOnce, Distinct
<1> QED BY <1>1, UpdateInvariant, PTL
============================================================================

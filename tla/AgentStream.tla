---------------------------- MODULE AgentStream ----------------------------
(***************************************************************************)
(* One capture agent streaming to central over a sequence of connections:  *)
(* the loops of AgentStreamer.Run and connect, the goroutine that reads    *)
(* filter updates, the connection in both directions, and the handler at   *)
(* central that feeds received packets into a session.  A packet and a     *)
(* filter are the number in which they were captured or sent.              *)
(***************************************************************************)
EXTENDS Naturals, Sequences, FiniteSets

CONSTANTS
    MaxEpochs,   \* bound on connections
    MaxPackets,  \* bound on packets captured
    MaxFilters,  \* bound on filter updates central sends
    MaxInputs,   \* bound on packets and filter updates together
    MaxBreaks,   \* bound on connections that break
    MaxBeats,    \* bound on the batches of a connection
    PktCap,      \* capacity of pktCh
    BatchSize,   \* maxBatchSize
    FilterCap,   \* capacity of AgentStreamer.filterCh
    SessionCap   \* capacity of the session's packet channel at central

ASSUME StreamConstants ==
    /\ {MaxEpochs, MaxPackets, MaxFilters, MaxInputs, MaxBreaks, MaxBeats} \subseteq Nat
    /\ {PktCap, BatchSize, FilterCap, SessionCap} \subseteq Nat \ {0}

Epochs == 1..MaxEpochs

VARIABLES
    apc,        \* where the agent is: Run, or a step of connect
    cancelled,  \* the context of Run is done
    epoch,      \* the latest connection, 0 before the first
    captured,   \* packets read from the source so far
    pktCh,      \* packets read and not yet batched
    readErr,    \* readErrCh holds an error
    batch,      \* the batch being filled
    seq,        \* number of the next batch
    filter,     \* currentFilter
    applied,    \* the filters applied, in order (history)
    filterCh,   \* AgentStreamer.filterCh, shared by all connections
    ctl,        \* per connection: the goroutine that reads filter updates
    ctlHand,    \* the update it has read, 0 for none
    ctrlErr,    \* per connection: ctrlErrCh holds an error
    link,       \* state of a connection
    closed,     \* connections the agent has closed
    up, down,   \* batches and filter updates on their way
    nfilters,   \* filter updates central has sent
    handler,    \* the handler of a connection at central
    received,   \* batches it has received
    hand,       \* packets of the batch it has yet to pass on
    session,    \* the packet channel of its session
    analysed    \* packets its session has taken, in order

source == <<captured, pktCh, readErr>>
agent == <<batch, seq, filter, applied>>
control == <<filterCh, ctl, ctlHand, ctrlErr>>
wire == <<link, closed, up, down>>
central == <<nfilters, handler, received, hand, session, analysed>>
vars == <<apc, cancelled, epoch, captured, pktCh, readErr, batch, seq, filter, applied,
          filterCh, ctl, ctlHand, ctrlErr, link, closed, up, down,
          nfilters, handler, received, hand, session, analysed>>

Init ==
    /\ apc = "run" /\ cancelled = FALSE /\ epoch = 0
    /\ captured = 0 /\ pktCh = << >> /\ readErr = FALSE
    /\ batch = << >> /\ seq = 0 /\ filter = 0 /\ applied = << >>
    /\ filterCh = << >>
    /\ ctl = [e \in Epochs |-> "none"]
    /\ ctlHand = [e \in Epochs |-> 0]
    /\ ctrlErr = [e \in Epochs |-> FALSE]
    /\ link = [e \in Epochs |-> "none"]
    /\ closed = {}
    /\ up = [e \in Epochs |-> << >>] /\ down = [e \in Epochs |-> << >>]
    /\ nfilters = 0
    /\ handler = [e \in Epochs |-> "none"]
    /\ received = [e \in Epochs |-> 0]
    /\ hand = [e \in Epochs |-> << >>]
    /\ session = [e \in Epochs |-> << >>] /\ analysed = [e \in Epochs |-> << >>]

----------------------------------------------------------------------------
(* Run and the beginning of connect. *)

Cancel ==
    /\ ~cancelled /\ cancelled' = TRUE
    /\ UNCHANGED <<apc, epoch, source, agent, control, wire, central>>

\* Run: the head of its loop, and the pause after an error.
Run ==
    /\ \/ apc = "run" /\ apc' = IF cancelled THEN "ended" ELSE "dial"
       \/ apc = "wait" /\ apc' = IF cancelled THEN "ended" ELSE "run"
    /\ UNCHANGED <<cancelled, epoch, source, agent, control, wire, central>>

\* The source cannot be opened, or central cannot be reached.
DialFails ==
    /\ apc = "dial" /\ apc' = "wait"
    /\ UNCHANGED <<cancelled, epoch, source, agent, control, wire, central>>

\* The source is open, central accepts, the handshake is written.
Dial ==
    /\ apc = "dial" /\ epoch < MaxEpochs
    /\ epoch' = epoch + 1
    /\ link' = [link EXCEPT ![epoch + 1] = "open"]
    /\ handler' = [handler EXCEPT ![epoch + 1] = "handshake"]
    /\ apc' = "ack"
    /\ UNCHANGED <<cancelled, source, agent, control, closed, up, down,
                   nfilters, received, hand, session, analysed>>

\* Central rejects the agent, or the connection breaks before the ack is read;
\* the read has no deadline, so nothing else ends it.
AckFails ==
    /\ apc = "ack" /\ apc' = "wait"
    /\ handler[epoch] = "done" \/ link[epoch] = "broken"
    /\ closed' = closed \cup {epoch}
    /\ UNCHANGED <<cancelled, epoch, source, agent, control, link, up, down, central>>

\* The ack is read: the locals of connect and its two goroutines start.
Accepted ==
    /\ apc = "ack" /\ handler[epoch] = "receive"
    /\ apc' = "loop"
    /\ ctl' = [ctl EXCEPT ![epoch] = "read"]
    /\ pktCh' = << >> /\ readErr' = FALSE /\ batch' = << >> /\ seq' = 0
    /\ UNCHANGED <<cancelled, epoch, captured, filter, applied, filterCh, ctlHand,
                   ctrlErr, wire, central>>

----------------------------------------------------------------------------
(* The goroutines of connect. *)

\* The packet reader: a packet is dropped when pktCh is full.
ReadPacket ==
    /\ apc = "loop" /\ ~readErr /\ captured < MaxPackets
    /\ captured + nfilters < MaxInputs
    /\ captured' = captured + 1
    /\ pktCh' = IF Len(pktCh) < PktCap THEN Append(pktCh, captured + 1) ELSE pktCh
    /\ UNCHANGED <<apc, cancelled, epoch, readErr, agent, control, wire, central>>

ReadPacketFails ==
    /\ apc = "loop" /\ ~readErr /\ readErr' = TRUE
    /\ UNCHANGED <<apc, cancelled, epoch, captured, pktCh, agent, control, wire, central>>

\* The control goroutine reads a filter update.
ReadUpdate(e) ==
    /\ ctl[e] = "read" /\ e \notin closed /\ down[e] # << >>
    /\ ctlHand' = [ctlHand EXCEPT ![e] = Head(down[e])]
    /\ down' = [down EXCEPT ![e] = Tail(@)]
    /\ ctl' = [ctl EXCEPT ![e] = "push"]
    /\ UNCHANGED <<apc, cancelled, epoch, source, agent, filterCh, ctrlErr,
                   link, closed, up, central>>

\* It hands the update to whichever connect reads filterCh; when that is full
\* the update is dropped.
PushUpdate(e) ==
    /\ ctl[e] = "push"
    /\ filterCh' = IF Len(filterCh) < FilterCap THEN Append(filterCh, ctlHand[e]) ELSE filterCh
    /\ ctlHand' = [ctlHand EXCEPT ![e] = 0]
    /\ ctl' = [ctl EXCEPT ![e] = "read"]
    /\ UNCHANGED <<apc, cancelled, epoch, source, agent, ctrlErr, wire, central>>

\* Its read fails, as either end has closed the connection or it is broken; the
\* error always fits into ctrlErrCh.
ReadUpdateFails(e) ==
    /\ ctl[e] = "read"
    /\ \/ e \in closed
       \/ link[e] = "broken" /\ down[e] = << >>
       \/ handler[e] = "done" /\ down[e] = << >>
    /\ ctrlErr' = [ctrlErr EXCEPT ![e] = TRUE]
    /\ ctl' = [ctl EXCEPT ![e] = "done"]
    /\ UNCHANGED <<apc, cancelled, epoch, source, agent, filterCh, ctlHand, wire, central>>

----------------------------------------------------------------------------
(* The select loop of connect. *)

\* writeBatch puts the batch on the wire, if the connection still takes it; one
\* written to a broken connection may be lost without an error.
Written(b) ==
    up' = IF link[epoch] = "open" /\ handler[epoch] # "done"
          THEN [up EXCEPT ![epoch] = Append(@, [seq |-> seq, packets |-> b])] ELSE up

\* The bound on batches of a connection.
MayWrite == seq < MaxBeats

MayFail == link[epoch] = "broken" \/ handler[epoch] = "done"

\* Mutant: a sent batch is not emptied.
FlushKeeping(force) ==
    \/ batch = << >> /\ ~force /\ UNCHANGED <<up, batch, seq>>
    \/ /\ batch # << >> \/ force
       /\ MayWrite /\ Written(batch)
       /\ seq' = seq + 1
       /\ UNCHANGED batch

\* flush, when it succeeds; forced for a heartbeat.
Flush(force) ==
    \/ batch = << >> /\ ~force /\ UNCHANGED <<up, batch, seq>>
    \/ /\ batch # << >> \/ force
       /\ MayWrite /\ Written(batch)
       /\ seq' = seq + 1
       /\ batch' = << >>

\* connect returns: the deferred closes discard what is unread, and the locals
\* are gone.
Leave(next) ==
    /\ apc' = next
    /\ closed' = closed \cup {epoch}
    /\ down' = [down EXCEPT ![epoch] = << >>]
    /\ pktCh' = << >> /\ readErr' = FALSE /\ batch' = << >> /\ seq' = 0

\* The last flush of connect, whose error is ignored.
LastFlush ==
    IF batch = << >> THEN UNCHANGED up ELSE Written(batch)

\* Mutant: the select does not wait for the context.
LoopEndsDeaf ==
    /\ apc = "loop"
    /\ LastFlush
    /\ readErr \/ ctrlErr[epoch]
    /\ Leave("wait")
    /\ UNCHANGED <<cancelled, epoch, captured, filter, applied, control, link, central>>

\* connect ends: the context is done, the source or the control channel failed.
LoopEnds ==
    /\ apc = "loop"
    /\ LastFlush
    /\ \/ cancelled /\ Leave("run")
       \/ readErr /\ Leave("wait")
       \/ ctrlErr[epoch] /\ Leave("wait")
    /\ UNCHANGED <<cancelled, epoch, captured, filter, applied, control, link, central>>

\* Mutant: the filter is left in the channel for the next connect.
NewFilterRequeued ==
    /\ apc = "loop" /\ filterCh # << >>
    /\ LastFlush
    /\ filter' = Head(filterCh)
    /\ applied' = Append(applied, Head(filterCh))
    /\ Leave("run")
    /\ UNCHANGED <<cancelled, epoch, captured, control, link, central>>

\* A new filter: connect returns and Run connects again with it.
NewFilter ==
    /\ apc = "loop" /\ filterCh # << >>
    /\ LastFlush
    /\ filter' = Head(filterCh)
    /\ applied' = Append(applied, Head(filterCh))
    /\ filterCh' = Tail(filterCh)
    /\ Leave("run")
    /\ UNCHANGED <<cancelled, epoch, captured, ctl, ctlHand, ctrlErr, link, central>>

\* A packet goes into the batch, which is sent when it is full.
BatchPacket ==
    /\ apc = "loop" /\ pktCh # << >>
    /\ pktCh' = Tail(pktCh)
    /\ LET b == Append(batch, Head(pktCh)) IN
       IF Len(b) < BatchSize
       THEN batch' = b /\ UNCHANGED <<up, seq>>
       ELSE MayWrite /\ Written(b) /\ seq' = seq + 1 /\ batch' = << >>
    /\ UNCHANGED <<apc, cancelled, epoch, captured, readErr, filter, applied, control,
                   link, closed, down, central>>

\* The tick of the batch interval, or of the heartbeat.
Tick(force) ==
    /\ apc = "loop"
    /\ Flush(force)
    /\ UNCHANGED <<apc, cancelled, epoch, source, filter, applied, control,
                   link, closed, down, central>>

\* A flush of the loop fails: connect returns the error.
SendFails ==
    /\ apc = "loop" /\ MayFail
    /\ Leave("wait")
    /\ UNCHANGED <<cancelled, epoch, captured, filter, applied, control, link, up, central>>

----------------------------------------------------------------------------
(* The connection and central. *)

\* A connection breaks: of what is on its way, in each direction, any prefix
\* still arrives.
Break(e) ==
    /\ link[e] = "open" /\ (e \notin closed \/ handler[e] # "done")
    /\ Cardinality({d \in Epochs : link[d] = "broken"}) < MaxBreaks
    /\ link' = [link EXCEPT ![e] = "broken"]
    /\ \E m \in 0..Len(up[e]), n \in 0..Len(down[e]) :
        /\ up' = [up EXCEPT ![e] = SubSeq(@, 1, m)]
        /\ down' = [down EXCEPT ![e] = SubSeq(@, 1, n)]
    /\ UNCHANGED <<apc, cancelled, epoch, source, agent, control, closed, central>>

\* handleAgent: the handshake is read and answered; the answer is a rejection,
\* after which the handler ends, when the token is wrong or no session starts.
Handshake(e) ==
    /\ handler[e] = "handshake" /\ link[e] = "open"
    /\ \E answer \in {"receive", "done"} : handler' = [handler EXCEPT ![e] = answer]
    /\ UNCHANGED <<apc, cancelled, epoch, source, agent, control, wire,
                   nfilters, received, hand, session, analysed>>

\* The filter forwarder of a connection writes an update.
SendUpdate(e) ==
    /\ handler[e] = "receive" /\ nfilters < MaxFilters
    /\ captured + nfilters < MaxInputs
    /\ nfilters' = nfilters + 1
    /\ down' = IF link[e] = "open" /\ e \notin closed
             THEN [down EXCEPT ![e] = Append(@, nfilters + 1)] ELSE down
    /\ UNCHANGED <<apc, cancelled, epoch, source, agent, control, link, closed, up,
                   handler, received, hand, session, analysed>>

\* A batch is read.  The registry entry it updates is the state of AgentRegistry.
Receive(e) ==
    /\ handler[e] = "receive" /\ hand[e] = << >> /\ up[e] # << >>
    /\ hand' = [hand EXCEPT ![e] = Head(up[e]).packets]
    /\ received' = [received EXCEPT ![e] = @ + 1]
    /\ up' = [up EXCEPT ![e] = Tail(@)]
    /\ UNCHANGED <<apc, cancelled, epoch, source, agent, control, link, closed, down,
                   nfilters, handler, session, analysed>>

\* Its next packet goes to the session, or is dropped when the channel is full.
Deliver(e) ==
    /\ hand[e] # << >>
    /\ hand' = [hand EXCEPT ![e] = Tail(@)]
    /\ session' = IF Len(session[e]) < SessionCap
                  THEN [session EXCEPT ![e] = Append(@, Head(hand[e]))] ELSE session
    /\ UNCHANGED <<apc, cancelled, epoch, source, agent, control, wire,
                   nfilters, handler, received, analysed>>

\* A batch is beyond maxMsgSize: the handler stops the session and ends.
ReceiveFails(e) ==
    /\ handler[e] = "receive" /\ hand[e] = << >> /\ up[e] # << >>
    /\ Head(up[e]).packets # << >>
    /\ handler' = [handler EXCEPT ![e] = "done"]
    /\ up' = [up EXCEPT ![e] = << >>]
    /\ UNCHANGED <<apc, cancelled, epoch, source, agent, control, link, closed, down,
                   nfilters, received, hand, session, analysed>>

\* The connection ends after what has arrived, and so does the handler.
HandlerEnds(e) ==
    /\ handler[e] \in {"handshake", "receive"} /\ hand[e] = << >> /\ up[e] = << >>
    /\ e \in closed \/ link[e] = "broken"
    /\ handler' = [handler EXCEPT ![e] = "done"]
    /\ UNCHANGED <<apc, cancelled, epoch, source, agent, control, wire,
                   nfilters, received, hand, session, analysed>>

\* The capture worker of the session takes a packet.  Once the session is
\* stopped its select may still take some, or none.
Analyse(e) ==
    /\ session[e] # << >>
    /\ analysed' = [analysed EXCEPT ![e] = Append(@, Head(session[e]))]
    /\ session' = [session EXCEPT ![e] = Tail(@)]
    /\ UNCHANGED <<apc, cancelled, epoch, source, agent, control, wire,
                   nfilters, handler, received, hand>>

----------------------------------------------------------------------------
Connect == Run \/ DialFails \/ Dial \/ AckFails \/ Accepted
Loop == LoopEnds \/ NewFilter \/ BatchPacket \/ Tick(FALSE) \/ Tick(TRUE) \/ SendFails
Control(e) == ReadUpdate(e) \/ PushUpdate(e) \/ ReadUpdateFails(e)
Handler(e) == Handshake(e) \/ Receive(e) \/ Deliver(e) \/ HandlerEnds(e)

Next ==
    \/ Cancel \/ Connect \/ Loop \/ ReadPacket \/ ReadPacketFails
    \/ \E e \in Epochs : \/ Control(e) \/ Handler(e) \/ ReceiveFails(e)
                        \/ Analyse(e) \/ SendUpdate(e) \/ Break(e)

Spec == Init /\ [][Next]_vars

\* Run, the goroutines and the handlers are scheduled, and a dial ends within
\* its timeout.  A select that always finds a reason to leave takes it: select
\* picks at random among what is ready.
FairSpec ==
    /\ Spec
    /\ WF_vars(Connect)
    /\ WF_vars(LoopEnds)
    /\ \A e \in Epochs : WF_vars(Control(e)) /\ WF_vars(Handler(e))

----------------------------------------------------------------------------
(* Properties. *)

Entries(s) == {s[i] : i \in 1..Len(s)}
Ascending(s) == \A i, j \in 1..Len(s) : i < j => s[i] < s[j]
Precede(S, T) == \A m \in S, n \in T : m < n

\* The packets of connection e that are past the agent's batch, stage by stage,
\* the furthest first.
Stages(e) == <<analysed[e], session[e], hand[e]>> \o [i \in 1..Len(up[e]) |-> up[e][i].packets]

\* A packet is streamed at most once and in the order of capture, across
\* reconnections, failed writes and drops on either side.
AtMostOnceInOrder ==
    /\ Ascending(batch \o pktCh)
    /\ \A e \in Epochs : \A k \in 1..Len(Stages(e)) :
        /\ Ascending(Stages(e)[k])
        /\ Precede(Entries(Stages(e)[k]), Entries(batch \o pktCh))
        /\ \A d \in Epochs : \A l \in 1..Len(Stages(d)) : (e < d \/ (e = d /\ k < l)) =>
            Precede(Entries(Stages(e)[k]), Entries(Stages(d)[l]))

\* The batches of a connection arrive numbered 0, 1, 2, ..., heartbeats
\* included, so that SeqNum counts the batches central has received.
SeqCountsBatches ==
    \A e \in Epochs : \A i \in 1..Len(up[e]) : up[e][i].seq = received[e] + i - 1

\* A filter update makes the agent reconnect at most once: no update is applied
\* again by a later connection or by the goroutine of an earlier one.
UpdateAppliedOnce ==
    /\ \A i, j \in 1..Len(applied \o filterCh) : i # j => (applied \o filterCh)[i] # (applied \o filterCh)[j]
    /\ \A e \in Epochs : ctlHand[e] # 0 => ctlHand[e] \notin Entries(applied \o filterCh)

\* Run returns when its context is done, wherever connect is.
CancelEnds == cancelled ~> (apc = "ended")

=============================================================================

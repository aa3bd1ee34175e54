------------------------------- MODULE WSHub -------------------------------
(***************************************************************************)
(* The WebSocket hub (internal/ws): the hub's event loop, HandleWS, the    *)
(* read and write pump of every client, and Broadcast, which the capture   *)
(* path calls.  A message is abstracted to its place in the sequence of    *)
(* messages the broadcast channel accepted.                                *)
(*                                                                         *)
(* Commands a client sends (OnCommand) and successful pings change nothing *)
(* here.  The hub's loop over the clients is one step: only the hub sends  *)
(* to, closes or forgets a client, and a pump that receives meanwhile      *)
(* might as well have received before.                                     *)
(***************************************************************************)
EXTENDS Integers, Sequences

CONSTANTS
  Clients,        \* connections that may be made
  BroadcastCap,   \* capacity of Hub.broadcast
  SendCap,        \* capacity of Client.send
  MaxMessages     \* bound: messages accepted by Hub.broadcast

ASSUME HubConstants == {BroadcastCap, SendCap, MaxMessages} \subseteq Nat \ {0}

VARIABLES
  clients,    \* Hub.clients
  broadcast,  \* Hub.broadcast
  accepted,   \* messages broadcast has accepted
  delivered,  \* messages the hub has taken from broadcast
  hpc,        \* HandleWS of each client
  rpc, wpc,   \* ReadPump and WritePump of each client
  conn,       \* Client.conn
  send,       \* Client.send
  closes,     \* how often Client.send has been closed
  written     \* messages written to Client.conn

vars == <<clients, broadcast, accepted, delivered, hpc, rpc, wpc, conn, send, closes, written>>

TypeOK ==
  /\ clients \subseteq Clients
  /\ broadcast \in Seq(Nat) /\ accepted \in Nat /\ delivered \in Nat
  /\ hpc \in [Clients -> {"idle", "register", "done"}]
  /\ rpc \in [Clients -> {"none", "read", "unregister", "close", "done"}]
  /\ wpc \in [Clients -> {"none", "select", "done"}]
  /\ conn \in [Clients -> {"none", "open", "broken", "closed"}]
  /\ send \in [Clients -> Seq(Nat)] /\ \A c \in Clients : Len(send[c]) <= SendCap
  /\ closes \in [Clients -> Nat]
  /\ written \in [Clients -> Seq(Nat)]

Init ==
  /\ clients = {}
  /\ broadcast = << >> /\ accepted = 0 /\ delivered = 0
  /\ hpc = [c \in Clients |-> "idle"]
  /\ rpc = [c \in Clients |-> "none"]
  /\ wpc = [c \in Clients |-> "none"]
  /\ conn = [c \in Clients |-> "none"]
  /\ send = [c \in Clients |-> << >>]
  /\ closes = [c \in Clients |-> 0]
  /\ written = [c \in Clients |-> << >>]

-----------------------------------------------------------------------------
(* Broadcast: a full channel drops the message.                            *)
Broadcast ==
  /\ accepted < MaxMessages
  /\ Len(broadcast) < BroadcastCap
  /\ broadcast' = Append(broadcast, accepted + 1)
  /\ accepted' = accepted + 1
  /\ UNCHANGED <<clients, delivered, hpc, rpc, wpc, conn, send, closes, written>>

(* HandleWS upgrades the connection and offers the client to the hub.      *)
Upgrade(c) ==
  /\ hpc[c] = "idle"
  /\ hpc' = [hpc EXCEPT ![c] = "register"]
  /\ conn' = [conn EXCEPT ![c] = "open"]
  /\ UNCHANGED <<clients, broadcast, accepted, delivered, rpc, wpc, send, closes, written>>

(* The peer goes away, the network fails, or no pong comes in time.        *)
Break(c) ==
  /\ conn[c] = "open"
  /\ conn' = [conn EXCEPT ![c] = "broken"]
  /\ UNCHANGED <<clients, broadcast, accepted, delivered, hpc, rpc, wpc, send, closes, written>>

-----------------------------------------------------------------------------
(* Hub.Run: one action per case of its select.                             *)

Register(c) ==
  /\ hpc[c] = "register"
  /\ clients' = clients \cup {c}
  /\ hpc' = [hpc EXCEPT ![c] = "done"]
  /\ rpc' = [rpc EXCEPT ![c] = "read"] /\ wpc' = [wpc EXCEPT ![c] = "select"]
  /\ UNCHANGED <<broadcast, accepted, delivered, conn, send, closes, written>>

\* Mutant: unregister closes the channel and leaves the client in the map.
UnregisterKeeps(c) ==
  /\ rpc[c] = "unregister"
  /\ rpc' = [rpc EXCEPT ![c] = "close"]
  /\ closes' = IF c \in clients THEN [closes EXCEPT ![c] = @ + 1] ELSE closes
  /\ UNCHANGED <<clients, broadcast, accepted, delivered, hpc, wpc, conn, send, written>>

\* The rendezvous with ReadPump's deferred send on Hub.unregister.
Unregister(c) ==
  /\ rpc[c] = "unregister"
  /\ rpc' = [rpc EXCEPT ![c] = "close"]
  /\ clients' = clients \ {c}
  /\ closes' = IF c \in clients THEN [closes EXCEPT ![c] = @ + 1] ELSE closes
  /\ UNCHANGED <<broadcast, accepted, delivered, hpc, wpc, conn, send, written>>

\* Clients whose channel is full when a message is delivered are evicted.
Full == {c \in clients : Len(send[c]) >= SendCap}

\* Mutant: a client whose channel is full misses the message and stays.
DeliverSkips ==
  /\ broadcast # << >>
  /\ broadcast' = Tail(broadcast) /\ delivered' = Head(broadcast)
  /\ send' = [c \in Clients |-> IF c \in clients \ Full THEN Append(send[c], Head(broadcast))
                                                        ELSE send[c]]
  /\ UNCHANGED <<clients, accepted, closes, hpc, rpc, wpc, conn, written>>

Deliver ==
  /\ broadcast # << >>
  /\ broadcast' = Tail(broadcast) /\ delivered' = Head(broadcast)
  /\ send' = [c \in Clients |-> IF c \in clients \ Full THEN Append(send[c], Head(broadcast))
                                                        ELSE send[c]]
  /\ closes' = [c \in Clients |-> IF c \in Full THEN closes[c] + 1 ELSE closes[c]]
  /\ clients' = clients \ Full
  /\ UNCHANGED <<accepted, hpc, rpc, wpc, conn, written>>

-----------------------------------------------------------------------------
(* Client.ReadPump.                                                        *)

\* ReadMessage fails on a connection that is broken or closed.
ReadError(c) ==
  /\ rpc[c] = "read" /\ conn[c] # "open"
  /\ rpc' = [rpc EXCEPT ![c] = "unregister"]
  /\ UNCHANGED <<clients, broadcast, accepted, delivered, hpc, wpc, conn, send, closes, written>>

ReadClose(c) ==
  /\ rpc[c] = "close"
  /\ rpc' = [rpc EXCEPT ![c] = "done"]
  /\ conn' = [conn EXCEPT ![c] = "closed"]
  /\ UNCHANGED <<clients, broadcast, accepted, delivered, hpc, wpc, send, closes, written>>

-----------------------------------------------------------------------------
(* Client.WritePump; its deferred call closes the connection.              *)

WriteEnds(c) ==
  /\ wpc' = [wpc EXCEPT ![c] = "done"]
  /\ conn' = [conn EXCEPT ![c] = "closed"]

WriteMessage(c) ==
  /\ wpc[c] = "select" /\ send[c] # << >> /\ conn[c] # "closed"
  /\ send' = [send EXCEPT ![c] = Tail(@)]
  /\ written' = [written EXCEPT ![c] = Append(@, Head(send[c]))]
  /\ UNCHANGED <<clients, broadcast, accepted, delivered, hpc, rpc, wpc, conn, closes>>

\* Also an open connection can fail to take a message before writeWait.
WriteError(c) ==
  /\ wpc[c] = "select" /\ send[c] # << >>
  /\ send' = [send EXCEPT ![c] = Tail(@)]
  /\ WriteEnds(c)
  /\ UNCHANGED <<clients, broadcast, accepted, delivered, hpc, rpc, closes, written>>

WriteClose(c) ==
  /\ wpc[c] = "select" /\ send[c] = << >> /\ closes[c] > 0
  /\ WriteEnds(c)
  /\ UNCHANGED <<clients, broadcast, accepted, delivered, hpc, rpc, send, closes, written>>

PingError(c) ==
  /\ wpc[c] = "select" /\ conn[c] # "open"
  /\ WriteEnds(c)
  /\ UNCHANGED <<clients, broadcast, accepted, delivered, hpc, rpc, send, closes, written>>

-----------------------------------------------------------------------------
Hub == Deliver \/ \E c \in Clients : Register(c) \/ Unregister(c)

ReadPump(c) == ReadError(c) \/ ReadClose(c)

WritePump(c) == WriteMessage(c) \/ WriteError(c) \/ WriteClose(c) \/ PingError(c)

Next ==
  \/ Broadcast
  \/ Hub
  \/ \E c \in Clients : Upgrade(c) \/ Break(c) \/ ReadPump(c) \/ WritePump(c)

Spec == Init /\ [][Next]_vars

\* Goroutines that can run are scheduled.  The hub's select does not starve a
\* goroutine that waits to register or unregister.  A ping is due every
\* pingPeriod, and a write ends within writeWait.
Fairness ==
  /\ WF_vars(Deliver)
  /\ \A c \in Clients :
       /\ WF_vars(Register(c)) /\ WF_vars(Unregister(c))
       /\ WF_vars(ReadPump(c))
       /\ WF_vars(WritePump(c))

FairSpec == Spec /\ Fairness

-----------------------------------------------------------------------------
(* Properties.                                                             *)

\* The hub never sends on a closed Client.send and never closes one twice,
\* either of which would panic the process: unregistering and evicting a
\* client race, and whichever comes second must find it gone.
SendOpen ==
  \A c \in Clients : closes[c] <= 1 /\ (c \in clients => closes[c] = 0)

Consecutive(s) == \A i \in 1 .. Len(s) - 1 : s[i + 1] = s[i] + 1

\* A client that cannot keep up is disconnected, it is never skipped: what is
\* written to its connection is an unbroken run of the accepted messages.
NoGap == \A c \in Clients : Consecutive(written[c])

\* Once it has received anything, a registered client with a live write pump
\* has been written, or still has queued, everything up to the message the
\* hub delivered last.
UpToDate ==
  \A c \in clients :
    LET s == written[c] \o send[c] IN
    wpc[c] = "select" /\ s # << >> => s[Len(s)] = delivered /\ Consecutive(s)

\* A connection that breaks or is closed is forgotten by the hub, and both its
\* pumps end: no goroutine waits for a client that is gone.
GoneIsForgotten ==
  \A c \in Clients :
    (hpc[c] = "done" /\ conn[c] \in {"broken", "closed"})
      ~> (c \notin clients /\ rpc[c] = "done" /\ wpc[c] = "done")

=============================================================================

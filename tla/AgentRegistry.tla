--------------------------- MODULE AgentRegistry ---------------------------
(***************************************************************************)
(* The central side of agent streaming (internal/stream: central.go and    *)
(* registry.go): one handler and one filter forwarder per connection, the  *)
(* registry they share, the sessions they start and stop, SendFilter and   *)
(* the staleness checker.                                                  *)
(*                                                                         *)
(* The two maps of the registry, agents and filterChans, are assigned and  *)
(* deleted together; both are here the connection whose handler made the   *)
(* entry.  A filter is the number of the SendFilter call that carried it.  *)
(* What a batch contains is the subject of AgentStream.                    *)
(***************************************************************************)
EXTENDS Integers, Sequences, FiniteSets

CONSTANTS
  Conns,       \* the TCP connections central accepts
  Agents,      \* agent ids
  AgentOf,     \* the agent each connection comes from
  None,        \* no connection
  FilterCap,   \* capacity of a filter channel
  MaxFilters   \* bound: SendFilter calls

ASSUME RegistryConstants ==
  /\ AgentOf \in [Conns -> Agents] /\ None \notin Conns
  /\ FilterCap \in Nat \ {0} /\ MaxFilters \in Nat

VARIABLES
  overlap,     \* an agent may reconnect before its old handler has ended
  peer,        \* the agent's end of each connection
  hpc,         \* handleAgent
  sessions,    \* the status of each session in the capture engine
  registered,  \* registry: whose status and filter channel an agent has
  shown,       \* AgentStatus.CurrentFilter of each connection's entry
  batched,     \* entries whose LastBatchAt is set
  stale,       \* entries whose Stale is set
  filterCh,    \* the filter channel made by each connection's register
  closes,      \* how often that channel has been closed
  fpc, fch, fhand,  \* forwarder: program counter, its channel, filter in hand
  sent,        \* filters written to each connection
  calls        \* SendFilter calls so far

statusVars   == <<shown, batched, stale>>
registryVars == <<registered, statusVars, filterCh, closes>>
forwardVars  == <<fpc, fch, fhand, sent>>
vars == <<overlap, peer, hpc, sessions, registryVars, forwardVars, calls>>

SessionIDs == Agents \X Conns

\* The random suffix of a session id is as good as the connection itself.
SessionID(c) == <<AgentOf[c], c>>

TypeOK ==
  /\ overlap \in BOOLEAN
  /\ peer \in [Conns -> {"none", "up", "gone"}]
  /\ hpc \in [Conns -> {"none", "handshake", "ack", "register", "filterch", "loop", "stop",
                        "unregister", "close", "done"}]
  /\ sessions \in [SessionIDs -> {"none", "running", "stopped"}]
  /\ registered \in [Agents -> Conns \cup {None}]
  /\ shown \in [Conns -> Nat] /\ batched \subseteq Conns /\ stale \subseteq Conns
  /\ filterCh \in [Conns -> Seq(Nat)] /\ \A c \in Conns : Len(filterCh[c]) <= FilterCap
  /\ closes \in [Conns -> Nat]
  /\ fpc \in [Conns -> {"none", "range", "write", "done"}]
  /\ fch \in [Conns -> Conns \cup {None}]
  /\ fhand \in [Conns -> Nat]
  /\ sent \in [Conns -> Seq(Nat)]
  /\ calls \in Nat

\* Whether connections of an agent overlap is fixed once and for all.
Init ==
  /\ overlap \in BOOLEAN
  /\ peer = [c \in Conns |-> "none"]
  /\ hpc = [c \in Conns |-> "none"]
  /\ sessions = [s \in SessionIDs |-> "none"]
  /\ registered = [a \in Agents |-> None]
  /\ shown = [c \in Conns |-> 0] /\ batched = {} /\ stale = {}
  /\ filterCh = [c \in Conns |-> << >>]
  /\ closes = [c \in Conns |-> 0]
  /\ fpc = [c \in Conns |-> "none"] /\ fch = [c \in Conns |-> None]
  /\ fhand = [c \in Conns |-> 0] /\ sent = [c \in Conns |-> << >>]
  /\ calls = 0

-----------------------------------------------------------------------------
(* The agents.                                                             *)

Ended(c) == hpc[c] \in {"none", "done"}

\* An agent connects; accept starts a handler.
Connect(c) ==
  /\ peer[c] = "none"
  /\ overlap \/ \A d \in Conns \ {c} : AgentOf[d] = AgentOf[c] => Ended(d)
  /\ peer' = [peer EXCEPT ![c] = "up"] /\ hpc' = [hpc EXCEPT ![c] = "handshake"]
  /\ UNCHANGED <<sessions, registryVars, forwardVars, calls>>

\* The agent disconnects or is lost.
PeerGone(c) ==
  /\ peer[c] = "up"
  /\ peer' = [peer EXCEPT ![c] = "gone"]
  /\ UNCHANGED <<hpc, sessions, registryVars, forwardVars, calls>>

-----------------------------------------------------------------------------
(* CentralReceiver.handleAgent.                                            *)

\* No handshake, or one with a wrong token.
Reject(c) ==
  /\ hpc[c] = "handshake"
  /\ hpc' = [hpc EXCEPT ![c] = "close"]
  /\ UNCHANGED <<peer, sessions, registryVars, forwardVars, calls>>

\* The handshake is read and StartVirtualCapture publishes a new session.
StartSession(c) ==
  /\ hpc[c] = "handshake"
  /\ sessions' = [sessions EXCEPT ![SessionID(c)] = "running"]
  /\ hpc' = [hpc EXCEPT ![c] = "ack"]
  /\ UNCHANGED <<peer, registryVars, forwardVars, calls>>

StopSession(c) == sessions' = [sessions EXCEPT ![SessionID(c)] = "stopped"]

AckFails(c) ==
  /\ hpc[c] = "ack" /\ peer[c] = "gone"
  /\ StopSession(c)
  /\ hpc' = [hpc EXCEPT ![c] = "close"]
  /\ UNCHANGED <<peer, registryVars, forwardVars, calls>>

Ack(c) ==
  /\ hpc[c] = "ack"
  /\ hpc' = [hpc EXCEPT ![c] = "register"]
  /\ UNCHANGED <<peer, sessions, registryVars, forwardVars, calls>>

\* Mutant: the handler does not register.
RegisterSkipped(c) ==
  /\ hpc[c] = "register"
  /\ hpc' = [hpc EXCEPT ![c] = "filterch"]
  /\ UNCHANGED <<peer, sessions, registryVars, forwardVars, calls>>

\* AgentRegistry.register replaces whatever the agent id has.
Register(c) ==
  /\ hpc[c] = "register"
  /\ registered' = [registered EXCEPT ![AgentOf[c]] = c]
  /\ hpc' = [hpc EXCEPT ![c] = "filterch"]
  /\ UNCHANGED <<peer, sessions, statusVars, filterCh, closes, forwardVars, calls>>

\* AgentRegistry.FilterCh looks the channel up again; the forwarder starts.
FilterCh(c) ==
  /\ hpc[c] = "filterch"
  /\ fch' = [fch EXCEPT ![c] = registered[AgentOf[c]]]
  /\ fpc' = [fpc EXCEPT ![c] = "range"]
  /\ hpc' = [hpc EXCEPT ![c] = "loop"]
  /\ UNCHANGED <<peer, sessions, registryVars, fhand, sent, calls>>

\* AgentRegistry.update: a batch counts for whoever holds the entry.
Batch(c) ==
  LET e == registered[AgentOf[c]] IN
  /\ hpc[c] = "loop" /\ e # None
  /\ batched' = batched \cup {e} /\ stale' = stale \ {e}
  /\ UNCHANGED <<peer, hpc, sessions, registered, shown, filterCh, closes, forwardVars, calls>>

\* The read fails: the agent is gone, or its batch exceeds maxMsgSize.
ReadFails(c) ==
  /\ hpc[c] = "loop"
  /\ hpc' = [hpc EXCEPT ![c] = "stop"]
  /\ UNCHANGED <<peer, sessions, registryVars, forwardVars, calls>>

\* Mutant: the handler returns without StopCapture.
StopCaptureForgotten(c) ==
  /\ hpc[c] = "stop"
  /\ hpc' = [hpc EXCEPT ![c] = "unregister"]
  /\ UNCHANGED <<peer, sessions, registryVars, forwardVars, calls>>

StopCapture(c) ==
  /\ hpc[c] = "stop"
  /\ StopSession(c)
  /\ hpc' = [hpc EXCEPT ![c] = "unregister"]
  /\ UNCHANGED <<peer, registryVars, forwardVars, calls>>

\* Mutant: unregister closes the channel and leaves it in the map.
UnregisterKeeps(c) ==
  LET e == registered[AgentOf[c]] IN
  /\ hpc[c] = "unregister"
  /\ closes' = IF e = None THEN closes ELSE [closes EXCEPT ![e] = @ + 1]
  /\ hpc' = [hpc EXCEPT ![c] = "close"]
  /\ UNCHANGED <<peer, sessions, registered, statusVars, filterCh, forwardVars, calls>>

\* The deferred AgentRegistry.unregister removes the entry of the agent id.
Unregister(c) ==
  LET e == registered[AgentOf[c]] IN
  /\ hpc[c] = "unregister"
  /\ registered' = [registered EXCEPT ![AgentOf[c]] = None]
  /\ closes' = IF e = None THEN closes ELSE [closes EXCEPT ![e] = @ + 1]
  /\ hpc' = [hpc EXCEPT ![c] = "close"]
  /\ UNCHANGED <<peer, sessions, statusVars, filterCh, forwardVars, calls>>

\* The deferred conn.Close; an agent still there loses the connection.
Close(c) ==
  /\ hpc[c] = "close"
  /\ hpc' = [hpc EXCEPT ![c] = "done"] /\ peer' = [peer EXCEPT ![c] = "gone"]
  /\ UNCHANGED <<sessions, registryVars, forwardVars, calls>>

-----------------------------------------------------------------------------
(* The forwarder.  Ranging over a nil channel blocks forever.              *)

\* Mutant: a filter is taken without leaving the channel.
RangePeeks(c) ==
  /\ fpc[c] = "range" /\ fch[c] # None
  /\ LET q == filterCh[fch[c]] IN q # << >> /\ fhand' = [fhand EXCEPT ![c] = Head(q)]
  /\ fpc' = [fpc EXCEPT ![c] = "write"]
  /\ UNCHANGED <<peer, hpc, sessions, registryVars, fch, sent, calls>>

Range(c) ==
  /\ fpc[c] = "range" /\ fch[c] # None
  /\ LET q == filterCh[fch[c]] IN
     /\ q # << >>
     /\ filterCh' = [filterCh EXCEPT ![fch[c]] = Tail(q)]
     /\ fhand' = [fhand EXCEPT ![c] = Head(q)]
  /\ fpc' = [fpc EXCEPT ![c] = "write"]
  /\ UNCHANGED <<peer, hpc, sessions, registered, statusVars, closes, fch, sent, calls>>

RangeEnds(c) ==
  /\ fpc[c] = "range" /\ fch[c] # None
  /\ filterCh[fch[c]] = << >> /\ closes[fch[c]] > 0
  /\ fpc' = [fpc EXCEPT ![c] = "done"]
  /\ UNCHANGED <<peer, hpc, sessions, registryVars, fch, fhand, sent, calls>>

\* A write to an agent that is gone may still succeed.
Write(c) ==
  /\ fpc[c] = "write" /\ hpc[c] # "done"
  /\ sent' = [sent EXCEPT ![c] = Append(@, fhand[c])]
  /\ fpc' = [fpc EXCEPT ![c] = "range"]
  /\ UNCHANGED <<peer, hpc, sessions, registryVars, fch, fhand, calls>>

WriteFails(c) ==
  /\ fpc[c] = "write" /\ peer[c] = "gone"
  /\ fpc' = [fpc EXCEPT ![c] = "done"]
  /\ UNCHANGED <<peer, hpc, sessions, registryVars, fch, fhand, sent, calls>>

-----------------------------------------------------------------------------
(* The HTTP API and the staleness checker.                                 *)

\* SendFilter shows the filter as current also when the channel is full.
SendFilter(a) ==
  LET e == registered[a] IN
  /\ calls < MaxFilters /\ e # None
  /\ calls' = calls + 1
  /\ shown' = [shown EXCEPT ![e] = calls']
  /\ filterCh' = IF Len(filterCh[e]) < FilterCap
                   THEN [filterCh EXCEPT ![e] = Append(@, calls')] ELSE filterCh
  /\ UNCHANGED <<peer, hpc, sessions, registered, batched, stale, closes, forwardVars>>

\* A tick that finds LastBatchAt set and older than StaleTimeout.
MarkStale(a) ==
  LET e == registered[a] IN
  /\ e \in batched
  /\ stale' = stale \cup {e}
  /\ UNCHANGED <<peer, hpc, sessions, registered, shown, batched, filterCh, closes, forwardVars, calls>>

-----------------------------------------------------------------------------
Handler(c) ==
  \/ Reject(c) \/ StartSession(c) \/ AckFails(c) \/ Ack(c) \/ Register(c) \/ FilterCh(c)
  \/ StopCapture(c) \/ Unregister(c) \/ Close(c)

Forwarder(c) == Range(c) \/ RangeEnds(c) \/ Write(c) \/ WriteFails(c)

Next ==
  /\ \/ \E c \in Conns : Connect(c) \/ PeerGone(c) \/ Handler(c) \/ Batch(c) \/ ReadFails(c)
                         \/ Forwarder(c)
     \/ \E a \in Agents : SendFilter(a) \/ MarkStale(a)
  /\ UNCHANGED overlap

Spec == Init /\ [][Next]_vars

\* Handlers and forwarders are scheduled, and the read of a connection whose
\* agent is gone fails (the listener keeps TCP connections alive).
Fairness ==
  \A c \in Conns :
    /\ WF_vars(Handler(c) /\ UNCHANGED overlap)
    /\ WF_vars(peer[c] = "gone" /\ ReadFails(c) /\ UNCHANGED overlap)
    /\ WF_vars(Forwarder(c) /\ UNCHANGED overlap)

FairSpec == Spec /\ Fairness

-----------------------------------------------------------------------------
(* Properties.                                                             *)

\* Neither unregister nor SendFilter panics: a filter channel is closed at
\* most once, and one in the registry is open, however the handlers of
\* several connections of one agent interleave.
ChannelSafe ==
  /\ \A c \in Conns : closes[c] <= 1
  /\ \A a \in Agents : registered[a] # None => closes[registered[a]] = 0

\* "preventing the deferred StopCapture of the old handler from accidentally
\* stopping the new session" (StartVirtualCapture): while a handler receives
\* batches its session runs.
SessionRuns ==
  \A c \in Conns :
    hpc[c] \in {"ack", "register", "filterch", "loop", "stop"} => sessions[SessionID(c)] = "running"

\* No filter reaches two connections or is repeated, and those of a
\* connection arrive in the order of the SendFilter calls.
FiltersInOrder ==
  /\ \A c \in Conns : \A i, j \in 1 .. Len(sent[c]) : i < j => sent[c][i] < sent[c][j]
  /\ \A c, d \in Conns : c # d =>
       \A i \in 1 .. Len(sent[c]), j \in 1 .. Len(sent[d]) : sent[c][i] # sent[d][j]

\* "List returns a snapshot of all currently-connected agents": an agent one
\* of whose connections is being served is in the registry.
ConnectedIsListed ==
  \A c \in Conns : hpc[c] = "loop" => registered[AgentOf[c]] # None

\* An agent that reconnects only after its old handler has ended is listed
\* while it is served.
ListedIfSingle == ~overlap => ConnectedIsListed

\* Then too, the filters accepted for a connection go to that connection: its
\* forwarder ranges over the channel that its own register made.
OwnChannel == ~overlap => \A c \in Conns : fpc[c] # "none" => fch[c] = c

\* The session of an agent that is gone is stopped, whatever its other
\* connections do.
GoneIsStopped ==
  \A c \in Conns : (peer[c] = "gone") ~> (sessions[SessionID(c)] # "running" /\ hpc[c] = "done")

=============================================================================

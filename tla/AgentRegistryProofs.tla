------------------------ MODULE AgentRegistryProofs ------------------------
(* Proofs about AgentRegistry, for every set of agents and connections.     *)
EXTENDS TLAPS, AgentRegistry

USE DEF statusVars, registryVars, forwardVars

LEMMA TailBound ==
  ASSUME NEW s \in Seq(Nat), s # << >>, NEW n \in Nat, Len(s) <= n
  PROVE  Head(s) \in Nat /\ Tail(s) \in Seq(Nat) /\ Len(Tail(s)) <= n
OBVIOUS

(* The type invariant holds in every reachable state; in particular no      *)
(* filter channel holds more than its capacity.                             *)
THEOREM RegistryTypeCorrect == Spec => []TypeOK
<1>1. Init => TypeOK
  BY RegistryConstants DEF Init, TypeOK, SessionIDs
<1>2. ASSUME TypeOK, [Next]_vars PROVE TypeOK'
  <2> USE <1>2 DEF TypeOK
  <2>0. overlap' \in BOOLEAN
    BY <1>2, Zenon DEF Next, vars
  <2> USE <2>0
  <2>1. ASSUME NEW c \in Conns PROVE SessionID(c) \in SessionIDs
    BY RegistryConstants, Zenon DEF SessionID, SessionIDs
  <2>2. ASSUME NEW c \in Conns, Connect(c) \/ PeerGone(c) \/ Reject(c) \/ Ack(c) \/ ReadFails(c) \/ Close(c)
        PROVE  TypeOK'
    <3>1. CASE Connect(c)
      BY <3>1, Zenon DEF Connect
    <3>2. CASE PeerGone(c)
      BY <3>2, Zenon DEF PeerGone
    <3>3. CASE Reject(c) \/ Ack(c) \/ ReadFails(c)
      BY <3>3, Zenon DEF Reject, Ack, ReadFails
    <3>4. CASE Close(c)
      BY <3>4, Zenon DEF Close
    <3> QED BY <2>2, <3>1, <3>2, <3>3, <3>4, Zenon
  <2>3. ASSUME NEW c \in Conns, StartSession(c) \/ AckFails(c) \/ StopCapture(c) PROVE TypeOK'
    <3>1. CASE StartSession(c)
      BY <2>1, <3>1, Zenon DEF StartSession
    <3>2. CASE AckFails(c)
      BY <2>1, <3>2, Zenon DEF AckFails, StopSession
    <3>3. CASE StopCapture(c)
      BY <2>1, <3>3, Zenon DEF StopCapture, StopSession
    <3> QED BY <2>3, <3>1, <3>2, <3>3, Zenon
  <2>4. ASSUME NEW c \in Conns, Register(c) \/ FilterCh(c) PROVE TypeOK'
    <3>1. CASE Register(c)
      BY <3>1, RegistryConstants, Zenon DEF Register
    <3>2. CASE FilterCh(c)
      BY <3>2, RegistryConstants, Zenon DEF FilterCh
    <3> QED BY <2>4, <3>1, <3>2, Zenon
  <2>5. ASSUME NEW c \in Conns, Unregister(c) PROVE TypeOK'
    <3> DEFINE e == registered[AgentOf[c]]
    <3>1. e \in Conns \cup {None} /\ AgentOf[c] \in Agents
      BY RegistryConstants, Zenon
    <3>2. registered' \in [Agents -> Conns \cup {None}]
      BY <2>5, <3>1, Zenon DEF Unregister
    <3>3. closes' \in [Conns -> Nat]
      <4>1. CASE e = None
        BY <2>5, <4>1, Zenon DEF Unregister
      <4>2. CASE e # None
        BY <2>5, <3>1, <4>2, SMTT(30) DEF Unregister
      <4> QED BY <4>1, <4>2, Zenon
    <3> QED BY <2>5, <3>2, <3>3, Zenon DEF Unregister
  <2>6. ASSUME NEW c \in Conns, Batch(c) PROVE TypeOK'
    <3>1. registered[AgentOf[c]] \in Conns
      BY <2>6, RegistryConstants, Zenon DEF Batch
    <3> QED BY <2>6, <3>1, Zenon DEF Batch
  <2>7. ASSUME NEW c \in Conns, Range(c) PROVE TypeOK'
    <3> DEFINE d == fch[c]
    <3>1. d \in Conns /\ filterCh[d] \in Seq(Nat) /\ filterCh[d] # << >>
      BY <2>7, Zenon DEF Range
    <3>2. /\ Head(filterCh[d]) \in Nat /\ Tail(filterCh[d]) \in Seq(Nat)
          /\ Len(Tail(filterCh[d])) <= FilterCap
      BY <3>1, TailBound, RegistryConstants, Zenon
    <3>3. filterCh' = [filterCh EXCEPT ![d] = Tail(filterCh[d])]
      BY <2>7, Zenon DEF Range
    <3>4. filterCh' \in [Conns -> Seq(Nat)]
      BY <3>1, <3>2, <3>3, Zenon
    <3>5. ASSUME NEW e \in Conns PROVE Len(filterCh'[e]) <= FilterCap
      <4>1. CASE e = d
        BY <3>1, <3>2, <3>3, <4>1, Zenon
      <4>2. CASE e # d
        BY <3>1, <3>3, <4>2, Zenon
      <4> QED BY <4>1, <4>2, Zenon
    <3> QED BY <2>7, <3>2, <3>4, <3>5, Zenon DEF Range
  <2>8. ASSUME NEW c \in Conns, RangeEnds(c) \/ Write(c) \/ WriteFails(c) PROVE TypeOK'
    <3>1. CASE Write(c)
      <4>1. Append(sent[c], fhand[c]) \in Seq(Nat)
        OBVIOUS
      <4> QED BY <3>1, <4>1, Zenon DEF Write
    <3>2. CASE RangeEnds(c) \/ WriteFails(c)
      BY <3>2, Zenon DEF RangeEnds, WriteFails
    <3> QED BY <2>8, <3>1, <3>2, Zenon
  <2>9. ASSUME NEW a \in Agents, SendFilter(a) PROVE TypeOK'
    <3> DEFINE e == registered[a]
    <3>1. e \in Conns /\ calls' = calls + 1 /\ filterCh[e] \in Seq(Nat) /\ Len(filterCh[e]) \in Nat
      BY <2>9 DEF SendFilter
    <3>2. shown' \in [Conns -> Nat]
      BY <2>9, <3>1 DEF SendFilter
    <3>3. filterCh' \in [Conns -> Seq(Nat)] /\ \A d \in Conns : Len(filterCh'[d]) <= FilterCap
      <4>1. CASE Len(filterCh[e]) < FilterCap
        <5>1. filterCh' = [filterCh EXCEPT ![e] = Append(filterCh[e], calls + 1)]
          BY <2>9, <3>1, <4>1, Zenon DEF SendFilter
        <5>2. /\ Append(filterCh[e], calls + 1) \in Seq(Nat)
              /\ Len(Append(filterCh[e], calls + 1)) <= FilterCap
          BY <3>1, <4>1, RegistryConstants
        <5> QED BY <3>1, <5>1, <5>2, Zenon
      <4>2. CASE ~ (Len(filterCh[e]) < FilterCap)
        BY <2>9, <4>2, Zenon DEF SendFilter
      <4> QED BY <4>1, <4>2, Zenon
    <3> QED BY <2>9, <3>1, <3>2, <3>3, Zenon DEF SendFilter
  <2>10. ASSUME NEW a \in Agents, MarkStale(a) PROVE TypeOK'
    BY <2>10, Zenon DEF MarkStale
  <2>11. CASE UNCHANGED vars
    BY <2>11, Zenon DEF vars
  <2> QED
    BY <1>2, <2>2, <2>3, <2>4, <2>5, <2>6, <2>7, <2>8, <2>9, <2>10, <2>11, Zenon DEF Next, Handler, Forwarder
<1> QED BY <1>1, <1>2, PTL DEF Spec

-----------------------------------------------------------------------------
(* An entry is its agent's own, its channel is open, and a channel is not   *)
(* closed before it is made.                                                *)
ChannelInv ==
  /\ \A c \in Conns : closes[c] \in {0, 1}
  /\ \A c \in Conns : hpc[c] \in {"none", "handshake", "ack", "register"} =>
       closes[c] = 0 /\ \A a \in Agents : registered[a] # c
  /\ \A a \in Agents : registered[a] # None =>
       AgentOf[registered[a]] = a /\ closes[registered[a]] = 0
  /\ \A c \in Conns : peer[c] = "none" => hpc[c] = "none"

LEMMA ChannelInvariant == Spec => []ChannelInv
<1>1. Init => ChannelInv
  BY RegistryConstants DEF Init, ChannelInv
<1>2. ASSUME TypeOK, ChannelInv, [Next]_vars PROVE ChannelInv'
  <2> USE <1>2 DEF TypeOK, ChannelInv
  <2>1. ASSUME UNCHANGED <<closes, registered, hpc, peer>> PROVE ChannelInv'
    BY <2>1, Zenon
  <2>2. ASSUME NEW c \in Conns, Connect(c) PROVE ChannelInv'
    BY <2>2 DEF Connect
  <2>3. ASSUME NEW c \in Conns, PeerGone(c) PROVE ChannelInv'
    BY <2>3 DEF PeerGone
  <2>4. ASSUME NEW c \in Conns, hpc'[c] # "none", hpc[c] # "none",
               hpc'[c] \in {"ack", "register"} => hpc[c] \in {"handshake", "ack"},
               hpc'[c] # "handshake", hpc' = [hpc EXCEPT ![c] = hpc'[c]],
               UNCHANGED <<closes, registered, peer>>
        PROVE  ChannelInv'
    BY <2>4
  <2>5. ASSUME NEW c \in Conns,
               Reject(c) \/ StartSession(c) \/ AckFails(c) \/ Ack(c) \/ FilterCh(c)
                 \/ ReadFails(c) \/ StopCapture(c)
        PROVE  ChannelInv'
    BY <2>4, <2>5, SMTT(30) DEF Reject, StartSession, AckFails, Ack, FilterCh, ReadFails, StopCapture
  <2>6. ASSUME NEW c \in Conns, Close(c) PROVE ChannelInv'
    BY <2>6 DEF Close
  <2>7. ASSUME NEW c \in Conns, Register(c) PROVE ChannelInv'
    BY <2>7, RegistryConstants DEF Register
  <2>8. ASSUME NEW c \in Conns, Unregister(c) PROVE ChannelInv'
    <3> DEFINE e == registered[AgentOf[c]]
    <3>1. AgentOf[c] \in Agents /\ e \in Conns \cup {None} /\ None \notin Conns
      BY RegistryConstants
    <3>2. CASE e = None
      BY <2>8, <3>1, <3>2 DEF Unregister
    <3>3. CASE e # None
      <4>1. closes[e] = 0 /\ AgentOf[e] = AgentOf[c] /\ e \in Conns
        BY <3>1, <3>3, Zenon
      <4>2. closes' = [closes EXCEPT ![e] = 1]
        BY <2>8, <3>3, <4>1 DEF Unregister
      <4>3. hpc[e] \notin {"none", "handshake", "ack", "register"}
        BY <3>1, <3>3, <4>1, Zenon
      <4>4. hpc' = [hpc EXCEPT ![c] = "close"] /\ UNCHANGED peer /\ hpc[c] = "unregister"
        BY <2>8, Zenon DEF Unregister
      <4>5. /\ registered' = [registered EXCEPT ![AgentOf[c]] = None]
            /\ \A a \in Agents : registered'[a] = e => FALSE
        BY <2>8, <3>1, <3>3, <4>1 DEF Unregister
      <4> QED BY <3>1, <4>1, <4>2, <4>3, <4>4, <4>5, SMTT(30)
    <3> QED BY <3>2, <3>3, Zenon
  <2>9. ASSUME NEW c \in Conns, Batch(c) \/ Forwarder(c) PROVE ChannelInv'
    BY <2>1, <2>9, Zenon DEF Batch, Forwarder, Range, RangeEnds, Write, WriteFails
  <2>10. ASSUME NEW a \in Agents, SendFilter(a) \/ MarkStale(a) PROVE ChannelInv'
    BY <2>1, <2>10, Zenon DEF SendFilter, MarkStale
  <2>11. CASE UNCHANGED vars
    BY <2>1, <2>11, Zenon DEF vars
  <2> QED
    BY <1>2, <2>2, <2>3, <2>5, <2>6, <2>7, <2>8, <2>9, <2>10, <2>11, Zenon DEF Next, Handler
<1> QED BY <1>1, <1>2, RegistryTypeCorrect, PTL DEF Spec

(* No handler and no SendFilter panics on a filter channel, however many    *)
(* connections an agent opens.                                              *)
THEOREM RegistryIsSafe == Spec => []ChannelSafe
<1>1. TypeOK /\ ChannelInv => ChannelSafe
  BY DEF ChannelInv, ChannelSafe
<1> QED BY <1>1, ChannelInvariant, RegistryTypeCorrect, PTL

-----------------------------------------------------------------------------
(* The random suffix of session ids does what it is there for: no handler   *)
(* stops the session of another connection.                                 *)
THEOREM SessionsAreOwn == Spec => []SessionRuns
<1>1. Init => SessionRuns
  BY Zenon DEF Init, SessionRuns
<1>2. ASSUME TypeOK, SessionRuns, [Next]_vars PROVE SessionRuns'
  <2> USE <1>2 DEF TypeOK, SessionRuns
  <2> DEFINE Serving == {"ack", "register", "filterch", "loop", "stop"}
  <2>1. \A c, d \in Conns : SessionID(c) \in SessionIDs /\ (SessionID(c) = SessionID(d) => c = d)
    BY RegistryConstants, Zenon DEF SessionID, SessionIDs
  <2>2. ASSUME NEW c \in Conns, UNCHANGED sessions, hpc' = [hpc EXCEPT ![c] = hpc'[c]],
               hpc'[c] \in Serving => hpc[c] \in Serving
        PROVE  SessionRuns'
    BY <2>2, Zenon
  <2>3. ASSUME NEW c \in Conns, Connect(c) \/ Reject(c) \/ Ack(c) \/ Register(c) \/ FilterCh(c)
                 \/ ReadFails(c) \/ Unregister(c) \/ Close(c)
        PROVE  SessionRuns'
    BY <2>2, <2>3 DEF Connect, Reject, Ack, Register, FilterCh, ReadFails, Unregister, Close
  <2>4. ASSUME NEW c \in Conns, StartSession(c) PROVE SessionRuns'
    BY <2>1, <2>4, Zenon DEF StartSession
  <2>5. ASSUME NEW c \in Conns, AckFails(c) \/ StopCapture(c) PROVE SessionRuns'
    <3>1. /\ sessions' = [sessions EXCEPT ![SessionID(c)] = "stopped"]
          /\ hpc' = [hpc EXCEPT ![c] = hpc'[c]] /\ hpc'[c] \notin Serving
      BY <2>5 DEF AckFails, StopCapture, StopSession
    <3> QED BY <2>1, <3>1, Zenon
  <2>6. ASSUME UNCHANGED <<sessions, hpc>> PROVE SessionRuns'
    BY <2>6, Zenon
  <2>7. ASSUME NEW c \in Conns, PeerGone(c) \/ Batch(c) \/ Forwarder(c) PROVE SessionRuns'
    BY <2>6, <2>7, Zenon DEF PeerGone, Batch, Forwarder, Range, RangeEnds, Write, WriteFails
  <2>8. ASSUME NEW a \in Agents, SendFilter(a) \/ MarkStale(a) PROVE SessionRuns'
    BY <2>6, <2>8, Zenon DEF SendFilter, MarkStale
  <2>9. CASE UNCHANGED vars
    BY <2>6, <2>9, Zenon DEF vars
  <2> QED
    BY <1>2, <2>3, <2>4, <2>5, <2>7, <2>8, <2>9, Zenon DEF Next, Handler
<1> QED BY <1>1, <1>2, RegistryTypeCorrect, PTL DEF Spec

-----------------------------------------------------------------------------
(* Without overlapping connections at most one connection of an agent is    *)
(* served, and it holds the entry from register to unregister.              *)
Holding == {"filterch", "loop", "stop", "unregister"}

Single ==
  /\ \A c, d \in Conns : AgentOf[c] = AgentOf[d] => c = d \/ Ended(c) \/ Ended(d)
  /\ \A c \in Conns : hpc[c] \in Holding => registered[AgentOf[c]] = c
  /\ \A c \in Conns : fpc[c] # "none" => fch[c] = c

SingleInv == ~overlap => Single

(* An agent that reconnects only after central has finished with its old    *)
(* connection is listed while it is served, and its forwarder ranges over   *)
(* its own channel.                                                         *)
THEOREM SingleIsListed == Spec => [](ListedIfSingle /\ OwnChannel)
<1>1. Init => SingleInv
  BY DEF Init, SingleInv, Single, Ended, Holding
<1>2. ASSUME TypeOK, Single, ~overlap, [Next]_vars PROVE Single'
  <2> USE <1>2, RegistryConstants DEF TypeOK, Single, Ended, Holding
  <2>1. ASSUME NEW c \in Conns, NEW p, hpc' = [hpc EXCEPT ![c] = p], ~Ended(c),
               p \in Holding => hpc[c] \in Holding,
               UNCHANGED <<registered, fpc, fch>>
        PROVE  Single'
    <3>1. \A d \in Conns : /\ Ended(d) => Ended(d)'
                          /\ hpc'[d] \in Holding => hpc[d] \in Holding
      BY <2>1
    <3>2. \A d \in Conns : hpc'[d] \in Holding => registered'[AgentOf[d]] = d
      BY <2>1, <3>1
    <3>3. \A d \in Conns : fpc'[d] # "none" => fch'[d] = d
      BY <2>1, Zenon
    <3>4. ASSUME NEW d \in Conns, NEW e \in Conns, AgentOf[d] = AgentOf[e]
          PROVE  d = e \/ Ended(d)' \/ Ended(e)'
      <4>1. d = e \/ Ended(d) \/ Ended(e)
        BY <3>4, Zenon
      <4>2. /\ Ended(d) => Ended(d)'
            /\ Ended(e) => Ended(e)'
        BY <2>1, SMTT(30)
      <4> HIDE DEF TypeOK, Single, Ended
      <4> QED BY <4>1, <4>2, Zenon
    <3> QED BY <3>2, <3>3, <3>4, Zenon
  <2>2. ASSUME NEW c \in Conns,
               Reject(c) \/ StartSession(c) \/ AckFails(c) \/ Ack(c) \/ ReadFails(c)
                 \/ StopCapture(c) \/ Close(c)
        PROVE  Single'
    <3> HIDE DEF Single
    <3>1. CASE Reject(c) \/ StartSession(c)
      BY <2>1, <3>1, Zenon DEF Reject, StartSession, registryVars, forwardVars
    <3>2. CASE AckFails(c) \/ Ack(c)
      BY <2>1, <3>2, Zenon DEF AckFails, Ack, registryVars, forwardVars
    <3>3. CASE ReadFails(c)
      BY <2>1, <3>3, Zenon DEF ReadFails, registryVars, forwardVars
    <3>4. CASE StopCapture(c)
      BY <2>1, <3>4, Zenon DEF StopCapture, registryVars, forwardVars
    <3>5. CASE Close(c)
      BY <2>1, <3>5, Zenon DEF Close, registryVars, forwardVars
    <3> QED BY <2>2, <3>1, <3>2, <3>3, <3>4, <3>5, Zenon
  <2>3. ASSUME NEW c \in Conns, Connect(c) PROVE Single'
    BY <2>3 DEF Connect
  <2>4. ASSUME NEW c \in Conns, Register(c) PROVE Single'
    BY <2>4, ZenonT(30) DEF Register
  <2>5. ASSUME NEW c \in Conns, FilterCh(c) PROVE Single'
    BY <2>5, SMTT(30) DEF FilterCh
  <2>6. ASSUME NEW c \in Conns, Unregister(c) PROVE Single'
    BY <2>6, SMTT(30) DEF Unregister
  <2>7. ASSUME NEW c \in Conns, Forwarder(c) PROVE Single'
    <3>1. /\ UNCHANGED <<hpc, registered, fch>> /\ fpc[c] # "none"
          /\ fpc' = [fpc EXCEPT ![c] = fpc'[c]]
      BY <2>7 DEF Forwarder, Range, RangeEnds, Write, WriteFails
    <3> QED BY <3>1
  <2>8. ASSUME UNCHANGED <<hpc, registered, fpc, fch>> PROVE Single'
    BY <2>8, Zenon
  <2>9. ASSUME NEW c \in Conns, PeerGone(c) \/ Batch(c) PROVE Single'
    BY <2>8, <2>9, Zenon DEF PeerGone, Batch
  <2>10. ASSUME NEW a \in Agents, SendFilter(a) \/ MarkStale(a) PROVE Single'
    BY <2>8, <2>10, Zenon DEF SendFilter, MarkStale
  <2>11. CASE UNCHANGED vars
    BY <2>8, <2>11, Zenon DEF vars
  <2> QED
    BY <1>2, <2>2, <2>3, <2>4, <2>5, <2>6, <2>7, <2>9, <2>10, <2>11, Zenon DEF Next, Handler
<1>3. ASSUME TypeOK, SingleInv, [Next]_vars PROVE SingleInv'
  <2>1. overlap' = overlap
    BY <1>3, Zenon DEF Next, vars
  <2>2. ~overlap => Single'
    BY <1>2, <1>3, Zenon DEF SingleInv
  <2> QED BY <2>1, <2>2, Zenon DEF SingleInv
<1>4. TypeOK /\ SingleInv => ListedIfSingle /\ OwnChannel
  BY RegistryConstants, Zenon DEF TypeOK, SingleInv, Single, ListedIfSingle, ConnectedIsListed, OwnChannel,
      Holding
<1> QED BY <1>1, <1>3, <1>4, RegistryTypeCorrect, PTL DEF Spec

-----------------------------------------------------------------------------
\* The numbers of a sequence, and that they increase.
Numbers(s) == {s[i] : i \in 1 .. Len(s)}
Increasing(s) == \A i, j \in 1 .. Len(s) : i < j => s[i] < s[j]

\* The filters queued in the channel of a connection, in the hand of its
\* forwarder, and written to it.
Queued(c) == Numbers(filterCh[c])
InHand(c) == {n \in {fhand[c]} : fpc[c] = "write"}
Written(c) == Numbers(sent[c])

\* Every filter is in one place; what a forwarder holds is older than all
\* that its channel holds, and newer than all that it has written.
FilterInv ==
  /\ \A c \in Conns : Increasing(filterCh[c]) /\ Increasing(sent[c])
  /\ \A c \in Conns : \A n \in Queued(c) \cup InHand(c) \cup Written(c) : n <= calls
  /\ \A c, d \in Conns :
       /\ Queued(c) \cap InHand(d) = {} /\ Queued(c) \cap Written(d) = {}
       /\ InHand(c) \cap Written(d) = {}
       /\ c # d => /\ Queued(c) \cap Queued(d) = {} /\ InHand(c) \cap InHand(d) = {}
                   /\ Written(c) \cap Written(d) = {}
  /\ \A c, d \in Conns : fch[c] = d =>
       \A n \in Queued(d) : \A m \in InHand(c) \cup Written(c) : m < n
  /\ \A c \in Conns : \A n \in InHand(c) : \A m \in Written(c) : m < n
  /\ \A c \in Conns :
       /\ fpc[c] = "write" => fch[c] # None
       /\ fpc[c] = "none" => Written(c) = {}
       /\ hpc[c] \in {"none", "handshake", "ack", "register", "filterch"} => fpc[c] = "none"

\* A sequence that increases still does when a larger number is appended,
\* and when its first is taken.
LEMMA NumbersAppend ==
  ASSUME NEW s \in Seq(Nat), Increasing(s), NEW n \in Nat, \A m \in Numbers(s) : m < n
  PROVE  Increasing(Append(s, n)) /\ Numbers(Append(s, n)) = Numbers(s) \cup {n}
<1>1. \A i \in 1 .. Len(s) : s[i] < n /\ s[i] \in Nat
  BY DEF Numbers
<1>2. /\ Len(Append(s, n)) = Len(s) + 1 /\ Append(s, n)[Len(s) + 1] = n
      /\ \A i \in 1 .. Len(s) : Append(s, n)[i] = s[i]
  OBVIOUS
<1>3. Increasing(Append(s, n))
  <2> SUFFICES ASSUME NEW i \in 1 .. Len(s) + 1, NEW j \in 1 .. Len(s) + 1, i < j
               PROVE  Append(s, n)[i] < Append(s, n)[j]
    BY <1>2, Zenon DEF Increasing
  <2>1. i \in 1 .. Len(s) /\ (j = Len(s) + 1 \/ j \in 1 .. Len(s))
    OBVIOUS
  <2>2. CASE j = Len(s) + 1
    BY <1>1, <1>2, <2>1, <2>2, Zenon
  <2>3. CASE j \in 1 .. Len(s)
    BY <1>2, <2>1, <2>3, Zenon DEF Increasing
  <2> QED BY <2>1, <2>2, <2>3, Zenon
<1>4. Numbers(Append(s, n)) = Numbers(s) \cup {n}
  <2>1. \A i \in 1 .. Len(s) + 1 : i = Len(s) + 1 \/ i \in 1 .. Len(s)
    OBVIOUS
  <2>2. Len(s) + 1 \in 1 .. Len(s) + 1 /\ \A i \in 1 .. Len(s) : i \in 1 .. Len(s) + 1
    OBVIOUS
  <2> QED BY <1>2, <2>1, <2>2, Zenon DEF Numbers
<1> QED BY <1>3, <1>4, Zenon

LEMMA NumbersTail ==
  ASSUME NEW s \in Seq(Nat), Increasing(s), s # << >>
  PROVE  /\ Increasing(Tail(s)) /\ Head(s) \in Numbers(s) /\ Head(s) \in Nat
         /\ Numbers(Tail(s)) = Numbers(s) \ {Head(s)}
         /\ \A n \in Numbers(Tail(s)) : Head(s) < n
<1>1. /\ \A i \in 1 .. Len(Tail(s)) : Tail(s)[i] = s[i + 1] /\ i + 1 \in 1 .. Len(s) /\ 1 < i + 1
      /\ 1 \in 1 .. Len(s) /\ Head(s) = s[1] /\ Head(s) \in Nat
  OBVIOUS
<1>2. \A i \in 1 .. Len(s) : i = 1 \/ (i - 1 \in 1 .. Len(Tail(s)) /\ Tail(s)[i - 1] = s[i])
  OBVIOUS
<1>3. Increasing(Tail(s))
  BY <1>1 DEF Increasing
<1>4. \A n \in Numbers(Tail(s)) : Head(s) < n /\ n \in Numbers(s)
  BY <1>1, Zenon DEF Increasing, Numbers
<1>5. \A n \in Numbers(s) : n = Head(s) \/ n \in Numbers(Tail(s))
  BY <1>1, <1>2 DEF Numbers
<1>6. Head(s) \in Numbers(s)
  BY <1>1, Zenon DEF Numbers
<1>7. Head(s) \notin Numbers(Tail(s))
  BY <1>1, <1>4
<1> QED BY <1>1, <1>3, <1>4, <1>5, <1>6, <1>7, Zenon

LEMMA FilterInvariant == Spec => []FilterInv
<1>1. Init => FilterInv
  <2> SUFFICES ASSUME Init PROVE FilterInv
    BY Zenon
  <2>1. \A c \in Conns : /\ filterCh[c] = << >> /\ sent[c] = << >> /\ fpc[c] = "none"
    BY Zenon DEF Init
  <2>2. Numbers(<< >>) = {} /\ Increasing(<< >>)
    BY DEF Numbers, Increasing
  <2>3. \A c \in Conns : Queued(c) = {} /\ InHand(c) = {} /\ Written(c) = {}
    BY <2>1, <2>2, Zenon DEF Queued, InHand, Written
  <2> QED BY <2>1, <2>2, <2>3, Zenon DEF FilterInv
<1>2. ASSUME TypeOK, ChannelInv, FilterInv, [Next]_vars PROVE FilterInv'
  <2> USE <1>2
  <2>t. /\ \A c \in Conns : filterCh[c] \in Seq(Nat) /\ sent[c] \in Seq(Nat) /\ fhand[c] \in Nat
        /\ filterCh \in [Conns -> Seq(Nat)] /\ sent \in [Conns -> Seq(Nat)] /\ fhand \in [Conns -> Nat]
        /\ fpc \in [Conns -> {"none", "range", "write", "done"}]
        /\ calls \in Nat /\ None \notin Conns /\ fch \in [Conns -> Conns \cup {None}]
    BY RegistryConstants, Zenon DEF TypeOK
  <2>n. \A c \in Conns : Queued(c) \subseteq Nat /\ InHand(c) \subseteq Nat /\ Written(c) \subseteq Nat
    BY <2>t DEF Queued, InHand, Written, Numbers
  <2>1. ASSUME UNCHANGED <<filterCh, sent, fhand, fch, calls>>, \A c \in Conns : InHand(c)' \subseteq InHand(c),
               \A c \in Conns : /\ fpc'[c] = "write" => fpc[c] = "write"
                                /\ fpc'[c] = "none" => fpc[c] = "none"
                                /\ hpc'[c] \in {"none", "handshake", "ack", "register", "filterch"} => fpc'[c] = "none"
        PROVE  FilterInv'
    <3>1. \A c \in Conns : Queued(c)' = Queued(c) /\ Written(c)' = Written(c)
      BY <2>1, Zenon DEF Queued, Written
    <3>2. \A c \in Conns : Increasing(filterCh'[c]) /\ Increasing(sent'[c])
      BY <2>1, Zenon DEF FilterInv
    <3> QED BY <2>1, <3>1, <3>2 DEF FilterInv
  <2>2. ASSUME NEW c \in Conns, Range(c) PROVE FilterInv'
    <3> DEFINE e == fch[c]
               n == Head(filterCh[e])
    <3>1. /\ fpc[c] = "range" /\ e \in Conns /\ filterCh[e] # << >>
          /\ filterCh' = [filterCh EXCEPT ![e] = Tail(filterCh[e])]
          /\ fhand' = [fhand EXCEPT ![c] = n] /\ fpc' = [fpc EXCEPT ![c] = "write"]
          /\ UNCHANGED <<hpc, fch, sent, calls>>
      BY <2>2, <2>t, Zenon DEF Range
    <3>2. filterCh[e] \in Seq(Nat) /\ Increasing(filterCh[e])
      BY <2>t, <3>1, Zenon DEF FilterInv
    <3>3. /\ Increasing(Tail(filterCh[e])) /\ n \in Queued(e) /\ n \in Nat
          /\ Numbers(Tail(filterCh[e])) = Queued(e) \ {n}
          /\ \A m \in Numbers(Tail(filterCh[e])) : n < m
      BY <3>1, <3>2, NumbersTail, Zenon DEF Queued
    <3> HIDE DEF e, n
    <3>4. \A d \in Conns : /\ Queued(d)' = IF d = e THEN Queued(e) \ {n} ELSE Queued(d)
                           /\ InHand(d)' = IF d = c THEN {n} ELSE InHand(d)
                           /\ Written(d)' = Written(d)
                           /\ Increasing(filterCh'[d]) /\ Increasing(sent'[d])
      BY <2>t, <3>1, <3>3, Zenon DEF Queued, InHand, Written, FilterInv
    <3>5. InHand(c) = {} /\ fch[c] = e /\ e # None /\ \A m \in Queued(e) : m = n \/ n < m
      BY <2>t, <3>1, <3>3, Zenon DEF InHand, e
    <3>6. /\ \A d \in Conns : \A m \in Queued(d)' \cup InHand(d)' \cup Written(d)' : m <= calls'
          /\ \A d, b \in Conns :
               /\ Queued(d)' \cap InHand(b)' = {} /\ Queued(d)' \cap Written(b)' = {}
               /\ InHand(d)' \cap Written(b)' = {}
               /\ d # b => /\ Queued(d)' \cap Queued(b)' = {} /\ InHand(d)' \cap InHand(b)' = {}
                           /\ Written(d)' \cap Written(b)' = {}
      <4>1. \A d \in Conns : n \notin InHand(d) /\ n \notin Written(d) /\ (d # e => n \notin Queued(d))
        BY <3>1, <3>3, Zenon DEF FilterInv
      <4>2. \A d \in Conns : /\ Queued(d)' \subseteq Queued(d) /\ n \notin Queued(d)'
                             /\ InHand(d)' \subseteq InHand(d) \cup {n} /\ Written(d)' = Written(d)
                             /\ n \in InHand(d)' => d = c
        <5> SUFFICES ASSUME NEW d \in Conns
                     PROVE  /\ Queued(d)' \subseteq Queued(d) /\ n \notin Queued(d)'
                            /\ InHand(d)' \subseteq InHand(d) \cup {n} /\ Written(d)' = Written(d)
                            /\ n \in InHand(d)' => d = c
          BY Zenon
        <5>3. /\ Queued(d)' = IF d = e THEN Queued(e) \ {n} ELSE Queued(d)
              /\ InHand(d)' = IF d = c THEN {n} ELSE InHand(d)
          BY <3>4, Zenon
        <5>4. n \notin InHand(d) /\ n \notin Written(d) /\ (d # e => n \notin Queued(d))
          BY <4>1, Zenon
        <5>1. Queued(d)' \subseteq Queued(d) /\ n \notin Queued(d)'
          BY ONLY <5>3, <5>4, Zenon
        <5>2. InHand(d)' \subseteq InHand(d) \cup {n} /\ (n \in InHand(d)' => d = c)
          BY ONLY <5>3, <5>4, Zenon
        <5> QED BY <3>4, <5>1, <5>2, Zenon
      <4>3. n <= calls' /\ \A d \in Conns : \A m \in Queued(d) \cup InHand(d) \cup Written(d) : m <= calls'
        BY <3>1, <3>3, Zenon DEF FilterInv
      <4>4. \A d, b \in Conns :
               /\ Queued(d) \cap InHand(b) = {} /\ Queued(d) \cap Written(b) = {}
               /\ InHand(d) \cap Written(b) = {}
               /\ d # b => /\ Queued(d) \cap Queued(b) = {} /\ InHand(d) \cap InHand(b) = {}
                           /\ Written(d) \cap Written(b) = {}
        BY Zenon DEF FilterInv
      <4>5. \A d \in Conns : \A m \in Queued(d)' \cup InHand(d)' \cup Written(d)' : m <= calls'
        BY <4>2, <4>3, Zenon
      <4>6. ASSUME NEW d \in Conns, NEW b \in Conns
            PROVE  /\ Queued(d)' \cap InHand(b)' = {} /\ Queued(d)' \cap Written(b)' = {}
                   /\ InHand(d)' \cap Written(b)' = {}
        <5>1. /\ Queued(d)' \subseteq Queued(d) /\ n \notin Queued(d)'
              /\ InHand(d)' \subseteq InHand(d) \cup {n} /\ InHand(b)' \subseteq InHand(b) \cup {n}
              /\ Written(b)' = Written(b)
          BY <4>2, Zenon
        <5>3. n \notin Written(b)
          BY <4>1, Zenon
        <5>2. /\ Queued(d) \cap InHand(b) = {} /\ Queued(d) \cap Written(b) = {}
              /\ InHand(d) \cap Written(b) = {}
          BY <4>4, Zenon
        <5> QED BY ONLY <5>1, <5>2, <5>3, Zenon
      <4>7. ASSUME NEW d \in Conns, NEW b \in Conns, d # b
            PROVE  /\ Queued(d)' \cap Queued(b)' = {} /\ InHand(d)' \cap InHand(b)' = {}
                   /\ Written(d)' \cap Written(b)' = {}
        BY <4>1, <4>2, <4>4, <4>7
      <4> QED BY <4>5, <4>6, <4>7, Zenon
    <3>7. /\ \A d, b \in Conns : fch'[d] = b =>
               \A m \in Queued(b)' : \A k \in InHand(d)' \cup Written(d)' : k < m
          /\ \A d \in Conns : \A m \in InHand(d)' : \A k \in Written(d)' : k < m
      <4>1. ASSUME NEW d \in Conns, NEW b \in Conns, fch'[d] = b,
                   NEW m \in Queued(b)', NEW k \in InHand(d)' \cup Written(d)' PROVE k < m
        <5>1. m \in Queued(b) /\ fch[d] = b /\ (b = e => n < m)
          BY <3>1, <3>3, <3>4, <3>5, <4>1, Zenon
        <5>2. CASE k \in InHand(d) \cup Written(d)
          BY <5>1, <5>2, Zenon DEF FilterInv
        <5>3. CASE k \notin InHand(d) \cup Written(d)
          <6>1. k = n /\ d = c
            BY <3>4, <4>1, <5>3, Zenon
          <6> QED BY <3>5, <5>1, <6>1, Zenon
        <5> QED BY <5>2, <5>3, Zenon
      <4>2. ASSUME NEW d \in Conns, NEW m \in InHand(d)', NEW k \in Written(d)' PROVE k < m
        <5>1. CASE d = c
          <6>1. m = n /\ k \in Written(c)
            BY <3>4, <4>2, <5>1, Zenon
          <6> QED BY <3>1, <3>3, <3>5, <6>1, Zenon DEF FilterInv
        <5>2. CASE d # c
          BY <3>4, <4>2, <5>2, Zenon DEF FilterInv
        <5> QED BY <5>1, <5>2, Zenon
      <4> QED BY <4>1, <4>2, Zenon
    <3>8. \A d \in Conns :
            /\ fpc'[d] = "write" => fch'[d] # None
            /\ fpc'[d] = "none" => Written(d)' = {}
            /\ hpc'[d] \in {"none", "handshake", "ack", "register", "filterch"} => fpc'[d] = "none"
      BY <2>t, <3>1, <3>4, <3>5, Zenon DEF FilterInv
    <3> QED BY <3>4, <3>6, <3>7, <3>8, Zenon DEF FilterInv
  <2>3. ASSUME NEW c \in Conns, Write(c) PROVE FilterInv'
    <3> DEFINE n == fhand[c]
    <3>1. /\ fpc[c] = "write"
          /\ sent' = [sent EXCEPT ![c] = Append(sent[c], n)] /\ fpc' = [fpc EXCEPT ![c] = "range"]
          /\ UNCHANGED <<hpc, fch, fhand, filterCh, calls>>
      BY <2>3, Zenon DEF Write
    <3>2. sent[c] \in Seq(Nat) /\ Increasing(sent[c]) /\ n \in Nat /\ InHand(c) = {n}
          /\ \A m \in Written(c) : m < n
      BY <2>t, <3>1, Zenon DEF FilterInv, InHand
    <3>3. Increasing(Append(sent[c], n)) /\ Numbers(Append(sent[c], n)) = Written(c) \cup {n}
      BY <3>2, NumbersAppend, Zenon DEF Written
    <3> HIDE DEF n
    <3>4. \A d \in Conns : /\ Queued(d)' = Queued(d)
                           /\ InHand(d)' = IF d = c THEN {} ELSE InHand(d)
                           /\ Written(d)' = IF d = c THEN Written(c) \cup {n} ELSE Written(d)
                           /\ Increasing(filterCh'[d]) /\ Increasing(sent'[d])
      BY <2>t, <3>1, <3>3, Zenon DEF Queued, InHand, Written, FilterInv
    <3>6. /\ \A d \in Conns : \A m \in Queued(d)' \cup InHand(d)' \cup Written(d)' : m <= calls'
          /\ \A d, b \in Conns :
               /\ Queued(d)' \cap InHand(b)' = {} /\ Queued(d)' \cap Written(b)' = {}
               /\ InHand(d)' \cap Written(b)' = {}
               /\ d # b => /\ Queued(d)' \cap Queued(b)' = {} /\ InHand(d)' \cap InHand(b)' = {}
                           /\ Written(d)' \cap Written(b)' = {}
      BY <3>1, <3>2, <3>4 DEF FilterInv
    <3>7. /\ \A d, b \in Conns : fch'[d] = b =>
               \A m \in Queued(b)' : \A k \in InHand(d)' \cup Written(d)' : k < m
          /\ \A d \in Conns : \A m \in InHand(d)' : \A k \in Written(d)' : k < m
      <4>1. ASSUME NEW d \in Conns, NEW b \in Conns, fch'[d] = b,
                   NEW m \in Queued(b)', NEW k \in InHand(d)' \cup Written(d)' PROVE k < m
        <5>1. m \in Queued(b) /\ fch[d] = b /\ k \in InHand(d) \cup Written(d)
          BY <3>1, <3>2, <3>4, <4>1, Zenon
        <5> QED BY <5>1, Zenon DEF FilterInv
      <4>2. ASSUME NEW d \in Conns, NEW m \in InHand(d)', NEW k \in Written(d)' PROVE k < m
        BY <3>4, <4>2, Zenon DEF FilterInv
      <4> QED BY <4>1, <4>2, Zenon
    <3>8. \A d \in Conns :
            /\ fpc'[d] = "write" => fch'[d] # None
            /\ fpc'[d] = "none" => Written(d)' = {}
            /\ hpc'[d] \in {"none", "handshake", "ack", "register", "filterch"} => fpc'[d] = "none"
      BY <2>t, <3>1, <3>4, Zenon DEF FilterInv
    <3> QED BY <3>4, <3>6, <3>7, <3>8, Zenon DEF FilterInv
  <2>4. ASSUME NEW a \in Agents, SendFilter(a) PROVE FilterInv'
    <3> DEFINE e == registered[a]
               n == calls + 1
    <3>1. /\ e \in Conns /\ calls' = n /\ UNCHANGED <<hpc, fpc, fch, fhand, sent>>
          /\ filterCh' = IF Len(filterCh[e]) < FilterCap
                           THEN [filterCh EXCEPT ![e] = Append(@, n)] ELSE filterCh
      BY <2>4, Zenon DEF SendFilter, TypeOK
    <3>2. n \in Nat /\ calls < n /\ \A d \in Conns : \A m \in Queued(d) \cup InHand(d) \cup Written(d) : m < n
      BY <2>t, <2>n DEF FilterInv
    <3>3. Increasing(Append(filterCh[e], n)) /\ Numbers(Append(filterCh[e], n)) = Queued(e) \cup {n}
      BY <2>t, <3>1, <3>2, NumbersAppend, Zenon DEF Queued, FilterInv
    <3> HIDE DEF e, n
    <3>4. \A d \in Conns : /\ Queued(d)' = Queued(d) \/ (d = e /\ Queued(d)' = Queued(e) \cup {n})
                           /\ InHand(d)' = InHand(d) /\ Written(d)' = Written(d)
                           /\ Increasing(filterCh'[d]) /\ Increasing(sent'[d])
      <4>1. \A d \in Conns : /\ InHand(d)' = InHand(d) /\ Written(d)' = Written(d)
                             /\ Increasing(sent'[d])
        BY <3>1, Zenon DEF InHand, Written, FilterInv
      <4>2. \A d \in Conns : \/ filterCh'[d] = filterCh[d]
                             \/ d = e /\ filterCh'[d] = Append(filterCh[e], n)
        BY <2>t, <3>1, Zenon
      <4>3. \A d \in Conns : Increasing(filterCh[d])
        BY Zenon DEF FilterInv
      <4>4. ASSUME NEW d \in Conns
            PROVE  /\ Queued(d)' = Queued(d) \/ (d = e /\ Queued(d)' = Queued(e) \cup {n})
                   /\ Increasing(filterCh'[d])
        <5>1. CASE filterCh'[d] = filterCh[d]
          BY <4>3, <5>1, Zenon DEF Queued
        <5>2. CASE d = e /\ filterCh'[d] = Append(filterCh[e], n)
          BY <3>3, <5>2, Zenon DEF Queued
        <5> QED BY <4>2, <5>1, <5>2, Zenon
      <4> QED BY <4>1, <4>4, Zenon
    <3>6. /\ \A d \in Conns : \A m \in Queued(d)' \cup InHand(d)' \cup Written(d)' : m <= calls'
          /\ \A d, b \in Conns :
               /\ Queued(d)' \cap InHand(b)' = {} /\ Queued(d)' \cap Written(b)' = {}
               /\ InHand(d)' \cap Written(b)' = {}
               /\ d # b => /\ Queued(d)' \cap Queued(b)' = {} /\ InHand(d)' \cap InHand(b)' = {}
                           /\ Written(d)' \cap Written(b)' = {}
      BY <2>n, <3>1, <3>2, <3>4 DEF FilterInv
    <3>7. /\ \A d, b \in Conns : fch'[d] = b =>
               \A m \in Queued(b)' : \A k \in InHand(d)' \cup Written(d)' : k < m
          /\ \A d \in Conns : \A m \in InHand(d)' : \A k \in Written(d)' : k < m
      <4>1. ASSUME NEW d \in Conns, NEW b \in Conns, fch'[d] = b,
                   NEW m \in Queued(b)', NEW k \in InHand(d)' \cup Written(d)' PROVE k < m
        <5>1. fch[d] = b /\ k \in InHand(d) \cup Written(d) /\ (m \in Queued(b) \/ m = n)
          BY <3>1, <3>4, <4>1
        <5> QED BY <3>2, <5>1 DEF FilterInv
      <4>2. ASSUME NEW d \in Conns, NEW m \in InHand(d)', NEW k \in Written(d)' PROVE k < m
        BY <3>4, <4>2, Zenon DEF FilterInv
      <4> QED BY <4>1, <4>2, Zenon
    <3>8. \A d \in Conns :
            /\ fpc'[d] = "write" => fch'[d] # None
            /\ fpc'[d] = "none" => Written(d)' = {}
            /\ hpc'[d] \in {"none", "handshake", "ack", "register", "filterch"} => fpc'[d] = "none"
      BY <2>t, <3>1, <3>4, Zenon DEF FilterInv
    <3> QED BY <3>4, <3>6, <3>7, <3>8, Zenon DEF FilterInv
  <2>5. ASSUME NEW c \in Conns, FilterCh(c) PROVE FilterInv'
    <3>1. /\ hpc[c] = "filterch" /\ hpc' = [hpc EXCEPT ![c] = "loop"]
          /\ fch' = [fch EXCEPT ![c] = registered[AgentOf[c]]] /\ fpc' = [fpc EXCEPT ![c] = "range"]
          /\ UNCHANGED <<fhand, sent, filterCh, calls>>
      BY <2>5, Zenon DEF FilterCh
    <3>2. fpc[c] = "none" /\ Written(c) = {} /\ hpc \in [Conns -> {"none", "handshake", "ack",
             "register", "filterch", "loop", "stop", "unregister", "close", "done"}]
          /\ registered[AgentOf[c]] \in Conns \cup {None}
      BY <3>1, RegistryConstants, Zenon DEF FilterInv, TypeOK
    <3>4. \A d \in Conns : /\ Queued(d)' = Queued(d) /\ Written(d)' = Written(d)
                           /\ InHand(d)' = InHand(d)
                           /\ Increasing(filterCh'[d]) /\ Increasing(sent'[d])
      BY <2>t, <3>1, <3>2, Zenon DEF Queued, InHand, Written, FilterInv
    <3>5. InHand(c) = {}
      BY <3>2, Zenon DEF InHand
    <3>7. \A d, b \in Conns : fch'[d] = b =>
               \A m \in Queued(b)' : \A k \in InHand(d)' \cup Written(d)' : k < m
      BY <2>t, <3>1, <3>2, <3>4, <3>5 DEF FilterInv
    <3>8. \A d \in Conns :
            /\ fpc'[d] = "write" => fch'[d] # None
            /\ fpc'[d] = "none" => Written(d)' = {}
            /\ hpc'[d] \in {"none", "handshake", "ack", "register", "filterch"} => fpc'[d] = "none"
      BY <2>t, <3>1, <3>2, <3>4, Zenon DEF FilterInv
    <3> QED BY <3>1, <3>4, <3>7, <3>8 DEF FilterInv
  <2>6. ASSUME NEW c \in Conns, RangeEnds(c) \/ WriteFails(c) PROVE FilterInv'
    <3>1. /\ UNCHANGED <<filterCh, sent, fhand, fch, calls, hpc>>
          /\ fpc[c] # "none" /\ fpc' = [fpc EXCEPT ![c] = "done"]
      BY <2>6, Zenon DEF RangeEnds, WriteFails
    <3>2. \A d \in Conns : InHand(d)' \subseteq InHand(d)
      BY <2>t, <3>1, Zenon DEF InHand
    <3>3. \A d \in Conns : fpc'[d] = IF d = c THEN "done" ELSE fpc[d]
      BY <2>t, <3>1, Zenon
    <3> QED BY <2>1, <3>1, <3>2, <3>3 DEF FilterInv
  <2>7. ASSUME NEW c \in Conns,
               \/ Connect(c) \/ PeerGone(c) \/ Batch(c) \/ ReadFails(c) \/ Reject(c) \/ StartSession(c)
               \/ AckFails(c) \/ Ack(c) \/ Register(c) \/ StopCapture(c) \/ Unregister(c) \/ Close(c)
        PROVE  FilterInv'
    <3>1. UNCHANGED <<filterCh, sent, fhand, fch, fpc, calls>>
      BY <2>7, Zenon DEF Connect, PeerGone, Batch, ReadFails, Reject, StartSession, AckFails, Ack,
          Register, StopCapture, Unregister, Close
    <3>2. /\ \A d \in Conns : d = c \/ hpc'[d] = hpc[d]
          /\ hpc'[c] \in {"none", "handshake", "ack", "register", "filterch"} =>
               hpc[c] \in {"none", "handshake", "ack", "register", "filterch"}
      <4>1. CASE Connect(c) \/ Reject(c) \/ StartSession(c) \/ AckFails(c) \/ Ack(c) \/ Register(c)
        <5>1. hpc[c] \in {"none", "handshake", "ack", "register"}
          BY <4>1, Zenon DEF Connect, Reject, StartSession, AckFails, Ack, Register, ChannelInv
        <5>2. \A d \in Conns : d = c \/ hpc'[d] = hpc[d]
          BY <4>1, Zenon DEF Connect, Reject, StartSession, AckFails, Ack, Register, TypeOK
        <5> QED BY <5>1, <5>2, Zenon
      <4>2. CASE ReadFails(c) \/ StopCapture(c) \/ Unregister(c) \/ Close(c)
        BY <4>2 DEF ReadFails, StopCapture, Unregister, Close, TypeOK
      <4>3. CASE PeerGone(c) \/ Batch(c)
        BY <4>3, Zenon DEF PeerGone, Batch
      <4> QED BY <2>7, <4>1, <4>2, <4>3, Zenon
    <3>4. \A d \in Conns : InHand(d)' \subseteq InHand(d)
      BY <3>1, Zenon DEF InHand
    <3> QED BY <2>1, <3>1, <3>2, <3>4, Zenon DEF FilterInv
  <2>8. CASE (\E a \in Agents : MarkStale(a)) \/ UNCHANGED vars
    <3>1. UNCHANGED <<filterCh, sent, fhand, fch, fpc, calls, hpc>>
      BY <2>8, Zenon DEF MarkStale, vars
    <3>2. \A d \in Conns : InHand(d)' \subseteq InHand(d)
      BY <3>1, Zenon DEF InHand
    <3> QED BY <2>1, <3>1, <3>2, Zenon DEF FilterInv
  <2> QED
    BY <1>2, <2>2, <2>3, <2>4, <2>5, <2>6, <2>7, <2>8, Zenon DEF Next, Handler, Forwarder
<1> QED BY <1>1, <1>2, RegistryTypeCorrect, ChannelInvariant, PTL DEF Spec

(* Whatever connections open and close, a filter of the UI is sent on one   *)
(* connection and once, and a connection is sent its filters in the order   *)
(* of the SendFilter calls, also when its forwarder ranges over the channel *)
(* of another connection of the agent.                                      *)
THEOREM FiltersAreOrdered == Spec => []FiltersInOrder
<1>1. FilterInv => FiltersInOrder
  <2> SUFFICES ASSUME FilterInv PROVE FiltersInOrder
    BY Zenon
  <2>1. \A c \in Conns : \A i, j \in 1 .. Len(sent[c]) : i < j => sent[c][i] < sent[c][j]
    BY Zenon DEF FilterInv, Increasing
  <2>2. ASSUME NEW c \in Conns, NEW d \in Conns, c # d,
               NEW i \in 1 .. Len(sent[c]), NEW j \in 1 .. Len(sent[d])
        PROVE  sent[c][i] # sent[d][j]
    <3>1. sent[c][i] \in Written(c) /\ sent[d][j] \in Written(d)
      BY Zenon DEF Written, Numbers
    <3>2. Written(c) \cap Written(d) = {}
      BY <2>2, Zenon DEF FilterInv
    <3> QED BY <3>1, <3>2, Zenon
  <2> QED BY <2>1, <2>2, Zenon DEF FiltersInOrder
<1> QED BY <1>1, FilterInvariant, PTL
=============================================================================

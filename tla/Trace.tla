-------------------------------- MODULE Trace --------------------------------
(***************************************************************************)
(* The tracer of telecom sessions: one session for every subscriber (IMSI) *)
(* that the flows of a job name, to which the flows of every layer are     *)
(* attached, and one for every SIP call that no subscriber has claimed.    *)
(***************************************************************************)
EXTENDS Integers, Sequences, FiniteSets, SequencesExt

CONSTANTS
  TraceFlows,  \* bound on the flows of a job
  TraceTimes,  \* the times at which they start (0 is the zero time)
  TimeWindow   \* timeWindow

VARIABLE jobFlows  \* the flows that the decoders have flushed, in their order

None == 0

\* A flow: the SIP and RTP ones have an address of a UE (1, or 2 for another machine)
\* and a media end point.
F(type, imsi, teid, ip, media, step) ==
  [type |-> type, imsi |-> imsi, teid |-> teid, ip |-> ip, media |-> media,
   step |-> step]

Kinds ==
  {F("ngap", i, None, None, None, "attach") : i \in {None, 1, 2}}
  \cup {F("ngap", i, None, None, None, "release") : i \in {None, 1}}
  \cup {F("gtpc", p[1], 7, p[2], None, "establish") :
          p \in {<<None, 1>>, <<1, None>>, <<1, 1>>, <<2, None>>}}
  \cup {F("gtpu", None, t, None, None, "tunnel") : t \in {7, 8}}
  \cup {F("diameter", i, None, None, None, "other") : i \in {None, 1}}
  \cup {F("pfcp", None, None, None, None, "other")}
  \cup {F("sip", None, None, ip, m, "call") : ip \in {1, 2}, m \in {None, 5}}
  \cup {F("rtp", None, None, None, m, "media") : m \in {5, 6}}

----------------------------------------------------------------------------
(* Trace(). *)

Milestones == {"attach", "release", "establish", "tunnel", "call", "media"}

StateOf == [attach |-> "attaching", establish |-> "establishing", tunnel |-> "active",
            call |-> "active", media |-> "active", release |-> "releasing"]

\* buildIMSISessions: the first value of a field among the flows that name the IMSI.
ImsiSources == <<"ngap", "gtpc", "diameter">>
NewSession(flows, imsi) ==
  LET of(type) == SelectSeq(flows, LAMBDA f : f.type = type /\ f.imsi = imsi /\ f.ip # None)
      found == of("ngap") \o of("gtpc") \o of("diameter")
  IN  [imsi |-> imsi, ueip |-> IF found = << >> THEN None ELSE Head(found).ip, teids |-> {},
       hops |-> << >>, start |-> 0, end |-> 0]

Imsis(flows) ==
  {flows[i].imsi : i \in {j \in DOMAIN flows : flows[j].type \in Range(ImsiSources)}} \ {None}

\* timeOverlaps: a session whose start is not known overlaps everything.
TimeOverlaps(s, f) ==
  \/ s.start = 0 \/ f.start = 0
  \/ /\ f.start < (IF s.end = 0 THEN s.start ELSE s.end) + TimeWindow
     /\ s.start < f.end + TimeWindow

OfType(flows, type) == {i \in DOMAIN flows : flows[i].type = type}

\* Flows are attached in their order: each one is a hop and an event.
Attach(s, found) == [s EXCEPT !.hops = @ \o SetToSortSeq(found, <)]

AttachNGAP(s, flows) ==
  Attach(s, {i \in OfType(flows, "ngap") : flows[i].imsi = s.imsi \/ TimeOverlaps(s, flows[i])})

\* Mutant: the IMSI that a flow names is not looked at.
OwnOrProximateAny(s, f) == f.imsi = s.imsi \/ TimeOverlaps(s, f)

\* attachGTPC and attachDiameter: the IMSI decides when there is one.
OwnOrProximate(s, f) == f.imsi = s.imsi \/ (f.imsi = None /\ TimeOverlaps(s, f))

\* A flow attached here also gives the session its TEID, and its UE address when there
\* is none yet.  The F-TEIDs of the bearers are looked for in a list of another type
\* than the one the GTP decoder makes, so that none is found.
AttachGTPC(s, flows) ==
  LET a == Attach(s, {i \in OfType(flows, "gtpc") : OwnOrProximate(s, flows[i])})
      new == SelectSeq(flows, LAMBDA f : f.type = "gtpc" /\ OwnOrProximate(s, f))
      ips == SelectSeq(new, LAMBDA f : f.ip # None)
  IN  [a EXCEPT !.teids = @ \cup {new[i].teid : i \in DOMAIN new},
                !.ueip = IF @ = None /\ ips # << >> THEN Head(ips).ip ELSE @]

AttachDiameter(s, flows) ==
  Attach(s, {i \in OfType(flows, "diameter") : OwnOrProximate(s, flows[i])})

AttachPFCP(s, flows) == Attach(s, {i \in OfType(flows, "pfcp") : TimeOverlaps(s, flows[i])})

AttachGTPU(s, flows) ==
  LET found == {i \in OfType(flows, "gtpu") : flows[i].teid \in s.teids \/ TimeOverlaps(s, flows[i])}
  IN  [Attach(s, found) EXCEPT !.teids = @ \cup {flows[i].teid : i \in found}]

AttachSIP(s, flows) ==
  Attach(s, {i \in OfType(flows, "sip") :
               (s.ueip # None /\ flows[i].ip = s.ueip) \/ TimeOverlaps(s, flows[i])})

HopsOf(s, flows, type) == SelectSeq(s.hops, LAMBDA i : flows[i].type = type)

\* Mutant: the media of every call is attached once the session has any call.
AttachRTPAny(s, flows) == Attach(s, {i \in OfType(flows, "rtp") : TimeOverlaps(s, flows[i])})

AttachRTP(s, flows) ==
  LET sip == HopsOf(s, flows, "sip")
      endpoints == {flows[sip[i]].media : i \in DOMAIN sip} \ {None}
  IN  Attach(s, {i \in OfType(flows, "rtp") : \/ flows[i].media \in endpoints
                                              \/ endpoints = {} /\ TimeOverlaps(s, flows[i])})

\* Mutant: the bounds are those of the first and the last hop attached.
FinaliseUnsorted(s, flows) ==
  IF s.hops = << >> THEN s
  ELSE [s EXCEPT !.start = flows[Head(s.hops)].start, !.end = flows[Last(s.hops)].end]

\* finalise: the bounds of the session are those of its events and of its media; the zero
\* time starts it only when there is no other.
Finalise(s, flows) ==
  LET at == {flows[s.hops[i]].start : i \in DOMAIN s.hops}
      rtp == HopsOf(s, flows, "rtp")
      ends == at \cup {flows[rtp[i]].end : i \in DOMAIN rtp}
      known == IF at \subseteq {0} THEN at ELSE at \ {0}
  IN  IF at = {} THEN s
      ELSE [s EXCEPT !.start = CHOOSE t \in known : \A u \in known : t <= u,
                     !.end = CHOOSE t \in ends : \A u \in ends : t >= u]

ImsiSessions(flows) ==
  LET attached(imsi) ==
        AttachRTP(AttachSIP(AttachGTPU(AttachPFCP(AttachDiameter(AttachGTPC(
          AttachNGAP(NewSession(flows, imsi), flows), flows), flows), flows), flows), flows), flows)
  IN  {Finalise(attached(imsi), flows) : imsi \in Imsis(flows)}

\* Mutant: calls that a subscriber has claimed are reported again.
ClaimedNone(flows, sessions) == {}

Claimed(flows, sessions) == UNION {Range(HopsOf(s, flows, "sip")) : s \in sessions}

\* buildIMSSessions.
ImsSessions(flows, sessions) ==
  LET media(f) == SetToSortSeq({j \in DOMAIN flows : /\ flows[j].type = "rtp"
                                                     /\ f.media # None /\ flows[j].media = f.media}, <)
      call(i) == [imsi |-> None, ueip |-> None, teids |-> {},
                  hops |-> <<i>> \o media(flows[i]), start |-> 0, end |-> 0]
  IN  {Finalise(call(i), flows) :
         i \in {j \in DOMAIN flows : flows[j].type = "sip"} \ Claimed(flows, sessions)}

Traced(flows) == LET s == ImsiSessions(flows) IN s \cup ImsSessions(flows, s)

\* The orders in which sort.Slice, which is not stable, can leave the events.
Orders(s, flows) ==
  {o \in [DOMAIN s.hops -> Range(s.hops)] :
     /\ Range(o) = Range(s.hops)
     /\ \A i, j \in DOMAIN o : i < j => flows[o[i]].start <= flows[o[j]].start}

\* The step of an event: RTP_Stream, which the media of a call without a subscriber gets,
\* is not a milestone; RTP_Media is.
StepIn(s, f) == IF s.imsi = None /\ f.type = "rtp" THEN "other" ELSE f.step

\* buildLifecycle: the first event of every milestone.
Lifecycle(s, o, flows) ==
  LET step(i) == StepIn(s, flows[o[i]])
      first(i) == \A j \in 1..i - 1 : step(j) # step(i)
      steps == SetToSortSeq({i \in DOMAIN o : step(i) \in Milestones /\ first(i)}, <)
  IN  [k \in DOMAIN steps |-> flows[o[steps[k]]]]

\* Mutant: the milestone that came first is the state.
UEStateFirst(s, o, flows) ==
  LET l == Lifecycle(s, o, flows) IN IF l = << >> THEN "idle" ELSE StateOf[Head(l).step]

\* The state of the UE is the one its last milestone leads to.
UEState(s, o, flows) ==
  LET l == Lifecycle(s, o, flows) IN IF l = << >> THEN "idle" ELSE StateOf[Last(l).step]

----------------------------------------------------------------------------
TraceInit == jobFlows = << >>

\* A decoder flushes one more flow of the job.
Flushed ==
  /\ Len(jobFlows) < TraceFlows
  /\ \E k \in Kinds, t \in TraceTimes, d \in {0, 1} :
       /\ d > 0 => k.type = "rtp"
       /\ jobFlows' = Append(jobFlows, k @@ [start |-> t, end |-> t + d])

TraceNext == Flushed

----------------------------------------------------------------------------
(* Properties. *)

\* A GTP-C or Diameter flow that names a subscriber is a hop of the session of that
\* subscriber and of no other: what an IMSI marks never leaks to another UE.
ImsiSeparates(sessions) ==
  \A s \in sessions, i \in DOMAIN jobFlows :
    jobFlows[i].type \in {"gtpc", "diameter"} /\ jobFlows[i].imsi # None =>
      (i \in Range(s.hops) <=> jobFlows[i].imsi = s.imsi)

\* Every call is in a trace, and a call that a subscriber has claimed is not reported
\* once more as a call without one.
CallTracedOnce(sessions) ==
  \A i \in DOMAIN jobFlows : jobFlows[i].type = "sip" =>
    LET in == {s \in sessions : i \in Range(s.hops)} IN
    /\ in # {}
    /\ (\E s \in in : s.imsi = None) => Cardinality(in) = 1

\* When the calls of a session say where their media goes, its RTP hops are media of
\* those calls only.
MediaOfCalls(sessions) ==
  \A s \in sessions :
    LET media == {jobFlows[s.hops[i]].media : i \in {j \in DOMAIN s.hops :
                                                      jobFlows[s.hops[j]].type = "sip"}} \ {None}
    IN  media # {} => \A i \in DOMAIN s.hops :
                        jobFlows[s.hops[i]].type = "rtp" => jobFlows[s.hops[i]].media \in media

\* The bounds of a session hold all of its hops, and the milestones of its lifecycle come
\* once each, in order of time, none before the session starts.
LifecycleInBounds(sessions) ==
  \A s \in sessions :
    /\ \A i \in Range(s.hops) : s.start <= jobFlows[i].start /\ jobFlows[i].end <= s.end
    /\ \A o \in Orders(s, jobFlows) :
         LET l == Lifecycle(s, o, jobFlows) IN
         \A j, k \in DOMAIN l : j < k => l[j].step # l[k].step /\ l[j].start <= l[k].start

\* A UE that is released after everything else is reported as releasing, whatever order
\* the sort leaves events of the same time in.
ReleaseSeen(sessions) ==
  \A s \in sessions :
    LET released == {i \in Range(s.hops) : jobFlows[i].step = "release"} IN
    (/\ released # {}
     /\ \A i \in released, j \in Range(s.hops) \ released : jobFlows[j].start < jobFlows[i].start)
    => \A o \in Orders(s, jobFlows) : UEState(s, o, jobFlows) = "releasing"

\* The hops of a session are its own: no flow marked with another IMSI, no call that is
\* traced elsewhere too, no media of another call; and no call is left out.
HopsOwn ==
  LET s == Traced(jobFlows) IN ImsiSeparates(s) /\ CallTracedOnce(s) /\ MediaOfCalls(s)

\* The bounds, the lifecycle and the state of a session follow from the times of its hops,
\* however sort.Slice leaves hops of the same time.
LifecycleSound ==
  LET s == Traced(jobFlows) IN LifecycleInBounds(s) /\ ReleaseSeen(s)
=============================================================================

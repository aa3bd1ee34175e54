----------------------------- MODULE CallMedia -----------------------------
(***************************************************************************)
(* A telephone call as the decoders see it: the SIP sessions of one        *)
(* Call-ID (one per worker that gets packets of it, a proxied call has two *)
(* address pairs), an RTP stream with its sequence numbers, and the join   *)
(* of the two (CorrelateSIPRTP).                                           *)
(***************************************************************************)
EXTENDS Integers, Sequences, FiniteSets

CONSTANTS
  SipWorkers,  \* 1..n, in the order in which their flows are collected
  SeqSpace,    \* 2^16: RTP sequence numbers wrap
  FirstRtp,    \* the stream's first sequence number
  MaxBurst,    \* bound on packets lost in a row
  MaxSip,      \* bound on SIP messages
  MaxRtp       \* bound on RTP packets received

\* The packets lost in a row are fewer than the sequence numbers.
ASSUME CallConstants ==
  /\ SipWorkers \subseteq Nat /\ SeqSpace \in Nat /\ FirstRtp \in 0..SeqSpace - 1
  /\ MaxBurst \in Nat /\ MaxBurst + 1 < SeqSpace /\ MaxSip \in Nat /\ MaxRtp \in Nat

Holding == {"sendonly", "inactive"}
Directions == Holding \cup {"sendrecv", "recvonly"}
NoSession == [invite |-> -1]
Here == <<"a", 1>>      \* the media endpoint that the call announces
There == <<"b", 2>>

VARIABLES
  sip,       \* sip[w]: the session in worker w's decoder
  sipTime,   \* SIP messages so far; a message's timestamp
  invites,   \* times of the INVITEs each worker has seen (history)
  rtp,       \* the RTP stream
  rtpNext,   \* the sender's next sequence number
  dropped,   \* packets lost between two received ones (history)
  lateRtp    \* a packet came after a later one (history)

callVars == <<sip, sipTime, invites, rtp, rtpNext, dropped, lateRtp>>

----------------------------------------------------------------------------
(* SIP. *)

\* getSession.
Session(w, ts) ==
  IF sip[w] # NoSession THEN sip[w]
  ELSE [start |-> ts, method |-> "", invite |-> -1, bye |-> -1, first200 |-> -1,
        media |-> << >>, dir |-> "", holds |-> << >>, holdCount |-> 0]

\* Mutant: every change of direction is an event.
TrackDirectionAll(s, dir) ==
  LET isHold == dir \in Holding IN
  IF s.dir # dir /\ (s.dir # "" \/ isHold)
  THEN [s EXCEPT !.dir = dir, !.holds = Append(@, isHold),
                 !.holdCount = IF isHold THEN @ + 1 ELSE @]
  ELSE [s EXCEPT !.dir = dir]

\* trackDirectionChange.
TrackDirectionChange(s, dir) ==
  LET isHold == dir \in Holding
      wasHold == s.dir \in Holding
  IN  IF (s.dir # "" /\ isHold # wasHold) \/ (s.dir = "" /\ isHold)
      THEN [s EXCEPT !.dir = dir, !.holds = Append(@, isHold),
                     !.holdCount = IF isHold THEN @ + 1 ELSE @]
      ELSE [s EXCEPT !.dir = dir]

\* parseSDP: the endpoint and the direction, nothing without an address or a port.
ParseSDP(s, sdp) ==
  IF sdp = "none" THEN s ELSE TrackDirectionChange([s EXCEPT !.media = Here], sdp)

\* Only the first 200 sets the time of the answer.
Response(s, code, ts) == IF code = 200 /\ s.first200 = -1 THEN [s EXCEPT !.first200 = ts] ELSE s

\* Mutant: every request but a BYE counts as an INVITE.
RequestAny(s, method, ts) ==
  LET named == IF s.method = "" THEN [s EXCEPT !.method = method] ELSE s IN
  IF method = "BYE" THEN [named EXCEPT !.bye = ts] ELSE [named EXCEPT !.invite = ts]

Request(s, method, ts) ==
  LET named == IF s.method = "" THEN [s EXCEPT !.method = method] ELSE s IN
  IF method = "INVITE" THEN [named EXCEPT !.invite = ts]
  ELSE IF method = "BYE" THEN [named EXCEPT !.bye = ts] ELSE named

\* handlePayload, for a message with this Call-ID.
HandleSip(w) ==
  /\ sipTime < MaxSip /\ sipTime' = sipTime + 1
  /\ \E sdp \in {"none"} \cup Directions :
       \/ \E m \in {"INVITE", "BYE", "ACK"} :
            /\ sip' = [sip EXCEPT ![w] = ParseSDP(Request(Session(w, sipTime), m, sipTime), sdp)]
            /\ invites' = IF m = "INVITE" THEN [invites EXCEPT ![w] = Append(@, sipTime)] ELSE invites
       \/ \E code \in {200, 486} :
            /\ sip' = [sip EXCEPT ![w] = ParseSDP(Response(Session(w, sipTime), code, sipTime), sdp)]
            /\ UNCHANGED invites
  /\ UNCHANGED <<rtp, rtpNext, dropped, lateRtp>>

----------------------------------------------------------------------------
(* RTP. *)

\* Mutant: the difference of the sequence numbers is not reduced to 16 bits.
SeqGapPlain(seq, last) == seq - last

SeqGap(seq, last) == (seq - last) % SeqSpace

\* AddPacket.
AddPacket(seq) ==
  LET gap == SeqGap(seq, rtp.last) IN
  rtp' = [last |-> seq, count |-> rtp.count + 1,
          lost |-> IF rtp.count > 0 /\ gap > 1 THEN rtp.lost + gap - 1 ELSE rtp.lost,
          maxGap |-> IF rtp.count > 0 /\ gap > rtp.maxGap THEN gap ELSE rtp.maxGap]

\* A packet after n lost ones.
RtpArrives(n) ==
  /\ rtp.count < MaxRtp
  /\ AddPacket((rtpNext + n) % SeqSpace)
  /\ rtpNext' = (rtpNext + n + 1) % SeqSpace
  /\ dropped' = IF rtp.count = 0 THEN 0 ELSE dropped + n
  /\ UNCHANGED <<sip, sipTime, invites, lateRtp>>

\* The last packet once more, or the one before it, late.
RtpAgain(back) ==
  /\ rtp.count \in 1..MaxRtp - 1
  /\ AddPacket((rtp.last - back) % SeqSpace)
  /\ lateRtp' = (lateRtp \/ back > 0)
  /\ UNCHANGED <<sip, sipTime, invites, rtpNext, dropped>>

----------------------------------------------------------------------------
(* CorrelateSIPRTP. *)

\* The workers that have a flow of the Call-ID.
SipFlows == {w \in SipWorkers : sip[w] # NoSession}

\* Mutant: every worker's flow of the Call-ID is kept.
DeduplicatedNot == SipFlows

\* Of the flows of a Call-ID the first is kept: that of the first worker.
Deduplicated == {w \in SipFlows : \A v \in SipFlows : w <= v}

\* isValidRTP, and the test of a leg: an address and a port of the media, not
\* necessarily of the same end.
IsValidRTP(src, dst, allowed) == src \in allowed \/ dst \in allowed
IsLeg(src, dst, media) == media[1] \in {src[1], dst[1]} /\ media[2] \in {src[2], dst[2]}

\* The calls: for each flow with media, its legs among the RTP flows.
CorrelateSIPRTP(rtpFlows) ==
  LET withMedia == {w \in Deduplicated : sip[w].media # << >>}
      allowed == {sip[w].media : w \in withMedia}
      legs(media) == {f \in rtpFlows : IsValidRTP(f[1], f[2], allowed) /\ IsLeg(f[1], f[2], media)}
  IN  {[worker |-> w, legs |-> legs(sip[w].media)] : w \in withMedia}

\* Flush: whether the setup of the call is reported, and how long it took.
HasLatency(s) == s.invite # -1 /\ s.first200 # -1
SetupLatency(s) == s.first200 - s.invite

----------------------------------------------------------------------------
CallInit ==
  /\ sip = [w \in SipWorkers |-> NoSession] /\ sipTime = 0
  /\ invites = [w \in SipWorkers |-> << >>]
  /\ rtp = [last |-> FirstRtp, count |-> 0, lost |-> 0, maxGap |-> 0]
  /\ rtpNext = FirstRtp /\ dropped = 0 /\ lateRtp = FALSE

\* The two decoders share nothing before the join: each is run by itself.
SipNext == \E w \in SipWorkers : HandleSip(w)
RtpNext == (\E n \in 0..MaxBurst : RtpArrives(n)) \/ (\E back \in 0..1 : RtpAgain(back))

----------------------------------------------------------------------------
(* Properties. *)

\* Holds and resumptions alternate, beginning with a hold, and each hold is counted
\* once, whatever directions offers and answers carry.
HoldsAlternate ==
  \A w \in SipFlows :
    /\ \A i \in DOMAIN sip[w].holds : sip[w].holds[i] = (i % 2 = 1)
    /\ sip[w].holdCount = (Len(sip[w].holds) + 1) \div 2

\* The setup time of a call with one INVITE runs from it to the first answer.
SetupOfFirstAnswer ==
  \A w \in SipFlows :
    Len(invites[w]) = 1 /\ invites[w][1] < sip[w].first200 =>
      HasLatency(sip[w]) /\ SetupLatency(sip[w]) = sip[w].first200 - invites[w][1]

\* The loss of a stream received in order is the number of packets missing between
\* its first and its last, also where the sequence number wraps or a packet is
\* duplicated.
LossExact == ~lateRtp => rtp.lost = dropped

\* The RTP flows between the two ends and a third one.
RtpFlows == {<<Here, There>>, <<There, Here>>, <<There, <<"c", 3>>>>}

\* A Call-ID is at most one call, however many workers have seen it, and its legs are
\* the streams of its endpoint.
CallOnce ==
  LET calls == CorrelateSIPRTP(RtpFlows) IN
  /\ \A c, d \in calls : c = d
  /\ \A c \in calls : c.legs = {f \in RtpFlows : Here \in {f[1], f[2]}}

\* A call is reported once, and the holds, the setup time and the loss reported with it
\* are those of its messages and its packets.
CallExact == CallOnce /\ HoldsAlternate /\ SetupOfFirstAnswer /\ LossExact
=============================================================================

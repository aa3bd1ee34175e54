--------------------------- MODULE TrafficProofs ---------------------------
(***************************************************************************)
(* Traffic whose sequence numbers wrap, for every value of the constants:  *)
(* a call is reported with its own holds, setup time, streams and loss     *)
(* (CallMedia), and a flow with every packet, retransmission and reset of  *)
(* its conversation (FlowTracker).                                         *)
(***************************************************************************)
EXTENDS TLAPS, CallMedia, FlowTracker

----------------------------------------------------------------------------
(* A call. *)

CallNext == SipNext \/ RtpNext
CallSpec == CallInit /\ [][CallNext]_callVars

SipSessions ==
  [start : Nat, method : {"", "INVITE", "BYE", "ACK"}, invite : Int, bye : Int, first200 : Int,
   media : {<< >>, Here}, dir : {""} \cup Directions, holds : Seq(BOOLEAN), holdCount : Int]

\* The direction tells whether the last event is a hold.
HoldsInv(s) ==
  /\ s.dir \in Holding <=> Len(s.holds) % 2 = 1
  /\ \A i \in 1..Len(s.holds) : s.holds[i] = (i % 2 = 1)
  /\ s.holdCount = (Len(s.holds) + 1) \div 2

\* The INVITE of a session is the last one its worker has seen.
InviteInv(s, seen) == Len(seen) > 0 => s.invite = seen[Len(seen)]

SipTypes ==
  /\ sipTime \in Nat /\ sip \in [SipWorkers -> {NoSession} \cup SipSessions]
  /\ invites \in [SipWorkers -> Seq(Nat)]

SipInv ==
  \A w \in SipWorkers :
    /\ sip[w] = NoSession => Len(invites[w]) = 0
    /\ sip[w] # NoSession => HoldsInv(sip[w]) /\ InviteInv(sip[w], invites[w])

RtpTypes ==
  /\ rtp \in [last : 0..SeqSpace - 1, count : Nat, lost : Int, maxGap : Int]
  /\ rtpNext \in 0..SeqSpace - 1 /\ dropped \in Nat /\ lateRtp \in BOOLEAN

\* Without a late packet the sender's next number follows the last one received.
RtpInv ==
  /\ rtp.count = 0 => rtp.lost = 0 /\ dropped = 0
  /\ ~lateRtp => rtp.lost = dropped
  /\ ~lateRtp /\ rtp.count > 0 => rtpNext = (rtp.last + 1) % SeqSpace

CallInv == SipTypes /\ SipInv /\ RtpTypes /\ RtpInv

(* Remainders. *)

LEMMA TimesStep == ASSUME NEW a \in Int, NEW b \in Int, NEW m \in Nat \ {0}, a < b PROVE a * m + m <= b * m
<1>1. PICK c \in Nat : b = a + 1 + c
  <2>1. b - a - 1 \in Nat /\ b = a + 1 + (b - a - 1)
    OBVIOUS
  <2> QED BY <2>1, Zenon
<1>2. c * m >= 0
  OBVIOUS
<1>3. b * m = a * m + m + c * m
  BY <1>1
<1> QED BY <1>2, <1>3

LEMMA DivMod == ASSUME NEW a \in Int, NEW m \in Nat \ {0}
                PROVE /\ a \div m \in Int /\ a % m \in 0..m-1 /\ a = (a \div m) * m + (a % m)
<1>1. a \div m \in Int
  OBVIOUS
<1>2. a % m \in 0..m-1
  OBVIOUS
<1>3. a = m * (a \div m) + (a % m)
  OBVIOUS
<1>4. m * (a \div m) = (a \div m) * m
  BY <1>1
<1> QED BY <1>1, <1>2, <1>3, <1>4, Zenon

LEMMA ModUnique == ASSUME NEW a \in Int, NEW m \in Nat \ {0}, NEW q \in Int, NEW r \in 0..m-1, a = q * m + r
                   PROVE a % m = r
<1> DEFINE p == a \div m
<1> DEFINE s == a % m
<1>1. p \in Int /\ s \in 0..m-1 /\ a = p * m + s
  BY DivMod, Zenon
<1> HIDE DEF p, s
<1>a. p * m \in Int /\ q * m \in Int BY <1>1
<1>2. CASE p < q
  <2>1. p * m + m <= q * m BY <1>1, <1>2, TimesStep, Zenon
  <2> QED BY <2>1, <1>1, <1>a
<1>3. CASE q < p
  <2>1. q * m + m <= p * m BY <1>1, <1>3, TimesStep, Zenon
  <2> QED BY <2>1, <1>1, <1>a
<1>4. CASE p = q
  <2>1. s = r BY <1>1, <1>4, <1>a
  <2> QED BY <2>1, Zenon DEF s
<1> QED BY <1>1, <1>2, <1>3, <1>4

LEMMA ModPlus == ASSUME NEW a \in Int, NEW b \in Int, NEW m \in Nat \ {0}
                 PROVE ((a % m) + b) % m = (a + b) % m
<1> DEFINE p == a \div m
<1> DEFINE s == a % m
<1>1. p \in Int /\ s \in 0..m-1 /\ a = p * m + s
  BY DivMod, Zenon
<1> HIDE DEF p, s
<1> DEFINE q == (s + b) \div m
<1> DEFINE r == (s + b) % m
<1>2. s + b \in Int
  BY <1>1
<1>3. q \in Int /\ r \in 0..m-1 /\ s + b = q * m + r
  BY <1>2, DivMod, Zenon
<1> HIDE DEF q, r
<1>4. p + q \in Int /\ (p + q) * m = p * m + q * m /\ p * m \in Int /\ q * m \in Int
  BY <1>1, <1>3
<1>5. a + b = (p + q) * m + r
  BY <1>1, <1>3, <1>4
<1>6. a + b \in Int
  OBVIOUS
<1>7. (a + b) % m = r
  BY <1>3, <1>4, <1>5, <1>6, ModUnique, Zenon
<1> QED BY <1>7, Zenon DEF r, s

LEMMA ModSmall == ASSUME NEW m \in Nat \ {0}, NEW r \in 0..m-1 PROVE r % m = r
<1>1. r \in Int /\ 0 \in Int /\ r = 0 * m + r
  OBVIOUS
<1> QED BY <1>1, ModUnique, Zenon

(* RTP. *)

\* What a packet adds to the loss.
LEMMA PacketAdded ==
  ASSUME RtpTypes, NEW seq \in 0..SeqSpace - 1, AddPacket(seq)
  PROVE  /\ rtp' \in [last : 0..SeqSpace - 1, count : Nat, lost : Int, maxGap : Int]
         /\ rtp'.last = seq /\ rtp'.count = rtp.count + 1
         /\ rtp.count = 0 \/ ~(SeqGap(seq, rtp.last) > 1) => rtp'.lost = rtp.lost
         /\ rtp.count > 0 /\ SeqGap(seq, rtp.last) > 1 => rtp'.lost = rtp.lost + SeqGap(seq, rtp.last) - 1
<1> DEFINE gap == SeqGap(seq, rtp.last)
<1>1. SeqSpace \in Nat \ {0}
  BY CallConstants
<1>2. rtp.last \in 0..SeqSpace - 1 /\ rtp.count \in Nat /\ rtp.lost \in Int /\ rtp.maxGap \in Int
  BY Zenon DEF RtpTypes
<1>3. gap \in Int
  BY <1>1, <1>2 DEF SeqGap
<1>4. rtp' = [last |-> seq, count |-> rtp.count + 1,
          lost |-> IF rtp.count > 0 /\ gap > 1 THEN rtp.lost + gap - 1 ELSE rtp.lost,
          maxGap |-> IF rtp.count > 0 /\ gap > rtp.maxGap THEN gap ELSE rtp.maxGap]
  BY Zenon DEF AddPacket
<1> HIDE DEF gap
<1>5. /\ rtp' \in [last : 0..SeqSpace - 1, count : Nat, lost : Int, maxGap : Int]
      /\ rtp'.last = seq /\ rtp'.count = rtp.count + 1
      /\ rtp.count = 0 \/ ~(gap > 1) => rtp'.lost = rtp.lost
      /\ rtp.count > 0 /\ gap > 1 => rtp'.lost = rtp.lost + gap - 1
  BY <1>2, <1>3, <1>4
<1> QED BY <1>5, Zenon DEF gap

\* The gap that n lost packets leave.
LEMMA GapOfBurst ==
  ASSUME NEW last \in 0..SeqSpace - 1, NEW n \in 0..MaxBurst
  PROVE  SeqGap((((last + 1) % SeqSpace) + n) % SeqSpace, last) = n + 1
<1>1. SeqSpace \in Nat \ {0} /\ last + 1 \in Int /\ n \in Int /\ last \in Int /\ -last \in Int /\ n + 1 \in 0..SeqSpace - 1
  BY CallConstants
<1>2. (((last + 1) % SeqSpace) + n) % SeqSpace = ((last + 1) + n) % SeqSpace
  BY <1>1, ModPlus, Zenon
<1>3. (last + 1) + n \in Int /\ ((last + 1) + n) + (-last) = n + 1
  BY <1>1
<1>4. ((((last + 1) + n) % SeqSpace) + (-last)) % SeqSpace = (((last + 1) + n) + (-last)) % SeqSpace
  BY <1>1, <1>3, ModPlus, Zenon
<1>5. (n + 1) % SeqSpace = n + 1
  BY <1>1, ModSmall, Zenon
<1> DEFINE x == ((last + 1) + n) % SeqSpace
<1>6. x \in Int
  BY <1>1, <1>3
<1>7. (x + (-last)) % SeqSpace = n + 1
  BY <1>3, <1>4, <1>5, Zenon
<1> HIDE DEF x
<1>8. x - last = x + (-last)
  BY <1>1, <1>6, Zenon
<1>9. SeqGap(x, last) = n + 1
  BY <1>7, <1>8, Zenon DEF SeqGap
<1> QED BY <1>2, <1>9, Zenon DEF x

LEMMA ArrivesStep == ASSUME RtpTypes, RtpInv, NEW n \in 0..MaxBurst, RtpArrives(n) PROVE RtpTypes' /\ RtpInv'
<1> DEFINE seq == (rtpNext + n) % SeqSpace
<1>1. SeqSpace \in Nat \ {0} /\ rtpNext + n \in Int /\ n \in Nat /\ 1 \in Int /\ rtpNext + n + 1 \in Int
  BY CallConstants DEF RtpTypes
<1>2. seq \in 0..SeqSpace - 1 /\ rtpNext' \in 0..SeqSpace - 1
  BY <1>1 DEF RtpArrives
<1>3. AddPacket(seq)
  BY Zenon DEF RtpArrives
<1>4. rtpNext' = (seq + 1) % SeqSpace
  BY <1>1, ModPlus, Zenon DEF RtpArrives
<1>5. rtp.count > 0 /\ ~lateRtp => SeqGap(seq, rtp.last) = n + 1
  <2>1. rtp.last \in 0..SeqSpace - 1
    BY Zenon DEF RtpTypes
  <2> QED BY <2>1, GapOfBurst, Zenon DEF RtpInv
<1> HIDE DEF seq
<1>6. dropped' = (IF rtp.count = 0 THEN 0 ELSE dropped + n) /\ lateRtp' = lateRtp
  BY Zenon DEF RtpArrives
<1>7. rtp.count \in Nat /\ rtp.lost \in Int /\ dropped \in Nat /\ lateRtp \in BOOLEAN
  BY Zenon DEF RtpTypes
<1>8. /\ rtp' \in [last : 0..SeqSpace - 1, count : Nat, lost : Int, maxGap : Int]
      /\ rtp'.last = seq /\ rtp'.count = rtp.count + 1
      /\ rtp.count = 0 \/ ~(SeqGap(seq, rtp.last) > 1) => rtp'.lost = rtp.lost
      /\ rtp.count > 0 /\ SeqGap(seq, rtp.last) > 1 => rtp'.lost = rtp.lost + SeqGap(seq, rtp.last) - 1
  BY <1>2, <1>3, PacketAdded, Zenon
<1>9. dropped' \in Nat
  BY <1>1, <1>6, <1>7
<1>10. RtpTypes'
  BY <1>2, <1>6, <1>7, <1>8, <1>9, Zenon DEF RtpTypes
<1>11. ~lateRtp => rtp'.lost = dropped'
  <2>1. SUFFICES ASSUME ~lateRtp PROVE rtp'.lost = dropped'
    BY Zenon
  <2>2. CASE rtp.count = 0
    BY <2>1, <2>2, <1>6, <1>8, Zenon DEF RtpInv
  <2>3. CASE rtp.count > 0 /\ n = 0
    BY <2>1, <2>3, <1>1, <1>5, <1>6, <1>7, <1>8 DEF RtpInv
  <2>4. CASE rtp.count > 0 /\ n > 0
    BY <2>1, <2>4, <1>1, <1>5, <1>6, <1>7, <1>8 DEF RtpInv
  <2> QED BY <2>2, <2>3, <2>4, <1>1, <1>7
<1>12. rtp'.count # 0
  BY <1>7, <1>8
<1> QED BY <1>4, <1>6, <1>8, <1>10, <1>11, <1>12, Zenon DEF RtpInv

LEMMA AgainStep == ASSUME RtpTypes, RtpInv, NEW back \in 0..1, RtpAgain(back) PROVE RtpTypes' /\ RtpInv'
<1> DEFINE seq == (rtp.last - back) % SeqSpace
<1>1. SeqSpace \in Nat \ {0} /\ rtp.last \in 0..SeqSpace - 1 /\ rtp.last - back \in Int
  BY CallConstants DEF RtpTypes
<1>2. seq \in 0..SeqSpace - 1
  BY <1>1
<1>3. AddPacket(seq) /\ rtpNext' = rtpNext /\ dropped' = dropped /\ lateRtp' = (lateRtp \/ back > 0)
  BY Zenon DEF RtpAgain
<1>4. back = 0 => seq = rtp.last /\ ~(SeqGap(seq, rtp.last) > 1)
  <2>1. SUFFICES ASSUME back = 0 PROVE seq = rtp.last /\ ~(SeqGap(seq, rtp.last) > 1)
    BY Zenon
  <2>2. rtp.last % SeqSpace = rtp.last /\ 0 \in 0..SeqSpace - 1 /\ 0 % SeqSpace = 0
    BY <1>1, ModSmall
  <2>3. seq = rtp.last
    BY <1>1, <2>1, <2>2
  <2>4. SeqGap(seq, rtp.last) = 0
    <3>1. rtp.last - rtp.last = 0
      BY <1>1
    <3> QED BY <3>1, <2>2, <2>3, Zenon DEF SeqGap
  <2> QED BY <2>3, <2>4
<1> HIDE DEF seq
<1>5. rtp.count \in Nat /\ rtp.count > 0 /\ rtp.lost \in Int /\ dropped \in Nat /\ lateRtp \in BOOLEAN
  BY CallConstants DEF RtpTypes, RtpAgain
<1>6. /\ rtp' \in [last : 0..SeqSpace - 1, count : Nat, lost : Int, maxGap : Int]
      /\ rtp'.last = seq /\ rtp'.count = rtp.count + 1
      /\ rtp.count = 0 \/ ~(SeqGap(seq, rtp.last) > 1) => rtp'.lost = rtp.lost
  BY <1>2, <1>3, PacketAdded, Zenon
<1>7. RtpTypes'
  BY <1>3, <1>5, <1>6, Zenon DEF RtpTypes
<1>8. ~lateRtp' => ~lateRtp /\ back = 0
  <2>1. back = 0 \/ back > 0
    OBVIOUS
  <2> QED BY <1>3, <2>1, Zenon
<1>9. rtp'.count # 0
  BY <1>5, <1>6
<1> QED BY <1>3, <1>4, <1>5, <1>6, <1>7, <1>8, <1>9, Zenon DEF RtpInv

(* SIP. *)

LEMMA SessionFields ==
  ASSUME NEW s \in SipSessions
  PROVE  /\ s.invite \in Int /\ s.first200 \in Int /\ s.media \in {<< >>, Here}
         /\ s.dir \in {""} \cup Directions /\ s.holds \in Seq(BOOLEAN) /\ s.holdCount \in Int
         /\ s # NoSession
<1>1. DOMAIN s = {"start", "method", "invite", "bye", "first200", "media", "dir", "holds", "holdCount"}
  BY Zenon DEF SipSessions
<1>2. DOMAIN NoSession = {"invite"}
  BY Zenon DEF NoSession
<1>3. s # NoSession
  BY <1>1, <1>2
<1>4. /\ s.invite \in Int /\ s.first200 \in Int /\ s.media \in {<< >>, Here}
      /\ s.dir \in {""} \cup Directions /\ s.holds \in Seq(BOOLEAN) /\ s.holdCount \in Int
  BY Zenon DEF SipSessions
<1> QED BY <1>3, <1>4, Zenon

LEMMA SetMethod == ASSUME NEW s \in SipSessions, NEW m \in {"INVITE", "BYE", "ACK"}
                   PROVE LET t == [s EXCEPT !.method = m] IN
                         t \in SipSessions /\ t.invite = s.invite /\ t.dir = s.dir /\ t.holds = s.holds /\ t.holdCount = s.holdCount
  BY Zenon DEF SipSessions
LEMMA SetInvite == ASSUME NEW s \in SipSessions, NEW v \in Int
                   PROVE LET t == [s EXCEPT !.invite = v] IN
                         t \in SipSessions /\ t.invite = v /\ t.dir = s.dir /\ t.holds = s.holds /\ t.holdCount = s.holdCount
  BY Zenon DEF SipSessions
LEMMA SetBye ==    ASSUME NEW s \in SipSessions, NEW v \in Int
                   PROVE LET t == [s EXCEPT !.bye = v] IN
                         t \in SipSessions /\ t.invite = s.invite /\ t.dir = s.dir /\ t.holds = s.holds /\ t.holdCount = s.holdCount
  BY Zenon DEF SipSessions
LEMMA SetFirst ==  ASSUME NEW s \in SipSessions, NEW v \in Int
                   PROVE LET t == [s EXCEPT !.first200 = v] IN
                         t \in SipSessions /\ t.invite = s.invite /\ t.dir = s.dir /\ t.holds = s.holds /\ t.holdCount = s.holdCount
  BY Zenon DEF SipSessions
LEMMA SetMedia ==  ASSUME NEW s \in SipSessions
                   PROVE LET t == [s EXCEPT !.media = Here] IN
                         t \in SipSessions /\ t.invite = s.invite /\ t.dir = s.dir /\ t.holds = s.holds /\ t.holdCount = s.holdCount
  BY Zenon DEF SipSessions
LEMMA SetDir ==    ASSUME NEW s \in SipSessions, NEW d \in Directions
                   PROVE LET t == [s EXCEPT !.dir = d] IN
                         t \in SipSessions /\ t.invite = s.invite /\ t.dir = d /\ t.holds = s.holds /\ t.holdCount = s.holdCount
  BY Zenon DEF SipSessions
LEMMA SetHolds ==  ASSUME NEW s \in SipSessions, NEW h \in Seq(BOOLEAN)
                   PROVE LET t == [s EXCEPT !.holds = h] IN
                         t \in SipSessions /\ t.invite = s.invite /\ t.dir = s.dir /\ t.holds = h /\ t.holdCount = s.holdCount
  BY Zenon DEF SipSessions
LEMMA SetCount ==  ASSUME NEW s \in SipSessions, NEW c \in Int
                   PROVE LET t == [s EXCEPT !.holdCount = c] IN
                         t \in SipSessions /\ t.invite = s.invite /\ t.dir = s.dir /\ t.holds = s.holds /\ t.holdCount = c
  BY Zenon DEF SipSessions

\* The session after a message but for its SDP.
LEMMA RequestStep ==
  ASSUME NEW s \in SipSessions, NEW m \in {"INVITE", "BYE", "ACK"}, NEW ts \in Int
  PROVE  LET t == Request(s, m, ts) IN
         /\ t \in SipSessions /\ t.dir = s.dir /\ t.holds = s.holds /\ t.holdCount = s.holdCount
         /\ t.invite = IF m = "INVITE" THEN ts ELSE s.invite
<1> DEFINE named == IF s.method = "" THEN [s EXCEPT !.method = m] ELSE s
<1>1. /\ named \in SipSessions /\ named.invite = s.invite
      /\ named.dir = s.dir /\ named.holds = s.holds /\ named.holdCount = s.holdCount
  BY SetMethod, Zenon
<1>2. Request(s, m, ts) = IF m = "INVITE" THEN [named EXCEPT !.invite = ts]
                          ELSE IF m = "BYE" THEN [named EXCEPT !.bye = ts] ELSE named
  BY Zenon DEF Request
<1> HIDE DEF named
<1>3. CASE m = "INVITE"
  <2> DEFINE t == [named EXCEPT !.invite = ts]
  <2>1. /\ t \in SipSessions /\ t.invite = ts
        /\ t.dir = named.dir /\ t.holds = named.holds /\ t.holdCount = named.holdCount
    BY <1>1, SetInvite, Zenon
  <2>2. Request(s, m, ts) = t
    BY <1>2, <1>3, Zenon
  <2> HIDE DEF t
  <2> QED BY <1>1, <1>3, <2>1, <2>2, Zenon
<1>4. CASE m # "INVITE" /\ m = "BYE"
  BY <1>1, <1>2, <1>4, SetBye
<1>5. CASE m # "INVITE" /\ m # "BYE"
  BY <1>1, <1>2, <1>5, Zenon
<1> QED BY <1>3, <1>4, <1>5, Zenon

LEMMA ResponseStep ==
  ASSUME NEW s \in SipSessions, NEW code, NEW ts \in Int
  PROVE  LET t == Response(s, code, ts) IN
         /\ t \in SipSessions /\ t.dir = s.dir /\ t.holds = s.holds /\ t.holdCount = s.holdCount
         /\ t.invite = s.invite
  BY SetFirst DEF Response

\* A change of direction keeps the events alternating.
LEMMA SameTruth == ASSUME NEW d, NEW e, NEW S PROVE (d \in S <=> e \in S) <=> (d \in S) = (e \in S)
  OBVIOUS
LEMMA Parity ==
  ASSUME NEW n \in Nat
  PROVE  /\ (n + 1) % 2 = 1 <=> ~(n % 2 = 1)
         /\ (n + 1) % 2 = 1 => ((n + 1) + 1) \div 2 = ((n + 1) \div 2) + 1
         /\ ~((n + 1) % 2 = 1) => ((n + 1) + 1) \div 2 = (n + 1) \div 2
  OBVIOUS
LEMMA TrackStep ==
  ASSUME NEW s \in SipSessions, HoldsInv(s), NEW d \in Directions
  PROVE  LET t == TrackDirectionChange(s, d) IN
         t \in SipSessions /\ HoldsInv(t) /\ t.invite = s.invite
<1> DEFINE isHold == d \in Holding
<1> DEFINE n == Len(s.holds)
<1> DEFINE t == TrackDirectionChange(s, d)
<1>1. s.holds \in Seq(BOOLEAN) /\ s.holdCount \in Int /\ n \in Nat
  <2>1. s.holds \in Seq(BOOLEAN) /\ s.holdCount \in Int
    BY SessionFields, Zenon
  <2> QED BY <2>1
<1>2. "" \notin Holding
  BY Zenon DEF Holding
<1>3. CASE isHold <=> s.dir \in Holding
  <2>1. t = [s EXCEPT !.dir = d]
    <3>1. ~((s.dir # "" /\ isHold # (s.dir \in Holding)) \/ (s.dir = "" /\ isHold))
      BY <1>2, <1>3, SameTruth, Zenon
    <3> QED BY <3>1, Zenon DEF TrackDirectionChange
  <2> DEFINE u == [s EXCEPT !.dir = d]
  <2>a. u \in SipSessions /\ u.invite = s.invite /\ u.dir = d /\ u.holds = s.holds /\ u.holdCount = s.holdCount
    BY SetDir, Zenon
  <2>b. t = u
    BY <2>1, Zenon
  <2> HIDE DEF u, t
  <2>2. t \in SipSessions /\ t.invite = s.invite /\ t.dir = d /\ t.holds = s.holds /\ t.holdCount = s.holdCount
    BY <2>a, <2>b, Zenon
  <2> HIDE DEF t
  <2>3. HoldsInv(t)
    BY <1>3, <2>2, Zenon DEF HoldsInv
  <2> QED BY <2>2, <2>3, Zenon DEF t
<1>4. CASE ~(isHold <=> s.dir \in Holding)
  <2> DEFINE h == Append(s.holds, isHold)
  <2> DEFINE c == IF isHold THEN s.holdCount + 1 ELSE s.holdCount
  <2> DEFINE u == [s EXCEPT !.dir = d]
  <2> DEFINE v == [u EXCEPT !.holds = h]
  <2> DEFINE x == [v EXCEPT !.holdCount = c]
  <2>1. t = [s EXCEPT !.dir = d, !.holds = Append(@, isHold), !.holdCount = IF isHold THEN @ + 1 ELSE @]
    <3>1. (s.dir # "" /\ isHold # (s.dir \in Holding)) \/ (s.dir = "" /\ isHold)
      BY <1>2, <1>4, SameTruth, Zenon
    <3> QED BY <3>1, Zenon DEF TrackDirectionChange
  <2>2. t = x
    BY <2>1, Zenon
  <2>3. isHold \in BOOLEAN
    OBVIOUS
  <2>4. h \in Seq(BOOLEAN) /\ Len(h) = n + 1 /\ h[n + 1] = isHold /\ \A i \in 1..n : h[i] = s.holds[i]
    <3> HIDE DEF isHold
    <3> QED BY <1>1, <2>3
  <2>5. c \in Int
    BY <1>1
  <2> HIDE DEF h, c, t
  <2>6. u \in SipSessions /\ u.invite = s.invite /\ u.dir = d
    BY SetDir, Zenon
  <2> HIDE DEF u
  <2>7. v \in SipSessions /\ v.invite = s.invite /\ v.dir = d /\ v.holds = h
    BY <2>4, <2>6, SetHolds, Zenon
  <2> HIDE DEF v
  <2>8. x \in SipSessions /\ x.invite = s.invite /\ x.dir = d /\ x.holds = h /\ x.holdCount = c
    BY <2>5, <2>7, SetCount, Zenon
  <2> HIDE DEF x
  <2>9. /\ s.dir \in Holding <=> n % 2 = 1
        /\ \A i \in 1..n : s.holds[i] = (i % 2 = 1)
        /\ s.holdCount = (n + 1) \div 2
    BY Zenon DEF HoldsInv
  <2>10. isHold <=> (n + 1) % 2 = 1
    <3>1. (n + 1) % 2 = 1 <=> ~(n % 2 = 1)
      BY <1>1, Parity, Zenon
    <3> QED BY <1>4, <2>9, <3>1, Zenon
  <2>11. \A i \in 1..(n + 1) : h[i] = (i % 2 = 1)
    <3>1. \A i \in 1..(n + 1) : i \in 1..n \/ i = n + 1
      BY <1>1
    <3>2. isHold = ((n + 1) % 2 = 1)
      <4> DEFINE k == (n + 1) % 2
      <4>1. isHold <=> k = 1
        BY <2>10, Zenon
      <4> HIDE DEF k
      <4>2. isHold = (k = 1)
        BY <4>1
      <4> QED BY <4>2, Zenon DEF k
    <3> QED BY <2>4, <2>9, <3>1, <3>2, Zenon
  <2>12. c = ((n + 1) + 1) \div 2
    <3>1. CASE (n + 1) % 2 = 1
      <4>1. ((n + 1) + 1) \div 2 = ((n + 1) \div 2) + 1
        BY <1>1, <3>1, Parity, Zenon
      <4> QED BY <2>9, <2>10, <3>1, <4>1, Zenon DEF c
    <3>2. CASE ~((n + 1) % 2 = 1)
      <4>1. ((n + 1) + 1) \div 2 = (n + 1) \div 2
        BY <1>1, <3>2, Parity, Zenon
      <4> QED BY <2>9, <2>10, <3>2, <4>1, Zenon DEF c
    <3> QED BY <3>1, <3>2, Zenon
  <2>13. HoldsInv(x)
    BY <2>4, <2>8, <2>10, <2>11, <2>12, Zenon DEF HoldsInv
  <2> QED BY <2>2, <2>8, <2>13, Zenon DEF t
<1> QED BY <1>3, <1>4, Zenon

LEMMA SDPStep ==
  ASSUME NEW s \in SipSessions, HoldsInv(s), NEW sdp \in {"none"} \cup Directions
  PROVE  LET t == ParseSDP(s, sdp) IN
         t \in SipSessions /\ HoldsInv(t) /\ t.invite = s.invite
<1> DEFINE u == [s EXCEPT !.media = Here]
<1>1. u \in SipSessions /\ u.invite = s.invite /\ u.dir = s.dir /\ u.holds = s.holds /\ u.holdCount = s.holdCount
  BY SetMedia, Zenon
<1>2. ParseSDP(s, sdp) = IF sdp = "none" THEN s ELSE TrackDirectionChange(u, sdp)
  BY Zenon DEF ParseSDP
<1> HIDE DEF u
<1>3. HoldsInv(u)
  BY <1>1, Zenon DEF HoldsInv
<1>4. CASE sdp = "none"
  BY <1>2, <1>4, Zenon
<1>5. CASE sdp # "none"
  <2>1. sdp \in Directions
    BY <1>5, Zenon
  <2>2. ParseSDP(s, sdp) = TrackDirectionChange(u, sdp)
    BY <1>2, <1>5, Zenon
  <2> QED BY <1>1, <1>3, <2>1, <2>2, TrackStep, Zenon
<1> QED BY <1>4, <1>5, Zenon

\* The session that a message finds or begins.
LEMMA SessionFound ==
  ASSUME SipTypes, SipInv, NEW w \in SipWorkers
  PROVE  LET s == Session(w, sipTime) IN
         s \in SipSessions /\ HoldsInv(s) /\ InviteInv(s, invites[w])
<1>1. CASE sip[w] # NoSession
  <2>1. sip[w] \in SipSessions
    BY <1>1, Zenon DEF SipTypes
  <2> QED BY <1>1, <2>1, Zenon DEF SipInv, Session
<1>2. CASE sip[w] = NoSession
  <2> DEFINE s == [start |-> sipTime, method |-> "", invite |-> -1, bye |-> -1, first200 |-> -1,
        media |-> << >>, dir |-> "", holds |-> << >>, holdCount |-> 0]
  <2>1. Session(w, sipTime) = s
    BY <1>2, Zenon DEF Session
  <2>2. sipTime \in Nat
    BY Zenon DEF SipTypes
  <2>3. s \in SipSessions
    BY <2>2 DEF SipSessions
  <2>4. HoldsInv(s)
    <3>1. s.dir = "" /\ s.holds = << >> /\ s.holdCount = 0
      BY Zenon
    <3> HIDE DEF s
    <3>2. "" \notin Holding
      BY Zenon DEF Holding
    <3>3. Len(<< >>) = 0 /\ 1..0 = {} /\ 0 % 2 = 0 /\ (0 + 1) \div 2 = 0
      OBVIOUS
    <3>4. Len(s.holds) = 0
      BY <3>1, <3>3, Zenon
    <3>5. ~(s.dir \in Holding) /\ ~(Len(s.holds) % 2 = 1)
      <4>1. 0 # 1
        OBVIOUS
      <4> QED BY <3>1, <3>2, <3>3, <3>4, <4>1, Zenon
    <3>6. 1..Len(s.holds) = {} /\ s.holdCount = (Len(s.holds) + 1) \div 2
      BY <3>1, <3>3, <3>4, Zenon
    <3> QED BY <3>5, <3>6, Zenon DEF HoldsInv
  <2>5. InviteInv(s, invites[w])
    <3>1. Len(invites[w]) = 0
      BY <1>2, Zenon DEF SipInv
    <3> QED BY <3>1 DEF InviteInv
  <2> HIDE DEF s
  <2> QED BY <2>1, <2>3, <2>4, <2>5, Zenon
<1> QED BY <1>1, <1>2, Zenon

\* A session of one worker that is replaced, and the INVITEs it has seen.
LEMMA SessionReplaced ==
  ASSUME SipTypes, SipInv, NEW w \in SipWorkers, NEW t \in SipSessions, HoldsInv(t), NEW seen \in Seq(Nat),
         InviteInv(t, seen), sip' = [sip EXCEPT ![w] = t], invites' = [invites EXCEPT ![w] = seen], sipTime' = sipTime + 1
  PROVE  SipTypes' /\ SipInv'
<1>1. sipTime' \in Nat
  BY DEF SipTypes
<1>2. SipTypes'
  BY <1>1, Zenon DEF SipTypes
<1>3. t # NoSession
  BY SessionFields, Zenon
<1>4. ASSUME NEW v \in SipWorkers
      PROVE  /\ sip'[v] = NoSession => Len(invites'[v]) = 0
             /\ sip'[v] # NoSession => HoldsInv(sip'[v]) /\ InviteInv(sip'[v], invites'[v])
  <2>1. CASE v = w
    <3>1. sip'[v] = t /\ invites'[v] = seen
      BY <2>1, Zenon DEF SipTypes
    <3> QED BY <1>3, <3>1, Zenon
  <2>2. CASE v # w
    <3>1. sip'[v] = sip[v] /\ invites'[v] = invites[v]
      BY <2>2, Zenon DEF SipTypes
    <3> QED BY <3>1, Zenon DEF SipInv
  <2> QED BY <2>1, <2>2, Zenon
<1> QED BY <1>2, <1>4, Zenon DEF SipInv, HoldsInv, InviteInv

LEMMA HandleSipStep == ASSUME SipTypes, SipInv, NEW w \in SipWorkers, HandleSip(w) PROVE SipTypes' /\ SipInv'
<1> DEFINE s == Session(w, sipTime)
<1>1. s \in SipSessions /\ HoldsInv(s) /\ InviteInv(s, invites[w])
  BY SessionFound, Zenon
<1>2. sipTime' = sipTime + 1 /\ sipTime \in Nat /\ sipTime \in Int /\ invites[w] \in Seq(Nat)
  BY DEF HandleSip, SipTypes
<1>3. PICK sdp \in {"none"} \cup Directions :
       \/ \E m \in {"INVITE", "BYE", "ACK"} :
            /\ sip' = [sip EXCEPT ![w] = ParseSDP(Request(s, m, sipTime), sdp)]
            /\ invites' = IF m = "INVITE" THEN [invites EXCEPT ![w] = Append(@, sipTime)] ELSE invites
       \/ \E code \in {200, 486} :
            /\ sip' = [sip EXCEPT ![w] = ParseSDP(Response(s, code, sipTime), sdp)]
            /\ UNCHANGED invites
  BY Zenon DEF HandleSip
<1> HIDE DEF s
<1>4. invites = [invites EXCEPT ![w] = invites[w]]
  BY Zenon DEF SipTypes
<1>5. ASSUME NEW m \in {"INVITE", "BYE", "ACK"},
             sip' = [sip EXCEPT ![w] = ParseSDP(Request(s, m, sipTime), sdp)],
             invites' = IF m = "INVITE" THEN [invites EXCEPT ![w] = Append(@, sipTime)] ELSE invites
      PROVE  SipTypes' /\ SipInv'
  <2> DEFINE r == Request(s, m, sipTime)
  <2> DEFINE t == ParseSDP(r, sdp)
  <2> DEFINE seen == IF m = "INVITE" THEN Append(invites[w], sipTime) ELSE invites[w]
  <2>1. /\ r \in SipSessions /\ r.dir = s.dir /\ r.holds = s.holds /\ r.holdCount = s.holdCount
        /\ r.invite = IF m = "INVITE" THEN sipTime ELSE s.invite
    BY <1>1, <1>2, RequestStep, Zenon
  <2>2. sip' = [sip EXCEPT ![w] = t]
    BY <1>5, Zenon
  <2> HIDE DEF r
  <2>3. HoldsInv(r)
    BY <1>1, <2>1, Zenon DEF HoldsInv
  <2>4. t \in SipSessions /\ HoldsInv(t) /\ t.invite = r.invite
    BY <2>1, <2>3, SDPStep, Zenon
  <2> HIDE DEF t
  <2>5. invites' = [invites EXCEPT ![w] = seen]
    BY <1>4, <1>5, Zenon
  <2>6. seen \in Seq(Nat) /\ InviteInv(t, seen)
    <3>1. CASE m = "INVITE"
      <4>1. seen = Append(invites[w], sipTime) /\ t.invite = sipTime
        BY <2>1, <2>4, <3>1, Zenon
      <4> HIDE DEF seen
      <4>2. seen \in Seq(Nat) /\ seen[Len(seen)] = sipTime
        BY <1>2, <4>1
      <4> QED BY <4>1, <4>2, Zenon DEF InviteInv
    <3>2. CASE m # "INVITE"
      <4>1. seen = invites[w] /\ t.invite = s.invite
        BY <2>1, <2>4, <3>2, Zenon
      <4> HIDE DEF seen
      <4> QED BY <1>1, <1>2, <4>1, Zenon DEF InviteInv
    <3> QED BY <3>1, <3>2, Zenon
  <2> HIDE DEF seen
  <2> QED BY <1>2, <2>2, <2>4, <2>5, <2>6, SessionReplaced, Zenon
<1>6. ASSUME NEW code,
             sip' = [sip EXCEPT ![w] = ParseSDP(Response(s, code, sipTime), sdp)], UNCHANGED invites
      PROVE  SipTypes' /\ SipInv'
  <2> DEFINE r == Response(s, code, sipTime)
  <2> DEFINE t == ParseSDP(r, sdp)
  <2>1. r \in SipSessions /\ r.dir = s.dir /\ r.holds = s.holds /\ r.holdCount = s.holdCount /\ r.invite = s.invite
    BY <1>1, <1>2, ResponseStep, Zenon
  <2>2. sip' = [sip EXCEPT ![w] = t]
    BY <1>6, Zenon
  <2> HIDE DEF r
  <2>3. HoldsInv(r)
    BY <1>1, <2>1, Zenon DEF HoldsInv
  <2>4. t \in SipSessions /\ HoldsInv(t) /\ t.invite = r.invite
    BY <2>1, <2>3, SDPStep, Zenon
  <2> HIDE DEF t
  <2>5. InviteInv(t, invites[w])
    BY <1>1, <2>1, <2>4, Zenon DEF InviteInv
  <2>6. invites' = [invites EXCEPT ![w] = invites[w]]
    BY <1>4, <1>6, Zenon
  <2> QED BY <1>2, <2>2, <2>4, <2>5, <2>6, SessionReplaced, Zenon
<1> QED BY <1>3, <1>5, <1>6, Zenon

(* The inductive invariant, and what follows from it. *)

LEMMA CallInitInv == ASSUME CallInit PROVE CallInv
<1>1. SipTypes /\ SipInv
  <2>1. SipTypes
    BY DEF CallInit, SipTypes
  <2>2. \A w \in SipWorkers : sip[w] = NoSession /\ Len(invites[w]) = 0
    BY Zenon DEF CallInit
  <2> QED BY <2>1, <2>2, Zenon DEF SipInv
<1>2. RtpTypes /\ RtpInv
  <2>1. rtp.count = 0 /\ rtp.lost = 0 /\ dropped = 0 /\ lateRtp = FALSE
    BY Zenon DEF CallInit
  <2>2. RtpTypes
    <3>1. FirstRtp \in 0..SeqSpace - 1
      BY CallConstants, Zenon
    <3>2. rtp = [last |-> FirstRtp, count |-> 0, lost |-> 0, maxGap |-> 0]
      BY Zenon DEF CallInit
    <3>3. rtp \in [last : 0..SeqSpace - 1, count : Nat, lost : Int, maxGap : Int]
      BY <3>1, <3>2
    <3>4. rtpNext \in 0..SeqSpace - 1 /\ lateRtp \in BOOLEAN
      BY <3>1, Zenon DEF CallInit
    <3>5. dropped \in Nat
      BY <2>1, Zenon
    <3> QED BY <3>3, <3>4, <3>5, Zenon DEF RtpTypes
  <2>3. ~(rtp.count > 0)
    BY <2>1
  <2> QED BY <2>1, <2>2, <2>3, Zenon DEF RtpInv
<1> QED BY <1>1, <1>2, Zenon DEF CallInv

LEMMA CallStep == ASSUME CallInv, [CallNext]_callVars PROVE CallInv'
<1>1. ASSUME NEW w \in SipWorkers, HandleSip(w) PROVE CallInv'
  <2>1. SipTypes' /\ SipInv'
    BY <1>1, HandleSipStep, Zenon DEF CallInv
  <2>2. rtp' = rtp /\ rtpNext' = rtpNext /\ dropped' = dropped /\ lateRtp' = lateRtp
    BY <1>1, Zenon DEF HandleSip
  <2>3. RtpTypes' /\ RtpInv'
    BY <2>2, Zenon DEF CallInv, RtpTypes, RtpInv
  <2> QED BY <2>1, <2>3, Zenon DEF CallInv
<1>2. ASSUME sip' = sip, sipTime' = sipTime, invites' = invites, RtpTypes', RtpInv' PROVE CallInv'
  BY <1>2, Zenon DEF CallInv, SipTypes, SipInv, HoldsInv, InviteInv
<1>3. ASSUME NEW n \in 0..MaxBurst, RtpArrives(n) PROVE CallInv'
  BY <1>2, <1>3, ArrivesStep, Zenon DEF CallInv, RtpArrives
<1>4. ASSUME NEW back \in 0..1, RtpAgain(back) PROVE CallInv'
  BY <1>2, <1>4, AgainStep, Zenon DEF CallInv, RtpAgain
<1>5. CASE UNCHANGED callVars
  <2>1. RtpTypes' /\ RtpInv'
    BY <1>5, Zenon DEF callVars, CallInv, RtpTypes, RtpInv
  <2> QED BY <1>2, <1>5, <2>1, Zenon DEF callVars
<1> QED BY <1>1, <1>3, <1>4, <1>5, Zenon DEF CallNext, SipNext, RtpNext

LEMMA CallOnceFromInv == ASSUME CallInv PROVE CallOnce
<1> DEFINE withMedia == {w \in Deduplicated : sip[w].media # << >>}
<1> DEFINE allowed == {sip[w].media : w \in withMedia}
<1> DEFINE legs(media) == {f \in RtpFlows : IsValidRTP(f[1], f[2], allowed) /\ IsLeg(f[1], f[2], media)}
<1> DEFINE calls == {[worker |-> w, legs |-> legs(sip[w].media)] : w \in withMedia}
<1>1. CorrelateSIPRTP(RtpFlows) = calls
  BY Zenon DEF CorrelateSIPRTP
<1>2. \A w, v \in withMedia : w = v
  <2>1. SUFFICES ASSUME NEW w \in withMedia, NEW v \in withMedia PROVE w = v
    BY Zenon
  <2>2. w \in SipWorkers /\ v \in SipWorkers /\ w <= v /\ v <= w
    BY <2>1, Zenon DEF Deduplicated, SipFlows
  <2> QED BY <2>2, CallConstants
<1>3. \A w \in withMedia : sip[w].media = Here
  <2>1. SUFFICES ASSUME NEW w \in withMedia PROVE sip[w].media = Here
    BY Zenon
  <2>2. sip[w] \in SipSessions /\ sip[w].media # << >>
    BY <2>1, Zenon DEF Deduplicated, SipFlows, CallInv, SipTypes
  <2> QED BY <2>2, SessionFields, Zenon
<1>4. ASSUME NEW w \in withMedia PROVE legs(sip[w].media) = {f \in RtpFlows : Here \in {f[1], f[2]}}
  <2>1. sip[w].media = Here /\ \A x : x \in allowed <=> x = Here
    BY <1>2, <1>3, <1>4, Zenon
  <2> HIDE DEF allowed
  <2>2. \A f \in RtpFlows : IsValidRTP(f[1], f[2], allowed) <=> Here \in {f[1], f[2]}
    BY <2>1, Zenon DEF IsValidRTP
  <2>3. \A f \in RtpFlows : Here \in {f[1], f[2]} => IsLeg(f[1], f[2], Here)
    BY Zenon DEF RtpFlows, Here, There, IsLeg
  <2> QED BY <2>1, <2>2, <2>3, Zenon
<1> HIDE DEF withMedia, legs
<1>5. \A c, d \in calls : c = d
  BY <1>2, Zenon
<1>6. \A c \in calls : \E w \in withMedia : c.legs = legs(sip[w].media)
  OBVIOUS
<1>7. \A c \in calls : c.legs = {f \in RtpFlows : Here \in {f[1], f[2]}}
  BY <1>4, <1>6, Zenon
<1> QED BY <1>1, <1>5, <1>7, Zenon DEF CallOnce

LEMMA CallExactFromInv == ASSUME CallInv PROVE CallExact
<1>1. \A w \in SipFlows : w \in SipWorkers /\ sip[w] \in SipSessions /\ sip[w] # NoSession
  BY Zenon DEF SipFlows, CallInv, SipTypes
<1>2. HoldsAlternate
  <2>1. SUFFICES ASSUME NEW w \in SipFlows
                 PROVE  /\ \A i \in DOMAIN sip[w].holds : sip[w].holds[i] = (i % 2 = 1)
                        /\ sip[w].holdCount = (Len(sip[w].holds) + 1) \div 2
    BY Zenon DEF HoldsAlternate
  <2>2. HoldsInv(sip[w]) /\ sip[w].holds \in Seq(BOOLEAN)
    BY <1>1, SessionFields, Zenon DEF CallInv, SipInv
  <2>3. DOMAIN sip[w].holds = 1..Len(sip[w].holds)
    BY <2>2
  <2> QED BY <2>2, <2>3, Zenon DEF HoldsInv
<1>3. SetupOfFirstAnswer
  <2>1. SUFFICES ASSUME NEW w \in SipFlows, Len(invites[w]) = 1, invites[w][1] < sip[w].first200
                 PROVE  HasLatency(sip[w]) /\ SetupLatency(sip[w]) = sip[w].first200 - invites[w][1]
    BY Zenon DEF SetupOfFirstAnswer
  <2>2. InviteInv(sip[w], invites[w]) /\ sip[w].first200 \in Int /\ invites[w] \in Seq(Nat)
    BY <1>1, SessionFields, Zenon DEF CallInv, SipInv, SipTypes
  <2>3. invites[w][1] \in Nat /\ sip[w].invite = invites[w][1]
    BY <2>1, <2>2 DEF InviteInv
  <2>4. sip[w].invite # -1 /\ sip[w].first200 # -1
    BY <2>1, <2>2, <2>3
  <2> QED BY <2>3, <2>4, Zenon DEF HasLatency, SetupLatency
<1>4. LossExact
  BY Zenon DEF LossExact, CallInv, RtpInv
<1> QED BY <1>2, <1>3, <1>4, CallOnceFromInv, Zenon DEF CallExact

\* For any number of workers, any length of the call and any size of the sequence space
\* that is larger than a burst of losses: a Call-ID is one call with the streams of its
\* endpoint, holds and resumptions alternate and are counted once, the setup time runs
\* from the INVITE, and the loss of an ordered stream is the packets that are missing.
THEOREM CallExactAlways == CallSpec => []CallExact
<1>1. CallInit => CallInv
  BY CallInitInv, Zenon
<1>2. CallInv /\ [CallNext]_callVars => CallInv'
  BY CallStep, Zenon
<1>3. CallInv => CallExact
  BY CallExactFromInv, Zenon
<1> QED BY <1>1, <1>2, <1>3, PTL DEF CallSpec

----------------------------------------------------------------------------
(* A flow. *)

FlowSpec == FlowInit /\ [][FlowNext]_flowVars

FlowFields ==
  {"start", "end", "packets", "bytes", "bucketStart", "buckets", "flags", "syn", "synAck", "hiSeq",
   "retrans", "pending", "samples", "baseline", "rst"}
DirOf(h) == IF h = 1 THEN "fwd" ELSE "rev"
TcpKey == <<1, 2, Port(1), Port(2), "TCP">>
PingKey == <<1, 2, 0, 0, "ICMP">>

\* What a record counts, in terms of what was sent.
SpanInv(r) == r.start \in Nat /\ r.end \in Nat /\ r.start <= r.end
CountInv(r, n) == r.packets \in [Dirs -> Nat] /\ BothDirs(r.packets) = n
ResentInv(r, n) == r.retrans \in [Dirs -> Nat] /\ BothDirs(r.retrans) = n

\* The highest sequence number of a host that has sent data is its next one.
SeqInv(r, who, next) ==
  r.hiSeq \in [Dirs -> Int] /\ \A h \in Hosts : r.hiSeq[DirOf(h)] = IF h \in who THEN next[h] ELSE -1

\* The baseline is that of the path, and a reset has the TTL of its origin.
BaseInv(r) == r.baseline \in [Dirs -> Nat] /\ \A h \in Hosts : r.baseline[DirOf(h)] \in {0, PathTTL(h)}
ResetInv(r) == r.rst.ttl = 1 => r.rst.seen = TRUE /\ \E h \in Hosts : r.rst.dir = DirOf(h)
ShakeInv(r, seen) ==
  client = 1 => /\ seen # "no" => r.syn # -1
                /\ seen = "both" => r.synAck # -1

TcpInv(r) ==
  /\ DOMAIN r = FlowFields /\ SpanInv(r) /\ CountInv(r, handled["TCP"]) /\ ResentInv(r, resent)
  /\ SeqInv(r, talked, sndNxt) /\ BaseInv(r) /\ ResetInv(r) /\ ShakeInv(r, shook)
PingInv(r) == DOMAIN r = FlowFields /\ SpanInv(r) /\ CountInv(r, handled["ICMP"])

FlowTypes ==
  /\ client \in Hosts /\ sndNxt \in [Hosts -> 0..SeqSpan - 1] /\ clock \in Nat
  /\ handled \in [Protocols -> Nat] /\ talked \subseteq Hosts /\ resent \in Nat
  /\ shook \in {"no", "syn", "both"} /\ DOMAIN flows \subseteq {TcpKey, PingKey}

\* A segment that may be sent again ends where the next one begins.
LastInv ==
  /\ DOMAIN lastSeg = Hosts
  /\ \A h \in Hosts : lastSeg[h] # << >> =>
       /\ lastSeg[h][1] \in 0..SeqSpan - 1 /\ lastSeg[h][2] \in 1..2
       /\ (lastSeg[h][1] + lastSeg[h][2]) % SeqSpan = sndNxt[h]

RecordsInv ==
  /\ IF TcpKey \in DOMAIN flows THEN TcpInv(flows[TcpKey])
     ELSE handled["TCP"] = 0 /\ talked = {} /\ resent = 0 /\ shook = "no"
  /\ IF PingKey \in DOMAIN flows THEN PingInv(flows[PingKey]) ELSE handled["ICMP"] = 0

FlowInv == FlowTypes /\ LastInv /\ RecordsInv

----------------------------------------------------------------------------
(* The parts of HandlePacket. *)

CountedIn(r, q, p, d) ==
  /\ DOMAIN q = FlowFields /\ q.start = r.start
  /\ q.end = (IF p.ts > r.end THEN p.ts ELSE r.end)
  /\ q.packets = [r.packets EXCEPT ![d] = @ + 1]

LEMMA VolumeFields ==
  ASSUME NEW r, DOMAIN r = FlowFields, NEW p, NEW d
  PROVE  LET v == Volume(r, p, d) IN
         /\ CountedIn(r, v, p, d) /\ v.syn = r.syn /\ v.synAck = r.synAck
         /\ v.hiSeq = r.hiSeq /\ v.retrans = r.retrans /\ v.baseline = r.baseline /\ v.rst = r.rst
  BY Zenon DEF Volume, FlowFields, CountedIn

\* Parts that leave alone what the invariant is about.
SameCore(r, q) ==
  /\ DOMAIN q = FlowFields /\ q.start = r.start /\ q.end = r.end /\ q.packets = r.packets /\ q.syn = r.syn
  /\ q.synAck = r.synAck /\ q.hiSeq = r.hiSeq /\ q.retrans = r.retrans /\ q.baseline = r.baseline /\ q.rst = r.rst

LEMMA BucketFields == ASSUME NEW r, DOMAIN r = FlowFields, NEW p PROVE SameCore(r, Bucket(r, p))
<1>1. ASSUME NEW x PROVE SameCore(r, [r EXCEPT !.bucketStart = x])
  BY Zenon DEF SameCore, FlowFields
<1>2. ASSUME NEW x, NEW y PROVE SameCore(r, [r EXCEPT !.bucketStart = x, !.buckets = y])
  BY Zenon DEF SameCore, FlowFields
<1>3. SameCore(r, r)
  BY Zenon DEF SameCore
<1> QED BY <1>1, <1>2, <1>3, Zenon DEF Bucket

LEMMA ClosingFields ==
  ASSUME NEW r, DOMAIN r = FlowFields, NEW p, NEW d
  PROVE  LET c == Closing(r, p, d) IN
         /\ DOMAIN c = FlowFields /\ c.start = r.start /\ c.end = r.end /\ c.packets = r.packets
         /\ c.syn = r.syn /\ c.synAck = r.synAck /\ c.hiSeq = r.hiSeq /\ c.retrans = r.retrans
         /\ c.baseline = IF "RST" \notin p.flags /\ p.ttl > 0 /\ r.baseline[d] = 0
                         THEN [r.baseline EXCEPT ![d] = p.ttl] ELSE r.baseline
         /\ c.rst = IF "RST" \in p.flags /\ ~r.rst.seen THEN [seen |-> TRUE, dir |-> d, ttl |-> p.ttl] ELSE r.rst
<1> DEFINE q == [r EXCEPT !.flags = @ \cup p.flags]
<1>1. SameCore(r, q)
  BY Zenon DEF SameCore, FlowFields
<1>2. Closing(r, p, d) =
        IF "RST" \in p.flags
        THEN IF q.rst.seen THEN q ELSE [q EXCEPT !.rst = [seen |-> TRUE, dir |-> d, ttl |-> p.ttl]]
        ELSE IF p.ttl > 0 /\ q.baseline[d] = 0 THEN [q EXCEPT !.baseline[d] = p.ttl] ELSE q
  BY Zenon DEF Closing
<1> HIDE DEF q
<1>3. CASE "RST" \in p.flags /\ q.rst.seen
  BY <1>1, <1>2, <1>3, Zenon DEF SameCore
<1>4. CASE "RST" \in p.flags /\ ~q.rst.seen
  <2> DEFINE x == [seen |-> TRUE, dir |-> d, ttl |-> p.ttl]
  <2> DEFINE c == [q EXCEPT !.rst = x]
  <2>1. Closing(r, p, d) = c
    BY <1>2, <1>4, Zenon
  <2> HIDE DEF x
  <2>2. /\ DOMAIN c = FlowFields /\ c.start = q.start /\ c.end = q.end /\ c.packets = q.packets
        /\ c.syn = q.syn /\ c.synAck = q.synAck /\ c.hiSeq = q.hiSeq /\ c.retrans = q.retrans
        /\ c.baseline = q.baseline /\ c.rst = x
    BY <1>1, Zenon DEF SameCore, FlowFields
  <2> HIDE DEF c
  <2> QED BY <1>1, <1>4, <2>1, <2>2, Zenon DEF SameCore, x
<1>5. CASE "RST" \notin p.flags /\ p.ttl > 0 /\ q.baseline[d] = 0
  <2> DEFINE c == [q EXCEPT !.baseline[d] = p.ttl]
  <2>1. Closing(r, p, d) = c
    BY <1>2, <1>5, Zenon
  <2>2. /\ DOMAIN c = FlowFields /\ c.start = q.start /\ c.end = q.end /\ c.packets = q.packets
        /\ c.syn = q.syn /\ c.synAck = q.synAck /\ c.hiSeq = q.hiSeq /\ c.retrans = q.retrans
        /\ c.rst = q.rst /\ c.baseline = [q.baseline EXCEPT ![d] = p.ttl]
    BY <1>1, Zenon DEF SameCore, FlowFields
  <2> HIDE DEF c
  <2> QED BY <1>1, <1>5, <2>1, <2>2, Zenon DEF SameCore
<1>6. CASE "RST" \notin p.flags /\ ~(p.ttl > 0 /\ q.baseline[d] = 0)
  BY <1>1, <1>2, <1>6, Zenon DEF SameCore
<1> QED BY <1>3, <1>4, <1>5, <1>6, Zenon

ShakeEffect(r, q, p, d) ==
  /\ q.syn = (IF "SYN" \in p.flags /\ "ACK" \notin p.flags /\ d = "fwd" /\ r.syn = -1 THEN p.ts ELSE r.syn)
  /\ q.synAck = (IF "SYN" \in p.flags /\ "ACK" \in p.flags /\ d = "rev" /\ r.syn # -1 /\ r.synAck = -1
                 THEN p.ts ELSE r.synAck)

LEMMA HandshakeFields ==
  ASSUME NEW r, DOMAIN r = FlowFields, NEW p, NEW d
  PROVE  LET c == Handshake(r, p, d) IN
         /\ DOMAIN c = FlowFields /\ c.start = r.start /\ c.end = r.end /\ c.packets = r.packets
         /\ c.hiSeq = r.hiSeq /\ c.retrans = r.retrans /\ c.baseline = r.baseline /\ c.rst = r.rst
         /\ ShakeEffect(r, c, p, d)
<1>1. CASE "SYN" \in p.flags /\ "ACK" \notin p.flags /\ d = "fwd" /\ r.syn = -1
  <2> DEFINE c == [r EXCEPT !.syn = p.ts]
  <2>1. Handshake(r, p, d) = c
    BY <1>1, Zenon DEF Handshake
  <2>2. /\ DOMAIN c = FlowFields /\ c.start = r.start /\ c.end = r.end /\ c.packets = r.packets
        /\ c.hiSeq = r.hiSeq /\ c.retrans = r.retrans /\ c.baseline = r.baseline /\ c.rst = r.rst
        /\ c.syn = p.ts /\ c.synAck = r.synAck
    BY Zenon DEF FlowFields
  <2> HIDE DEF c
  <2> QED BY <1>1, <2>1, <2>2, Zenon DEF ShakeEffect
<1>2. CASE "SYN" \in p.flags /\ "ACK" \in p.flags /\ d = "rev" /\ r.syn # -1 /\ r.synAck = -1
  <2> DEFINE c == [r EXCEPT !.synAck = p.ts]
  <2>1. Handshake(r, p, d) = c
    BY <1>2, Zenon DEF Handshake
  <2>2. /\ DOMAIN c = FlowFields /\ c.start = r.start /\ c.end = r.end /\ c.packets = r.packets
        /\ c.hiSeq = r.hiSeq /\ c.retrans = r.retrans /\ c.baseline = r.baseline /\ c.rst = r.rst
        /\ c.synAck = p.ts /\ c.syn = r.syn
    BY Zenon DEF FlowFields
  <2> HIDE DEF c
  <2> QED BY <1>2, <2>1, <2>2, Zenon DEF ShakeEffect
<1>3. CASE /\ ~("SYN" \in p.flags /\ "ACK" \notin p.flags /\ d = "fwd" /\ r.syn = -1)
           /\ ~("SYN" \in p.flags /\ "ACK" \in p.flags /\ d = "rev" /\ r.syn # -1 /\ r.synAck = -1)
  <2>1. Handshake(r, p, d) = r
    BY <1>3, Zenon DEF Handshake
  <2> QED BY <1>3, <2>1, Zenon DEF ShakeEffect
<1> QED BY <1>1, <1>2, <1>3, Zenon

LEMMA RetransmissionFields ==
  ASSUME NEW r, DOMAIN r = FlowFields, NEW p, NEW d
  PROVE  LET c == Retransmission(r, p, d)
             before == r.hiSeq[d] # -1 /\ SeqBefore(p.seq, r.hiSeq[d]) IN
         /\ DOMAIN c = FlowFields /\ c.start = r.start /\ c.end = r.end /\ c.packets = r.packets
         /\ c.syn = r.syn /\ c.synAck = r.synAck /\ c.baseline = r.baseline /\ c.rst = r.rst
         /\ c.hiSeq = IF p.len # 0 /\ ~before THEN [r.hiSeq EXCEPT ![d] = (p.seq + p.len) % SeqSpan] ELSE r.hiSeq
         /\ c.retrans = IF p.len # 0 /\ before THEN [r.retrans EXCEPT ![d] = @ + 1] ELSE r.retrans
<1> DEFINE before == r.hiSeq[d] # -1 /\ SeqBefore(p.seq, r.hiSeq[d])
<1>1. CASE p.len = 0
  <2>1. Retransmission(r, p, d) = r
    BY <1>1, Zenon DEF Retransmission
  <2> QED BY <1>1, <2>1, Zenon
<1>2. CASE p.len # 0 /\ before
  <2> DEFINE c == [r EXCEPT !.retrans[d] = @ + 1]
  <2>1. Retransmission(r, p, d) = c
    BY <1>2, Zenon DEF Retransmission
  <2>2. /\ DOMAIN c = FlowFields /\ c.start = r.start /\ c.end = r.end /\ c.packets = r.packets
        /\ c.syn = r.syn /\ c.synAck = r.synAck /\ c.baseline = r.baseline /\ c.rst = r.rst
        /\ c.hiSeq = r.hiSeq /\ c.retrans = [r.retrans EXCEPT ![d] = @ + 1]
    BY Zenon DEF FlowFields
  <2> HIDE DEF c
  <2> QED BY <1>2, <2>1, <2>2, Zenon
<1>3. CASE p.len # 0 /\ ~before
  <2> DEFINE x == (p.seq + p.len) % SeqSpan
  <2> DEFINE c == [r EXCEPT !.hiSeq[d] = x]
  <2>1. Retransmission(r, p, d) = c
    BY <1>3, Zenon DEF Retransmission
  <2> HIDE DEF x
  <2>2. /\ DOMAIN c = FlowFields /\ c.start = r.start /\ c.end = r.end /\ c.packets = r.packets
        /\ c.syn = r.syn /\ c.synAck = r.synAck /\ c.baseline = r.baseline /\ c.rst = r.rst
        /\ c.retrans = r.retrans /\ c.hiSeq = [r.hiSeq EXCEPT ![d] = x]
    BY Zenon DEF FlowFields
  <2> HIDE DEF c
  <2> QED BY <1>3, <2>1, <2>2, Zenon DEF x
<1> QED BY <1>1, <1>2, <1>3, Zenon

LEMMA DataRTTFields == ASSUME NEW r, DOMAIN r = FlowFields, NEW p, NEW d PROVE SameCore(r, DataRTT(r, p, d))
<1>1. ASSUME NEW s, DOMAIN s = FlowFields, NEW e, NEW x PROVE SameCore(s, [s EXCEPT !.pending[e] = x])
  BY <1>1, Zenon DEF SameCore, FlowFields
<1>3. ASSUME NEW s, DOMAIN s = FlowFields, NEW e, NEW ack, NEW now PROVE SameCore(s, Drain(s, e, ack, now))
  <2> DEFINE done == SelectSeq(s.pending[e], LAMBDA x : ~SeqBefore(ack, x.expected))
  <2> DEFINE late == SelectSeq(done, LAMBDA x : now > x.sent)
  <2> DEFINE u == SelectSeq(s.pending[e], LAMBDA x : SeqBefore(ack, x.expected))
  <2> DEFINE v == s.samples \o [i \in 1..Len(late) |-> now - late[i].sent]
  <2>1. Drain(s, e, ack, now) = [s EXCEPT !.pending[e] = u, !.samples = v]
    BY <1>3, Zenon DEF Drain, FlowFields
  <2> HIDE DEF done, late, u, v
  <2>2. SameCore(s, [s EXCEPT !.pending[e] = u, !.samples = v])
    BY <1>3, Zenon DEF SameCore, FlowFields
  <2> QED BY <2>1, <2>2, Zenon
<1>4. ASSUME NEW s, NEW t, SameCore(r, s), SameCore(s, t) PROVE SameCore(r, t)
  BY <1>4, Zenon DEF SameCore
<1>5. SameCore(r, r)
  BY Zenon DEF SameCore
<1> DEFINE q == IF "PSH" \in p.flags /\ p.len > 0
           THEN [r EXCEPT !.pending[d] =
                   Append(@, [expected |-> (p.seq + p.len) % SeqSpan, sent |-> p.ts])]
           ELSE r
<1>6. DataRTT(r, p, d) = IF "ACK" \in p.flags /\ p.ack # 0 THEN Drain(q, Opp(d), p.ack, p.ts) ELSE q
  BY Zenon DEF DataRTT
<1>7. SameCore(r, q)
  <2> DEFINE x == Append(r.pending[d], [expected |-> (p.seq + p.len) % SeqSpan, sent |-> p.ts])
  <2>1. q = IF "PSH" \in p.flags /\ p.len > 0 THEN [r EXCEPT !.pending[d] = x] ELSE r
    BY Zenon DEF FlowFields
  <2> HIDE DEF x, q
  <2> QED BY <1>1, <1>5, <2>1, Zenon
<1> HIDE DEF q
<1>8. DOMAIN q = FlowFields
  BY <1>7, Zenon DEF SameCore
<1> QED BY <1>3, <1>4, <1>6, <1>7, <1>8, Zenon

\* HandlePacket of a TCP packet, as far as the invariant goes.
TcpRecord(r, p, d) ==
  DataRTT(Retransmission(Handshake(Closing(Bucket(Volume(r, p, d), p), p, d), p, d), p, d), p, d)
IsRetransmission(r, p, d) == r.hiSeq[d] # -1 /\ SeqBefore(p.seq, r.hiSeq[d])
TcpEffect(r, q, p, d) ==
  /\ CountedIn(r, q, p, d) /\ ShakeEffect(r, q, p, d)
  /\ q.hiSeq = (IF p.len # 0 /\ ~IsRetransmission(r, p, d)
                THEN [r.hiSeq EXCEPT ![d] = (p.seq + p.len) % SeqSpan] ELSE r.hiSeq)
  /\ q.retrans = (IF p.len # 0 /\ IsRetransmission(r, p, d) THEN [r.retrans EXCEPT ![d] = @ + 1] ELSE r.retrans)
  /\ q.baseline = (IF "RST" \notin p.flags /\ p.ttl > 0 /\ r.baseline[d] = 0
                   THEN [r.baseline EXCEPT ![d] = p.ttl] ELSE r.baseline)
  /\ q.rst = (IF "RST" \in p.flags /\ ~r.rst.seen THEN [seen |-> TRUE, dir |-> d, ttl |-> p.ttl] ELSE r.rst)

LEMMA VolumeCounts ==
  ASSUME NEW r, DOMAIN r = FlowFields, NEW p, NEW d PROVE CountedIn(r, Bucket(Volume(r, p, d), p), p, d)
<1> DEFINE v == Volume(r, p, d)
<1> DEFINE b == Bucket(v, p)
<1>1. CountedIn(r, v, p, d)
  BY VolumeFields, Zenon
<1> HIDE DEF v
<1>2. SameCore(v, b)
  BY <1>1, BucketFields, Zenon DEF CountedIn
<1> HIDE DEF b
<1>3. DOMAIN b = FlowFields /\ b.start = v.start /\ b.end = v.end /\ b.packets = v.packets
  BY <1>2, Zenon DEF SameCore
<1>4. CountedIn(r, b, p, d)
  BY <1>1, <1>3, Zenon DEF CountedIn
<1> QED BY <1>4, Zenon DEF b, v

LEMMA TcpRecordEffect ==
  ASSUME NEW r, DOMAIN r = FlowFields, NEW p, NEW d PROVE TcpEffect(r, TcpRecord(r, p, d), p, d)
<1> DEFINE v == Volume(r, p, d)
<1> DEFINE b == Bucket(v, p)
<1> DEFINE c == Closing(b, p, d)
<1> DEFINE s == Handshake(c, p, d)
<1> DEFINE t == Retransmission(s, p, d)
<1> DEFINE q == DataRTT(t, p, d)
<1>1. CountedIn(r, b, p, d)
  BY VolumeCounts, Zenon
<1>2. /\ CountedIn(r, v, p, d) /\ v.syn = r.syn /\ v.synAck = r.synAck
      /\ v.hiSeq = r.hiSeq /\ v.retrans = r.retrans /\ v.baseline = r.baseline /\ v.rst = r.rst
  BY VolumeFields, Zenon
<1> HIDE DEF v
<1>3. SameCore(v, b)
  BY <1>2, BucketFields, Zenon DEF CountedIn
<1> HIDE DEF b
<1>4. /\ DOMAIN b = FlowFields /\ b.syn = r.syn /\ b.synAck = r.synAck
      /\ b.hiSeq = r.hiSeq /\ b.retrans = r.retrans /\ b.baseline = r.baseline /\ b.rst = r.rst
  BY <1>2, <1>3, Zenon DEF SameCore
<1>5. /\ DOMAIN c = FlowFields /\ c.start = b.start /\ c.end = b.end /\ c.packets = b.packets
      /\ c.syn = b.syn /\ c.synAck = b.synAck /\ c.hiSeq = b.hiSeq /\ c.retrans = b.retrans
      /\ c.baseline = (IF "RST" \notin p.flags /\ p.ttl > 0 /\ b.baseline[d] = 0
                       THEN [b.baseline EXCEPT ![d] = p.ttl] ELSE b.baseline)
      /\ c.rst = (IF "RST" \in p.flags /\ ~b.rst.seen THEN [seen |-> TRUE, dir |-> d, ttl |-> p.ttl] ELSE b.rst)
  BY <1>4, ClosingFields, Zenon
<1> HIDE DEF c
<1>6. /\ DOMAIN s = FlowFields /\ s.start = c.start /\ s.end = c.end /\ s.packets = c.packets
      /\ s.hiSeq = c.hiSeq /\ s.retrans = c.retrans /\ s.baseline = c.baseline /\ s.rst = c.rst
      /\ ShakeEffect(c, s, p, d)
  BY <1>5, HandshakeFields, Zenon
<1> HIDE DEF s
<1>7. /\ DOMAIN t = FlowFields /\ t.start = s.start /\ t.end = s.end /\ t.packets = s.packets
      /\ t.syn = s.syn /\ t.synAck = s.synAck /\ t.baseline = s.baseline /\ t.rst = s.rst
      /\ t.hiSeq = (IF p.len # 0 /\ ~IsRetransmission(s, p, d)
                    THEN [s.hiSeq EXCEPT ![d] = (p.seq + p.len) % SeqSpan] ELSE s.hiSeq)
      /\ t.retrans = (IF p.len # 0 /\ IsRetransmission(s, p, d) THEN [s.retrans EXCEPT ![d] = @ + 1] ELSE s.retrans)
  BY <1>6, RetransmissionFields, Zenon DEF IsRetransmission
<1> HIDE DEF t
<1>8. SameCore(t, q)
  BY <1>7, DataRTTFields, Zenon
<1> HIDE DEF q
<1>9. CountedIn(r, q, p, d)
  BY <1>1, <1>5, <1>6, <1>7, <1>8 DEF CountedIn, SameCore
<1>10. s.hiSeq = r.hiSeq /\ s.retrans = r.retrans /\ c.syn = r.syn /\ c.synAck = r.synAck
       /\ q.syn = s.syn /\ q.synAck = s.synAck /\ q.hiSeq = t.hiSeq /\ q.retrans = t.retrans
       /\ q.baseline = c.baseline /\ q.rst = c.rst
  BY <1>4, <1>5, <1>6, <1>7, <1>8, Zenon DEF SameCore
<1>11. IsRetransmission(s, p, d) <=> IsRetransmission(r, p, d)
  BY <1>10, Zenon DEF IsRetransmission
<1>12. /\ q.hiSeq = (IF p.len # 0 /\ ~IsRetransmission(r, p, d)
                     THEN [r.hiSeq EXCEPT ![d] = (p.seq + p.len) % SeqSpan] ELSE r.hiSeq)
       /\ q.retrans = (IF p.len # 0 /\ IsRetransmission(r, p, d) THEN [r.retrans EXCEPT ![d] = @ + 1] ELSE r.retrans)
  BY <1>7, <1>10, <1>11, Zenon
<1>13. ShakeEffect(r, q, p, d)
  BY <1>6, <1>10, Zenon DEF ShakeEffect
<1>14. TcpEffect(r, q, p, d)
  BY <1>4, <1>5, <1>9, <1>10, <1>12, <1>13, Zenon DEF TcpEffect
<1> QED BY <1>14, Zenon DEF TcpRecord, q, t, s, c, b, v

----------------------------------------------------------------------------
(* What a packet does to the invariant of a record. *)

LEMMA NewRecordInv ==
  ASSUME NEW ts \in Nat
  PROVE  LET r == NewRecord(ts) IN
         /\ DOMAIN r = FlowFields /\ SpanInv(r) /\ CountInv(r, 0) /\ ResentInv(r, 0)
         /\ \A next : SeqInv(r, {}, next)
         /\ BaseInv(r) /\ ResetInv(r) /\ ShakeInv(r, "no")
<1> DEFINE r == NewRecord(ts)
<1>1. DOMAIN r = FlowFields
  BY Zenon DEF NewRecord, FlowFields
<1>2. /\ r.start = ts /\ r.end = ts /\ r.packets = [d \in Dirs |-> 0] /\ r.retrans = [d \in Dirs |-> 0]
      /\ r.hiSeq = [d \in Dirs |-> -1] /\ r.baseline = [d \in Dirs |-> 0] /\ r.rst.ttl = 0
  BY Zenon DEF NewRecord
<1> HIDE DEF r
<1>3. SpanInv(r)
  BY <1>2 DEF SpanInv
<1>4. CountInv(r, 0) /\ ResentInv(r, 0)
  BY <1>2 DEF CountInv, ResentInv, BothDirs, Dirs
<1>5. \A next : SeqInv(r, {}, next)
  BY <1>2 DEF SeqInv, DirOf, Dirs, Hosts
<1>6. BaseInv(r)
  BY <1>2 DEF BaseInv, DirOf, Dirs, Hosts
<1>7. ResetInv(r) /\ ShakeInv(r, "no")
  BY <1>2 DEF ResetInv, ShakeInv
<1> QED BY <1>1, <1>3, <1>4, <1>5, <1>6, <1>7, Zenon DEF r

LEMMA AddOne ==
  ASSUME NEW f \in [Dirs -> Nat], NEW d \in Dirs, NEW n \in Nat, BothDirs(f) = n
  PROVE  [f EXCEPT ![d] = @ + 1] \in [Dirs -> Nat] /\ BothDirs([f EXCEPT ![d] = @ + 1]) = n + 1
  BY DEF BothDirs, Dirs

LEMMA CountedInv ==
  ASSUME NEW r, NEW q, NEW p, NEW d \in Dirs, NEW n \in Nat, CountedIn(r, q, p, d), p.ts \in Nat,
         SpanInv(r), CountInv(r, n)
  PROVE  SpanInv(q) /\ CountInv(q, n + 1)
<1>1. SpanInv(q)
  BY DEF SpanInv, CountedIn
<1> DEFINE f == r.packets
<1>2. q.packets = [f EXCEPT ![d] = @ + 1]
  BY Zenon DEF CountedIn
<1>3. f \in [Dirs -> Nat] /\ BothDirs(f) = n
  BY Zenon DEF CountInv
<1> HIDE DEF f
<1>4. [f EXCEPT ![d] = @ + 1] \in [Dirs -> Nat] /\ BothDirs([f EXCEPT ![d] = @ + 1]) = n + 1
  BY <1>3, AddOne, Zenon
<1>5. CountInv(q, n + 1)
  BY <1>2, <1>4, Zenon DEF CountInv
<1> QED BY <1>1, <1>5, Zenon

LEMMA DirFacts ==
  /\ \A h \in Hosts : DirOf(h) \in Dirs
  /\ \A g, h \in Hosts : DirOf(g) = DirOf(h) => g = h
  BY Zenon DEF Hosts, DirOf, Dirs

LEMMA PathFacts == \A h \in Hosts : PathTTL(h) \in Nat /\ PathTTL(h) > 1 /\ PathTTL(h) - 1 >= Suspicious
  BY FlowConstants DEF PathTTL, Hosts

\* A packet sets the baseline only when it came along the path.
LEMMA OriginInv ==
  ASSUME NEW r, NEW q, NEW p, NEW h \in Hosts, TcpEffect(r, q, p, DirOf(h)), BaseInv(r), ResetInv(r),
         "RST" \notin p.flags => p.ttl = PathTTL(h)
  PROVE  BaseInv(q) /\ ResetInv(q)
<1>1. CASE "RST" \in p.flags
  <2>1. q.baseline = r.baseline
    BY <1>1, Zenon DEF TcpEffect
  <2>2. BaseInv(q)
    BY <2>1, Zenon DEF BaseInv
  <2>3. CASE r.rst.seen
    <3>1. q.rst = r.rst
      BY <2>3, Zenon DEF TcpEffect
    <3> QED BY <2>2, <3>1, Zenon DEF ResetInv
  <2>4. CASE ~r.rst.seen
    <3>1. q.rst = [seen |-> TRUE, dir |-> DirOf(h), ttl |-> p.ttl]
      BY <1>1, <2>4, Zenon DEF TcpEffect
    <3>2. q.rst.seen = TRUE /\ q.rst.dir = DirOf(h)
      BY <3>1
    <3> QED BY <2>2, <3>2, Zenon DEF ResetInv
  <2> QED BY <2>3, <2>4, Zenon
<1>2. CASE "RST" \notin p.flags
  <2>1. q.rst = r.rst
    BY <1>2, Zenon DEF TcpEffect
  <2>2. ResetInv(q)
    BY <2>1, Zenon DEF ResetInv
  <2>3. q.baseline = r.baseline \/ q.baseline = [r.baseline EXCEPT ![DirOf(h)] = PathTTL(h)]
    BY <1>2, Zenon DEF TcpEffect
  <2>4. CASE q.baseline = r.baseline
    BY <2>2, <2>4, Zenon DEF BaseInv
  <2>5. CASE q.baseline = [r.baseline EXCEPT ![DirOf(h)] = PathTTL(h)]
    <3>1. r.baseline \in [Dirs -> Nat] /\ \A g \in Hosts : r.baseline[DirOf(g)] \in {0, PathTTL(g)}
      BY Zenon DEF BaseInv
    <3>2. q.baseline \in [Dirs -> Nat]
      BY <2>5, <3>1, PathFacts, DirFacts, Zenon
    <3>3. ASSUME NEW g \in Hosts PROVE q.baseline[DirOf(g)] \in {0, PathTTL(g)}
      <4>1. CASE g = h
        BY <2>5, <3>1, <4>1, DirFacts, Zenon
      <4>2. CASE g # h
        <5>1. DirOf(g) # DirOf(h) /\ DirOf(g) \in Dirs
          BY <4>2, DirFacts, Zenon
        <5>2. q.baseline[DirOf(g)] = r.baseline[DirOf(g)]
          BY <2>5, <3>1, <5>1, Zenon
        <5> QED BY <3>1, <5>2, Zenon
      <4> QED BY <4>1, <4>2, Zenon
    <3> QED BY <2>2, <3>2, <3>3, Zenon DEF BaseInv
  <2> QED BY <2>3, <2>4, <2>5, Zenon
<1> QED BY <1>1, <1>2, Zenon

\* A packet without data.
LEMMA NoData ==
  ASSUME NEW r, NEW q, NEW p, NEW d, TcpEffect(r, q, p, d), p.len = 0, NEW n, NEW who, NEW next,
         ResentInv(r, n), SeqInv(r, who, next)
  PROVE  ResentInv(q, n) /\ SeqInv(q, who, next)
<1>1. q.hiSeq = r.hiSeq /\ q.retrans = r.retrans
  BY Zenon DEF TcpEffect
<1> QED BY <1>1, Zenon DEF ResentInv, SeqInv

\* A packet that is no SYN.
LEMMA NoSyn ==
  ASSUME NEW r, NEW q, NEW p, NEW d, TcpEffect(r, q, p, d), "SYN" \notin p.flags, NEW n, ShakeInv(r, n)
  PROVE  ShakeInv(q, n)
<1>1. q.syn = r.syn /\ q.synAck = r.synAck
  BY Zenon DEF TcpEffect, ShakeEffect
<1> QED BY <1>1, Zenon DEF ShakeInv

----------------------------------------------------------------------------
(* Packets and keys. *)

FromHost(p, h) ==
  /\ p.src = h /\ p.dst = Peer(h) /\ p.sport = Port(h) /\ p.dport = Port(Peer(h)) /\ p.proto = "TCP"
  /\ p.ts \in Nat /\ p.reassembled = FALSE
  /\ "RST" \notin p.flags => p.ttl = PathTTL(h)

IsSegment(p, h, flags, seq, len) == FromHost(p, h) /\ p.flags = flags /\ p.seq = seq /\ p.len = len

LEMMA SegmentFields ==
  ASSUME NEW h, NEW flags, NEW seq, NEW len, NEW ttl, NEW ts \in Nat, "RST" \notin flags => ttl = PathTTL(h)
  PROVE  IsSegment(Segment(h, flags, seq, len, ttl, ts), h, flags, seq, len)
  BY Zenon DEF Segment, FromHost, IsSegment

LEMMA TcpKeyOf ==
  ASSUME client \in Hosts, NEW h \in Hosts, NEW p, FromHost(p, h)
  PROVE  MakeKey(p).key = TcpKey /\ MakeKey(p).dir = DirOf(h)
<1>1. p.proto # "ICMP" /\ p.proto = "TCP"
  BY Zenon DEF FromHost
<1>2. CASE h = 1
  <2>1. p.src = 1 /\ p.dst = 2 /\ p.sport = Port(1) /\ p.dport = Port(2)
    BY <1>2 DEF FromHost, Peer
  <2>2. MakeKey(p) = [key |-> <<1, 2, Port(1), Port(2), "TCP">>, dir |-> "fwd"]
    BY <1>1, <2>1 DEF MakeKey
  <2> QED BY <1>2, <2>2 DEF TcpKey, DirOf
<1>3. CASE h = 2
  <2>1. p.src = 2 /\ p.dst = 1 /\ p.sport = Port(2) /\ p.dport = Port(1)
    BY <1>3 DEF FromHost, Peer
  <2>2. MakeKey(p) = [key |-> <<1, 2, Port(1), Port(2), "TCP">>, dir |-> "rev"]
    BY <1>1, <2>1 DEF MakeKey
  <2> QED BY <1>3, <2>2 DEF TcpKey, DirOf
<1> QED BY <1>2, <1>3, Zenon DEF Hosts

LEMMA KeysDiffer == TcpKey # PingKey /\ TcpKey[5] = "TCP" /\ PingKey[5] = "ICMP"
  BY Zenon DEF TcpKey, PingKey

LEMMA NextTime == ASSUME FlowTypes PROVE \A ts \in NextTS \cup {clock} : ts \in Nat
  BY FlowConstants DEF FlowTypes, NextTS

\* The record before and the record after a TCP packet.
TcpStep(p, h, r, q) ==
  /\ DOMAIN r = FlowFields /\ ResentInv(r, resent) /\ SeqInv(r, talked, sndNxt) /\ ShakeInv(r, shook)
  /\ TcpEffect(r, q, p, DirOf(h)) /\ SpanInv(q) /\ CountInv(q, handled["TCP"] + 1) /\ BaseInv(q) /\ ResetInv(q)

LEMMA TcpPacket ==
  ASSUME FlowInv, NEW h \in Hosts, NEW p, FromHost(p, h), Packet(p)
  PROVE  /\ \E r, q : /\ TcpStep(p, h, r, q)
                      /\ flows' = [f \in DOMAIN flows \cup {TcpKey} |-> IF f = TcpKey THEN q ELSE flows[f]]
         /\ handled' = [handled EXCEPT !["TCP"] = @ + 1]
         /\ client' = client /\ clock' \in Nat
<1>1. /\ MakeKey(p).key = TcpKey /\ MakeKey(p).dir = DirOf(h)
  BY TcpKeyOf, Zenon DEF FlowInv, FlowTypes
<1>2. p.proto = "TCP" /\ p.reassembled = FALSE /\ p.ts \in Nat /\ DirOf(h) \in Dirs
      /\ ("RST" \notin p.flags => p.ttl = PathTTL(h))
  BY DirFacts, Zenon DEF FromHost
<1>3. /\ handled' = [handled EXCEPT !["TCP"] = @ + 1] /\ client' = client
      /\ HandlePacket(p) /\ clock' = IF p.ts > clock THEN p.ts ELSE clock
  BY <1>2, Zenon DEF Packet
<1>4. clock' \in Nat
  BY <1>2, <1>3, Zenon DEF FlowInv, FlowTypes
<1>5. PICK r : r = IF TcpKey \in DOMAIN flows THEN flows[TcpKey] ELSE NewRecord(p.ts)
  BY Zenon
<1>6. PICK q : q = TcpRecord(r, p, DirOf(h))
  BY Zenon
<1>7. flows' = [f \in DOMAIN flows \cup {TcpKey} |-> IF f = TcpKey THEN q ELSE flows[f]]
  BY <1>1, <1>2, <1>3, <1>5, <1>6, Zenon DEF HandlePacket, TcpRecord
<1>8. TcpInv(r)
  <2>1. CASE TcpKey \in DOMAIN flows
    BY <1>5, <2>1, Zenon DEF FlowInv, RecordsInv
  <2>2. CASE TcpKey \notin DOMAIN flows
    <3>1. handled["TCP"] = 0 /\ talked = {} /\ resent = 0 /\ shook = "no"
      BY <2>2, Zenon DEF FlowInv, RecordsInv
    <3>2. r = NewRecord(p.ts)
      BY <1>5, <2>2, Zenon
    <3>3. /\ DOMAIN r = FlowFields /\ SpanInv(r) /\ CountInv(r, 0) /\ ResentInv(r, 0)
          /\ SeqInv(r, {}, sndNxt) /\ BaseInv(r) /\ ResetInv(r) /\ ShakeInv(r, "no")
      BY <1>2, <3>2, NewRecordInv, Zenon
    <3> QED BY <3>1, <3>3, Zenon DEF TcpInv
  <2> QED BY <2>1, <2>2, Zenon
<1>9. DOMAIN r = FlowFields /\ SpanInv(r) /\ CountInv(r, handled["TCP"]) /\ ResentInv(r, resent)
      /\ SeqInv(r, talked, sndNxt) /\ BaseInv(r) /\ ResetInv(r) /\ ShakeInv(r, shook)
  BY <1>8, Zenon DEF TcpInv
<1>10. TcpEffect(r, q, p, DirOf(h))
  BY <1>6, <1>9, TcpRecordEffect, Zenon
<1>11. handled["TCP"] \in Nat
  BY Zenon DEF FlowInv, FlowTypes, Protocols
<1>12. SpanInv(q) /\ CountInv(q, handled["TCP"] + 1)
  BY <1>2, <1>9, <1>10, <1>11, CountedInv, Zenon DEF TcpEffect
<1>13. BaseInv(q) /\ ResetInv(q)
  BY <1>2, <1>9, <1>10, OriginInv, Zenon
<1>14. TcpStep(p, h, r, q)
  BY <1>9, <1>10, <1>12, <1>13, Zenon DEF TcpStep
<1> QED BY <1>3, <1>4, <1>7, <1>14, Zenon

\* What is left to show for a step of a TCP packet.
LEMMA TcpFinish ==
  ASSUME FlowInv, NEW h \in Hosts, NEW p, NEW r, NEW q, TcpStep(p, h, r, q),
         flows' = [f \in DOMAIN flows \cup {TcpKey} |-> IF f = TcpKey THEN q ELSE flows[f]],
         handled' = [handled EXCEPT !["TCP"] = @ + 1], client' = client, clock' \in Nat,
         sndNxt' \in [Hosts -> 0..SeqSpan - 1], talked' \subseteq Hosts, resent' \in Nat,
         shook' \in {"no", "syn", "both"}, LastInv',
         ResentInv(q, resent'), SeqInv(q, talked', sndNxt'), ShakeInv(q, shook')
  PROVE  FlowInv'
<1>1. TcpKey' = TcpKey /\ PingKey' = PingKey
  BY Zenon DEF TcpKey, PingKey, Port
<1>2. DOMAIN flows' = DOMAIN flows \cup {TcpKey} /\ flows'[TcpKey] = q
      /\ (PingKey \in DOMAIN flows => flows'[PingKey] = flows[PingKey])
  BY KeysDiffer, Zenon
<1>3. handled' \in [Protocols -> Nat] /\ handled'["TCP"] = handled["TCP"] + 1 /\ handled'["ICMP"] = handled["ICMP"]
  BY DEF FlowInv, FlowTypes, Protocols
<1>4. FlowTypes'
  BY <1>1, <1>2, <1>3, Zenon DEF FlowInv, FlowTypes
<1>5. DOMAIN q = FlowFields /\ SpanInv(q) /\ CountInv(q, handled["TCP"] + 1) /\ BaseInv(q) /\ ResetInv(q)
  BY Zenon DEF TcpStep, TcpEffect, CountedIn
<1>6. TcpInv(q)'
  <2>1. SpanInv(q)' /\ CountInv(q, handled["TCP"])'
    BY <1>3, <1>5, Zenon DEF SpanInv, CountInv, BothDirs
  <2>2. ResentInv(q, resent)' /\ SeqInv(q, talked, sndNxt)'
    BY Zenon DEF ResentInv, SeqInv, BothDirs, DirOf
  <2>3. BaseInv(q)' /\ ResetInv(q)'
    BY <1>5, Zenon DEF BaseInv, ResetInv, DirOf, PathTTL
  <2>4. ShakeInv(q, shook)'
    BY Zenon DEF ShakeInv
  <2> QED BY <1>5, <2>1, <2>2, <2>3, <2>4, Zenon DEF TcpInv
<1>7. TcpKey' \in DOMAIN flows' /\ TcpInv(flows[TcpKey])'
  BY <1>1, <1>2, <1>6, Zenon DEF TcpInv, SpanInv, CountInv, ResentInv, SeqInv, BaseInv, ResetInv, ShakeInv
<1>8. IF PingKey' \in DOMAIN flows' THEN PingInv(flows[PingKey])' ELSE handled'["ICMP"] = 0
  <2>1. PingKey \in DOMAIN flows <=> PingKey \in DOMAIN flows'
    BY <1>2, KeysDiffer, Zenon
  <2>2. CASE PingKey \notin DOMAIN flows
    BY <1>1, <1>3, <2>1, <2>2, Zenon DEF FlowInv, RecordsInv
  <2>3. CASE PingKey \in DOMAIN flows
    <3>1. PICK z : z = flows[PingKey]
      BY Zenon
    <3>2. PingInv(z) /\ flows'[PingKey] = z
      BY <1>2, <2>3, <3>1, Zenon DEF FlowInv, RecordsInv
    <3>3. PingInv(flows[PingKey])'
      BY <1>1, <1>3, <3>2, Zenon DEF PingInv, SpanInv, CountInv
    <3> QED BY <1>1, <2>1, <2>3, <3>3, Zenon
  <2> QED BY <2>2, <2>3, Zenon
<1>9. RecordsInv'
  BY <1>7, <1>8, Zenon DEF RecordsInv
<1> QED BY <1>4, <1>9, Zenon DEF FlowInv

----------------------------------------------------------------------------
(* Sequence numbers. *)

LEMMA SeqArithmetic ==
  /\ SeqSpan \in Nat \ {0} /\ 2 < SeqSpan \div 2
  /\ \A a \in 0..SeqSpan - 1 : ~SeqBefore(a, a)
  /\ \A a \in 0..SeqSpan - 1, n \in 1..2 : (a + n) % SeqSpan \in 0..SeqSpan - 1 /\ SeqBefore(a, (a + n) % SeqSpan)
<1>1. SeqSpan \in Nat \ {0}
  BY FlowConstants
<1>2. 2 < SeqSpan \div 2
  <2> DEFINE m == SeqSpan \div 2
  <2>1. m \in Int /\ SeqSpan % 2 \in 0..1 /\ SeqSpan = m * 2 + (SeqSpan % 2)
    BY <1>1, DivMod
  <2> HIDE DEF m
  <2>2. m > 2
    BY <2>1, FlowConstants
  <2> QED BY <2>2, Zenon DEF m
<1>3. ASSUME NEW a \in 0..SeqSpan - 1 PROVE ~SeqBefore(a, a)
  <2>1. a - a = 0
    BY <1>1, <1>3
  <2>2. 0 % SeqSpan = 0
    BY <1>1
  <2>3. (a - a) % SeqSpan = 0
    BY <2>1, <2>2, Zenon
  <2> HIDE DEF SeqBefore
  <2>4. ~(0 > 0)
    OBVIOUS
  <2> QED BY <2>3, <2>4, Zenon DEF SeqBefore
<1>4. ASSUME NEW a \in 0..SeqSpan - 1, NEW n \in 1..2
      PROVE  (a + n) % SeqSpan \in 0..SeqSpan - 1 /\ SeqBefore(a, (a + n) % SeqSpan)
  <2> DEFINE b == (a + n) % SeqSpan
  <2> DEFINE k == (a + n) \div SeqSpan
  <2>1. a + n \in Int /\ a \in Int /\ n \in 0..SeqSpan - 1 /\ 0 < n /\ n < SeqSpan \div 2
    BY <1>1, <1>2, FlowConstants
  <2>2. k \in Int /\ b \in 0..SeqSpan - 1 /\ a + n = k * SeqSpan + b
    BY <1>1, <2>1, DivMod, Zenon
  <2> HIDE DEF b, k
  <2>3. -k \in Int /\ b - a \in Int /\ b - a = (-k) * SeqSpan + n
    BY <1>1, <2>1, <2>2
  <2>4. (b - a) % SeqSpan = n
    BY <1>1, <2>1, <2>3, ModUnique, Zenon
  <2>5. SeqBefore(a, b)
    BY <2>1, <2>4, Zenon DEF SeqBefore
  <2> QED BY <2>2, <2>5, Zenon DEF b
<1> QED BY <1>1, <1>2, <1>3, <1>4, Zenon

\* A segment with new data sets the highest sequence number of its direction.
LEMMA NewData ==
  ASSUME NEW r, NEW q, NEW p, NEW h \in Hosts, TcpEffect(r, q, p, DirOf(h)), p.len # 0,
         ~IsRetransmission(r, p, DirOf(h)), NEW n, NEW who, NEW next, NEW next2,
         ResentInv(r, n), SeqInv(r, who, next), next2[h] = (p.seq + p.len) % SeqSpan, next2[h] \in Int,
         \A g \in Hosts \ {h} : next2[g] = next[g]
  PROVE  ResentInv(q, n) /\ SeqInv(q, who \cup {h}, next2)
<1>1. q.retrans = r.retrans /\ q.hiSeq = [r.hiSeq EXCEPT ![DirOf(h)] = next2[h]]
  BY Zenon DEF TcpEffect
<1>2. ResentInv(q, n)
  BY <1>1, Zenon DEF ResentInv
<1>3. r.hiSeq \in [Dirs -> Int] /\ \A g \in Hosts : r.hiSeq[DirOf(g)] = IF g \in who THEN next[g] ELSE -1
  BY Zenon DEF SeqInv
<1>4. q.hiSeq \in [Dirs -> Int]
  BY <1>1, <1>3, DirFacts, Zenon
<1>5. ASSUME NEW g \in Hosts PROVE q.hiSeq[DirOf(g)] = IF g \in who \cup {h} THEN next2[g] ELSE -1
  <2>1. CASE g = h
    <3>1. q.hiSeq[DirOf(h)] = next2[h]
      BY <1>1, <1>3, DirFacts, Zenon
    <3> QED BY <2>1, <3>1, Zenon
  <2>2. CASE g # h
    <3>1. DirOf(g) # DirOf(h) /\ DirOf(g) \in Dirs
      BY <2>2, DirFacts, Zenon
    <3>2. q.hiSeq[DirOf(g)] = r.hiSeq[DirOf(g)]
      BY <1>1, <1>3, <3>1, Zenon
    <3>3. next2[g] = next[g]
      BY <2>2, Zenon
    <3> QED BY <1>3, <2>2, <3>2, <3>3, Zenon
  <2> QED BY <2>1, <2>2, Zenon
<1> QED BY <1>2, <1>4, <1>5, Zenon DEF SeqInv

LEMMA OldData ==
  ASSUME NEW r, NEW q, NEW p, NEW h \in Hosts, TcpEffect(r, q, p, DirOf(h)), p.len # 0,
         IsRetransmission(r, p, DirOf(h)), NEW n \in Nat, NEW who, NEW next,
         ResentInv(r, n), SeqInv(r, who, next)
  PROVE  ResentInv(q, n + 1) /\ SeqInv(q, who, next)
<1> DEFINE f == r.retrans
<1>1. q.hiSeq = r.hiSeq /\ q.retrans = [f EXCEPT ![DirOf(h)] = @ + 1]
  BY Zenon DEF TcpEffect
<1>2. SeqInv(q, who, next)
  BY <1>1, Zenon DEF SeqInv
<1>3. f \in [Dirs -> Nat] /\ BothDirs(f) = n /\ DirOf(h) \in Dirs
  BY DirFacts, Zenon DEF ResentInv
<1> HIDE DEF f
<1>4. PICK d \in Dirs : d = DirOf(h)
  BY <1>3, Zenon
<1>5. [f EXCEPT ![d] = @ + 1] \in [Dirs -> Nat] /\ BothDirs([f EXCEPT ![d] = @ + 1]) = n + 1
  BY <1>3, AddOne, Zenon
<1>6. ResentInv(q, n + 1)
  BY <1>1, <1>4, <1>5, Zenon DEF ResentInv
<1> QED BY <1>2, <1>6, Zenon

----------------------------------------------------------------------------
(* The actions. *)

LEMMA DataInv == ASSUME FlowInv, NEW h \in Hosts, Data(h) PROVE FlowInv'
<1>1. PICK len \in 1..2, push \in SUBSET {"PSH"}, ts \in NextTS \ {clock - 1} :
        /\ Packet(Segment(h, {"ACK"} \cup push, sndNxt[h], len, PathTTL(h), ts))
        /\ sndNxt' = [sndNxt EXCEPT ![h] = (@ + len) % SeqSpan]
        /\ lastSeg' = [lastSeg EXCEPT ![h] = <<sndNxt[h], len>>]
        /\ talked' = talked \cup {h} /\ UNCHANGED <<resent, shook>>
  BY Zenon DEF Data
<1>2. PICK flags : flags = {"ACK"} \cup push
  BY Zenon
<1>3. "RST" \notin flags /\ "SYN" \notin flags
  BY <1>2, Zenon
<1>4. ts \in Nat /\ FlowTypes /\ LastInv
  BY NextTime, Zenon DEF FlowInv
<1>5. PICK s : s = sndNxt[h]
  BY Zenon
<1>6. PICK p : p = Segment(h, flags, s, len, PathTTL(h), ts)
  BY Zenon
<1>a. IsSegment(p, h, flags, s, len)
  BY <1>3, <1>4, <1>6, SegmentFields, Zenon
<1>7. FromHost(p, h) /\ p.flags = flags /\ p.seq = s /\ p.len = len
  BY <1>a, Zenon DEF IsSegment
<1>8. Packet(p)
  BY <1>1, <1>2, <1>5, <1>6, Zenon
<1>9. /\ handled' = [handled EXCEPT !["TCP"] = @ + 1] /\ client' = client /\ clock' \in Nat
      /\ \E r, q : /\ TcpStep(p, h, r, q)
                   /\ flows' = [f \in DOMAIN flows \cup {TcpKey} |-> IF f = TcpKey THEN q ELSE flows[f]]
  BY <1>7, <1>8, TcpPacket, Zenon
<1>10. PICK r, q : /\ TcpStep(p, h, r, q)
                   /\ flows' = [f \in DOMAIN flows \cup {TcpKey} |-> IF f = TcpKey THEN q ELSE flows[f]]
  BY <1>9, Zenon
<1>11. /\ ResentInv(r, resent) /\ SeqInv(r, talked, sndNxt) /\ ShakeInv(r, shook)
       /\ TcpEffect(r, q, p, DirOf(h))
  BY <1>10, Zenon DEF TcpStep
<1>12. s \in 0..SeqSpan - 1
  BY <1>4, <1>5, Zenon DEF FlowTypes
<1>13. (s + len) % SeqSpan \in 0..SeqSpan - 1 /\ ~SeqBefore(s, s)
  BY <1>12, SeqArithmetic, Zenon
<1>14. PICK z : z = (s + len) % SeqSpan
  BY Zenon
<1>15. sndNxt' = [sndNxt EXCEPT ![h] = z] /\ z \in 0..SeqSpan - 1
  BY <1>1, <1>5, <1>13, <1>14, Zenon
<1>16. /\ sndNxt' \in [Hosts -> 0..SeqSpan - 1] /\ sndNxt'[h] = z /\ \A g \in Hosts \ {h} : sndNxt'[g] = sndNxt[g]
  BY <1>4, <1>15, Zenon DEF FlowTypes
<1>17. ~IsRetransmission(r, p, DirOf(h))
  <2>1. r.hiSeq[DirOf(h)] = IF h \in talked THEN s ELSE -1
    BY <1>5, <1>11, Zenon DEF SeqInv
  <2> QED BY <1>7, <1>13, <2>1, Zenon DEF IsRetransmission
<1>18. len # 0 /\ z \in Int
  BY <1>15, SeqArithmetic
<1>19. ResentInv(q, resent) /\ SeqInv(q, talked \cup {h}, sndNxt')
  BY <1>7, <1>11, <1>14, <1>16, <1>17, <1>18, NewData
<1>20. ShakeInv(q, shook)
  BY <1>3, <1>7, <1>11, NoSyn, Zenon
<1>21. LastInv'
  <2>1. DOMAIN lastSeg' = Hosts /\ lastSeg'[h] = <<s, len>> /\ \A g \in Hosts \ {h} : lastSeg'[g] = lastSeg[g]
    BY <1>1, <1>4, <1>5, Zenon DEF LastInv
  <2>2. <<s, len>>[1] = s /\ <<s, len>>[2] = len
    BY Zenon
  <2>3. ASSUME NEW g \in Hosts, lastSeg'[g] # << >>
        PROVE  /\ lastSeg'[g][1] \in 0..SeqSpan - 1 /\ lastSeg'[g][2] \in 1..2
               /\ (lastSeg'[g][1] + lastSeg'[g][2]) % SeqSpan = sndNxt'[g]
    <3>1. CASE g = h
      <4>1. lastSeg'[g][1] = s /\ lastSeg'[g][2] = len /\ sndNxt'[g] = (s + len) % SeqSpan
        BY <1>14, <1>16, <2>1, <2>2, <3>1, Zenon
      <4> QED BY <1>12, <4>1, Zenon
    <3>2. CASE g # h
      <4>1. lastSeg'[g] = lastSeg[g] /\ sndNxt'[g] = sndNxt[g]
        BY <1>16, <2>1, <3>2, Zenon
      <4> QED BY <1>4, <2>3, <4>1, Zenon DEF LastInv
    <3> QED BY <3>1, <3>2, Zenon
  <2> QED BY <2>1, <2>3, Zenon DEF LastInv
<1>22. /\ talked' \subseteq Hosts /\ resent' \in Nat /\ shook' \in {"no", "syn", "both"}
       /\ resent' = resent /\ talked' = talked \cup {h} /\ shook' = shook
  BY <1>1, <1>4, Zenon DEF FlowTypes
<1>23. ResentInv(q, resent') /\ SeqInv(q, talked', sndNxt') /\ ShakeInv(q, shook')
  BY <1>19, <1>20, <1>22, Zenon
<1> QED BY <1>9, <1>10, <1>16, <1>21, <1>22, <1>23, TcpFinish, Zenon

LEMMA SameLast == ASSUME LastInv, UNCHANGED <<sndNxt, lastSeg>> PROVE LastInv'
  BY Zenon DEF LastInv

LEMMA ResendInv == ASSUME FlowInv, NEW h \in Hosts, Resend(h) PROVE FlowInv'
<1>1. PICK ts \in NextTS :
        /\ Packet(Segment(h, {"ACK", "PSH"}, lastSeg[h][1], lastSeg[h][2], PathTTL(h), ts))
        /\ lastSeg[h] # << >> /\ talked' = talked \cup {h}
        /\ resent' = (IF h \in talked THEN resent + 1 ELSE resent)
        /\ UNCHANGED <<sndNxt, lastSeg, shook>>
  BY Zenon DEF Resend
<1>2. "RST" \notin {"ACK", "PSH"} /\ "SYN" \notin {"ACK", "PSH"}
  BY Zenon
<1>4. ts \in Nat /\ FlowTypes /\ LastInv
  BY NextTime, Zenon DEF FlowInv
<1>5. PICK s, len : s = lastSeg[h][1] /\ len = lastSeg[h][2]
  BY Zenon
<1>6. PICK p : p = Segment(h, {"ACK", "PSH"}, s, len, PathTTL(h), ts)
  BY Zenon
<1>a. IsSegment(p, h, {"ACK", "PSH"}, s, len)
  BY <1>2, <1>4, <1>6, SegmentFields, Zenon
<1>7. FromHost(p, h) /\ p.flags = {"ACK", "PSH"} /\ p.seq = s /\ p.len = len
  BY <1>a, Zenon DEF IsSegment
<1>8. Packet(p)
  BY <1>1, <1>5, <1>6, Zenon
<1>9. /\ handled' = [handled EXCEPT !["TCP"] = @ + 1] /\ client' = client /\ clock' \in Nat
      /\ \E r, q : /\ TcpStep(p, h, r, q)
                   /\ flows' = [f \in DOMAIN flows \cup {TcpKey} |-> IF f = TcpKey THEN q ELSE flows[f]]
  BY <1>7, <1>8, TcpPacket, Zenon
<1>10. PICK r, q : /\ TcpStep(p, h, r, q)
                   /\ flows' = [f \in DOMAIN flows \cup {TcpKey} |-> IF f = TcpKey THEN q ELSE flows[f]]
  BY <1>9, Zenon
<1>11. /\ ResentInv(r, resent) /\ SeqInv(r, talked, sndNxt) /\ ShakeInv(r, shook)
       /\ TcpEffect(r, q, p, DirOf(h))
  BY <1>10, Zenon DEF TcpStep
<1>12. s \in 0..SeqSpan - 1 /\ len \in 1..2 /\ (s + len) % SeqSpan = sndNxt[h]
  BY <1>1, <1>4, <1>5, Zenon DEF LastInv
<1>13. len # 0 /\ sndNxt[h] \in Int /\ sndNxt[h] # -1
  BY <1>4, <1>12, SeqArithmetic DEF FlowTypes
<1>14. resent \in Nat /\ resent + 1 \in Nat /\ talked \subseteq Hosts /\ shook \in {"no", "syn", "both"}
  BY <1>4 DEF FlowTypes
<1>15. r.hiSeq[DirOf(h)] = IF h \in talked THEN sndNxt[h] ELSE -1
  BY <1>11, Zenon DEF SeqInv
<1>16. ResentInv(q, resent') /\ SeqInv(q, talked \cup {h}, sndNxt)
  <2>1. CASE h \in talked
    <3>1. SeqBefore(s, sndNxt[h])
      BY <1>12, SeqArithmetic, Zenon
    <3>2. IsRetransmission(r, p, DirOf(h))
      BY <1>7, <1>13, <1>15, <2>1, <3>1, Zenon DEF IsRetransmission
    <3>3. ResentInv(q, resent + 1) /\ SeqInv(q, talked, sndNxt)
      BY <1>7, <1>11, <1>13, <1>14, <3>2, OldData, Zenon
    <3>4. talked \cup {h} = talked
      BY <2>1, Zenon
    <3> QED BY <1>1, <2>1, <3>3, <3>4, Zenon
  <2>2. CASE h \notin talked
    <3>1. ~IsRetransmission(r, p, DirOf(h))
      BY <1>15, <2>2, Zenon DEF IsRetransmission
    <3>2. ResentInv(q, resent) /\ SeqInv(q, talked \cup {h}, sndNxt)
      BY <1>7, <1>11, <1>12, <1>13, <3>1, NewData, Zenon
    <3> QED BY <1>1, <2>2, <3>2, Zenon
  <2> QED BY <2>1, <2>2, Zenon
<1>17. ShakeInv(q, shook)
  BY <1>2, <1>7, <1>11, NoSyn, Zenon
<1>18. sndNxt' = sndNxt /\ lastSeg' = lastSeg /\ shook' = shook
  BY <1>1, Zenon
<1>19. LastInv'
  BY <1>4, <1>18, SameLast, Zenon
<1>20. /\ sndNxt' \in [Hosts -> 0..SeqSpan - 1] /\ talked' \subseteq Hosts /\ resent' \in Nat
       /\ shook' \in {"no", "syn", "both"}
  BY <1>1, <1>4, <1>14, <1>18, Zenon DEF FlowTypes
<1>21. ResentInv(q, resent') /\ SeqInv(q, talked', sndNxt') /\ ShakeInv(q, shook')
  BY <1>1, <1>16, <1>17, <1>18, Zenon
<1> QED BY <1>9, <1>10, <1>19, <1>20, <1>21, TcpFinish, Zenon

LEMMA SynInv == ASSUME FlowInv, NEW h \in Hosts, Syn(h) PROVE FlowInv'
<1>1. /\ Packet(Segment(h, IF h = client THEN {"SYN"} ELSE {"SYN", "ACK"}, sndNxt[h], 0, PathTTL(h), clock))
      /\ shook' = (IF h = client THEN (IF shook = "no" THEN "syn" ELSE shook)
                   ELSE IF shook = "no" THEN "no" ELSE "both")
      /\ UNCHANGED <<sndNxt, lastSeg, talked, resent>>
  BY Zenon DEF Syn
<1>2. PICK flags, ts : flags = (IF h = client THEN {"SYN"} ELSE {"SYN", "ACK"}) /\ ts = clock
  BY Zenon
<1>3. "RST" \notin flags /\ "SYN" \in flags /\ ("ACK" \in flags <=> h # client)
  BY <1>2, Zenon
<1>4. ts \in Nat /\ FlowTypes /\ LastInv
  BY <1>2, NextTime, Zenon DEF FlowInv
<1>5. PICK s : s = sndNxt[h]
  BY Zenon
<1>6. PICK p : p = Segment(h, flags, s, 0, PathTTL(h), ts)
  BY Zenon
<1>a. IsSegment(p, h, flags, s, 0)
  BY <1>3, <1>4, <1>6, SegmentFields, Zenon
<1>7. FromHost(p, h) /\ p.flags = flags /\ p.seq = s /\ p.len = 0 /\ p.ts \in Nat
  BY <1>a, Zenon DEF IsSegment, FromHost
<1>8. Packet(p)
  BY <1>1, <1>2, <1>5, <1>6, Zenon
<1>9. /\ handled' = [handled EXCEPT !["TCP"] = @ + 1] /\ client' = client /\ clock' \in Nat
      /\ \E r, q : /\ TcpStep(p, h, r, q)
                   /\ flows' = [f \in DOMAIN flows \cup {TcpKey} |-> IF f = TcpKey THEN q ELSE flows[f]]
  BY <1>7, <1>8, TcpPacket, Zenon
<1>10. PICK r, q : /\ TcpStep(p, h, r, q)
                   /\ flows' = [f \in DOMAIN flows \cup {TcpKey} |-> IF f = TcpKey THEN q ELSE flows[f]]
  BY <1>9, Zenon
<1>11. /\ ResentInv(r, resent) /\ SeqInv(r, talked, sndNxt) /\ ShakeInv(r, shook)
       /\ TcpEffect(r, q, p, DirOf(h))
  BY <1>10, Zenon DEF TcpStep
<1>12. ResentInv(q, resent) /\ SeqInv(q, talked, sndNxt)
  BY <1>7, <1>11, NoData, Zenon
<1>13. p.ts # -1
  BY <1>7
<1>14. ShakeInv(q, shook')
  <2> SUFFICES ASSUME client = 1 PROVE (shook' # "no" => q.syn # -1) /\ (shook' = "both" => q.synAck # -1)
    BY Zenon DEF ShakeInv
  <2>1. (shook # "no" => r.syn # -1) /\ (shook = "both" => r.synAck # -1)
    BY <1>11, Zenon DEF ShakeInv
  <2>2. ShakeEffect(r, q, p, DirOf(h))
    BY <1>11, Zenon DEF TcpEffect
  <2>3. CASE h = client
    <3>1. DirOf(h) = "fwd" /\ "ACK" \notin p.flags /\ "SYN" \in p.flags
      BY <1>3, <1>7, <2>3, Zenon DEF DirOf
    <3>2. q.syn # -1 /\ q.synAck = r.synAck
      BY <1>13, <2>2, <3>1, Zenon DEF ShakeEffect
    <3>3. shook' = "both" => shook = "both"
      BY <1>1, <2>3, Zenon
    <3> QED BY <2>1, <3>2, <3>3, Zenon
  <2>4. CASE h # client
    <3>1. DirOf(h) = "rev" /\ "ACK" \in p.flags /\ "SYN" \in p.flags
      BY <1>3, <1>7, <2>4, Zenon DEF DirOf
    <3>2. q.syn = r.syn /\ (r.syn # -1 => q.synAck # -1)
      BY <1>13, <2>2, <3>1, Zenon DEF ShakeEffect
    <3>3. shook' # "no" => shook # "no"
      BY <1>1, <2>4, Zenon
    <3>4. shook' = "both" => shook' # "no"
      BY Zenon
    <3> QED BY <2>1, <3>2, <3>3, <3>4, Zenon
  <2> QED BY <2>3, <2>4, Zenon
<1>15. sndNxt' = sndNxt /\ lastSeg' = lastSeg /\ talked' = talked /\ resent' = resent
  BY <1>1, Zenon
<1>16. LastInv'
  BY <1>4, <1>15, SameLast, Zenon
<1>17. /\ sndNxt' \in [Hosts -> 0..SeqSpan - 1] /\ talked' \subseteq Hosts /\ resent' \in Nat
       /\ shook' \in {"no", "syn", "both"}
  BY <1>1, <1>4, <1>15, Zenon DEF FlowTypes
<1>18. ResentInv(q, resent') /\ SeqInv(q, talked', sndNxt')
  BY <1>12, <1>15, Zenon
<1> QED BY <1>9, <1>10, <1>14, <1>16, <1>17, <1>18, TcpFinish, Zenon

LEMMA CloseInv == ASSUME FlowInv, NEW h \in Hosts, Close(h) PROVE FlowInv'
<1>1. PICK flags, ttl :
        /\ "SYN" \notin flags /\ ("RST" \notin flags => ttl = PathTTL(h))
        /\ Packet(Segment(h, flags, sndNxt[h], 0, ttl, clock))
        /\ UNCHANGED <<sndNxt, lastSeg, talked, resent, shook>>
  <2>1. "SYN" \notin {"FIN"} /\ "SYN" \notin {"RST"} /\ "RST" \in {"RST"}
    BY Zenon
  <2> QED BY <2>1, Zenon DEF Close
<1>2. PICK ts : ts = clock
  BY Zenon
<1>4. ts \in Nat /\ FlowTypes /\ LastInv
  BY <1>2, NextTime, Zenon DEF FlowInv
<1>5. PICK s : s = sndNxt[h]
  BY Zenon
<1>6. PICK p : p = Segment(h, flags, s, 0, ttl, ts)
  BY Zenon
<1>a. IsSegment(p, h, flags, s, 0)
  BY <1>1, <1>4, <1>6, SegmentFields, Zenon
<1>7. FromHost(p, h) /\ p.flags = flags /\ p.len = 0
  BY <1>a, Zenon DEF IsSegment
<1>8. Packet(p)
  BY <1>1, <1>2, <1>5, <1>6, Zenon
<1>9. /\ handled' = [handled EXCEPT !["TCP"] = @ + 1] /\ client' = client /\ clock' \in Nat
      /\ \E r, q : /\ TcpStep(p, h, r, q)
                   /\ flows' = [f \in DOMAIN flows \cup {TcpKey} |-> IF f = TcpKey THEN q ELSE flows[f]]
  BY <1>7, <1>8, TcpPacket, Zenon
<1>10. PICK r, q : /\ TcpStep(p, h, r, q)
                   /\ flows' = [f \in DOMAIN flows \cup {TcpKey} |-> IF f = TcpKey THEN q ELSE flows[f]]
  BY <1>9, Zenon
<1>11. /\ ResentInv(r, resent) /\ SeqInv(r, talked, sndNxt) /\ ShakeInv(r, shook)
       /\ TcpEffect(r, q, p, DirOf(h))
  BY <1>10, Zenon DEF TcpStep
<1>12. ResentInv(q, resent) /\ SeqInv(q, talked, sndNxt) /\ ShakeInv(q, shook)
  BY <1>1, <1>7, <1>11, NoData, NoSyn, Zenon
<1>13. sndNxt' = sndNxt /\ lastSeg' = lastSeg /\ talked' = talked /\ resent' = resent /\ shook' = shook
  BY <1>1, Zenon
<1>14. LastInv'
  BY <1>4, <1>13, SameLast, Zenon
<1>15. /\ sndNxt' \in [Hosts -> 0..SeqSpan - 1] /\ talked' \subseteq Hosts /\ resent' \in Nat
       /\ shook' \in {"no", "syn", "both"}
  BY <1>4, <1>13, Zenon DEF FlowTypes
<1>16. ResentInv(q, resent') /\ SeqInv(q, talked', sndNxt') /\ ShakeInv(q, shook')
  BY <1>12, <1>13, Zenon
<1> QED BY <1>9, <1>10, <1>14, <1>15, <1>16, TcpFinish, Zenon

\* The connection's record when another step leaves it alone.
LEMMA TcpKept ==
  ASSUME FlowInv, client' = client, handled'["TCP"] = handled["TCP"],
         UNCHANGED <<sndNxt, talked, resent, shook>>,
         TcpKey \in DOMAIN flows <=> TcpKey \in DOMAIN flows',
         TcpKey \in DOMAIN flows => flows'[TcpKey] = flows[TcpKey]
  PROVE  IF TcpKey' \in DOMAIN flows' THEN TcpInv(flows[TcpKey])'
         ELSE handled'["TCP"] = 0 /\ talked' = {} /\ resent' = 0 /\ shook' = "no"
<1>1. TcpKey' = TcpKey
  BY Zenon DEF TcpKey, Port
<1>2. CASE TcpKey \notin DOMAIN flows
  BY <1>1, <1>2, Zenon DEF FlowInv, RecordsInv
<1>3. CASE TcpKey \in DOMAIN flows
  <2>1. PICK z : z = flows[TcpKey]
    BY Zenon
  <2>2. TcpInv(z) /\ flows'[TcpKey] = z
    BY <1>3, <2>1, Zenon DEF FlowInv, RecordsInv
  <2>3. TcpInv(z)'
    <3>1. SpanInv(z)' /\ CountInv(z, handled["TCP"])' /\ ResentInv(z, resent)' /\ SeqInv(z, talked, sndNxt)'
      BY <2>2, Zenon DEF TcpInv, SpanInv, CountInv, ResentInv, SeqInv
    <3>2. BaseInv(z)' /\ ResetInv(z)' /\ ShakeInv(z, shook)'
      BY <2>2, Zenon DEF TcpInv, BaseInv, ResetInv, ShakeInv
    <3> QED BY <2>2, <3>1, <3>2, Zenon DEF TcpInv
  <2>4. TcpInv(flows[TcpKey])'
    BY <1>1, <2>2, <2>3, Zenon DEF TcpInv, SpanInv, CountInv, ResentInv, SeqInv, BaseInv, ResetInv, ShakeInv
  <2> QED BY <1>1, <1>3, <2>4, Zenon
<1> QED BY <1>2, <1>3, Zenon

LEMMA PingStepInv == ASSUME FlowInv, NEW h \in Hosts, Ping(h) PROVE FlowInv'
<1>1. PICK p : p = [src |-> h, dst |-> Peer(h), sport |-> IF h = client THEN 8 ELSE 0, dport |-> 0,
                    proto |-> "ICMP", flags |-> {}, seq |-> 0, ack |-> 0, len |-> 1, ttl |-> 9,
                    ts |-> clock, reassembled |-> FALSE]
  BY Zenon
<1>2. Packet(p) /\ UNCHANGED <<sndNxt, lastSeg, talked, resent, shook>>
  BY <1>1, Zenon DEF Ping
<1>3. p.src = h /\ p.dst = Peer(h) /\ p.proto = "ICMP" /\ p.proto # "TCP" /\ p.reassembled = FALSE /\ p.ts = clock
  BY <1>1, Zenon
<1>4. MakeKey(p).key = PingKey /\ MakeKey(p).dir = DirOf(h)
  <2>1. CASE h = 1
    <3>1. p.src = 1 /\ p.dst = 2
      BY <1>3, <2>1 DEF Peer
    <3>2. MakeKey(p) = [key |-> <<1, 2, 0, 0, "ICMP">>, dir |-> "fwd"]
      BY <1>3, <3>1 DEF MakeKey
    <3> QED BY <2>1, <3>2 DEF PingKey, DirOf
  <2>2. CASE h = 2
    <3>1. p.src = 2 /\ p.dst = 1
      BY <1>3, <2>2 DEF Peer
    <3>2. MakeKey(p) = [key |-> <<1, 2, 0, 0, "ICMP">>, dir |-> "rev"]
      BY <1>3, <3>1 DEF MakeKey
    <3> QED BY <2>2, <3>2 DEF PingKey, DirOf
  <2> QED BY <2>1, <2>2, Zenon DEF Hosts
<1>5. FlowTypes /\ LastInv /\ p.ts \in Nat /\ DirOf(h) \in Dirs /\ handled["ICMP"] \in Nat
  BY <1>3, DirFacts, Zenon DEF FlowInv, FlowTypes, Protocols
<1>6. /\ handled' = [handled EXCEPT !["ICMP"] = @ + 1] /\ client' = client
      /\ HandlePacket(p) /\ clock' = IF p.ts > clock THEN p.ts ELSE clock
  BY <1>2, <1>3, Zenon DEF Packet
<1>7. clock' \in Nat
  BY <1>5, <1>6, Zenon DEF FlowTypes
<1>8. PICK r : r = IF PingKey \in DOMAIN flows THEN flows[PingKey] ELSE NewRecord(p.ts)
  BY Zenon
<1>9. PICK q : q = Bucket(Volume(r, p, DirOf(h)), p)
  BY Zenon
<1>10. flows' = [f \in DOMAIN flows \cup {PingKey} |-> IF f = PingKey THEN q ELSE flows[f]]
  BY <1>3, <1>4, <1>6, <1>8, <1>9, Zenon DEF HandlePacket
<1>11. DOMAIN r = FlowFields /\ SpanInv(r) /\ CountInv(r, handled["ICMP"])
  <2>1. CASE PingKey \in DOMAIN flows
    BY <1>8, <2>1, Zenon DEF FlowInv, RecordsInv, PingInv
  <2>2. CASE PingKey \notin DOMAIN flows
    <3>1. handled["ICMP"] = 0 /\ r = NewRecord(p.ts)
      BY <1>8, <2>2, Zenon DEF FlowInv, RecordsInv
    <3> QED BY <1>5, <3>1, NewRecordInv, Zenon
  <2> QED BY <2>1, <2>2, Zenon
<1>12. CountedIn(r, q, p, DirOf(h))
  BY <1>9, <1>11, VolumeCounts, Zenon
<1>13. SpanInv(q) /\ CountInv(q, handled["ICMP"] + 1) /\ DOMAIN q = FlowFields
  <2>1. SpanInv(q) /\ CountInv(q, handled["ICMP"] + 1)
    BY <1>5, <1>11, <1>12, CountedInv, Zenon
  <2> QED BY <1>12, <2>1, Zenon DEF CountedIn
<1>14. PingKey' = PingKey /\ TcpKey' = TcpKey
  BY <1>6, Zenon DEF TcpKey, PingKey, Port
<1>15. /\ DOMAIN flows' = DOMAIN flows \cup {PingKey} /\ flows'[PingKey] = q
       /\ TcpKey \in DOMAIN flows => flows'[TcpKey] = flows[TcpKey]
       /\ TcpKey \in DOMAIN flows <=> TcpKey \in DOMAIN flows'
  BY <1>10, KeysDiffer, Zenon
<1>16. handled' \in [Protocols -> Nat] /\ handled'["ICMP"] = handled["ICMP"] + 1 /\ handled'["TCP"] = handled["TCP"]
  BY <1>5, <1>6 DEF FlowTypes, Protocols
<1>17. sndNxt' = sndNxt /\ lastSeg' = lastSeg /\ talked' = talked /\ resent' = resent /\ shook' = shook
  BY <1>2, Zenon
<1>18. FlowTypes'
  BY <1>5, <1>6, <1>7, <1>14, <1>15, <1>16, <1>17, Zenon DEF FlowTypes
<1>19. LastInv'
  BY <1>5, <1>17, SameLast, Zenon
<1>20. PingInv(flows[PingKey])'
  BY <1>13, <1>14, <1>15, <1>16, Zenon DEF PingInv, SpanInv, CountInv
<1>21. IF TcpKey' \in DOMAIN flows' THEN TcpInv(flows[TcpKey])'
       ELSE handled'["TCP"] = 0 /\ talked' = {} /\ resent' = 0 /\ shook' = "no"
  BY <1>6, <1>15, <1>16, <1>17, TcpKept, Zenon
<1>22. PingKey' \in DOMAIN flows'
  BY <1>14, <1>15, Zenon
<1> QED BY <1>18, <1>19, <1>20, <1>21, <1>22, Zenon DEF FlowInv, RecordsInv

LEMMA MessageInv == ASSUME FlowInv, NEW h \in Hosts, Message(h) PROVE FlowInv'
<1>1. PICK p : p = [Segment(h, {}, 0, 2, 0, clock) EXCEPT !.reassembled = TRUE]
  BY Zenon
<1>2. Packet(p) /\ UNCHANGED <<sndNxt, lastSeg, talked, resent, shook>>
  BY <1>1, Zenon DEF Message
<1>3. p.reassembled = TRUE /\ p.ts = clock
  BY <1>1, Zenon DEF Segment
<1>4. flows' = flows /\ handled' = handled /\ client' = client
  BY <1>2, <1>3, Zenon DEF Packet, HandlePacket
<1>5. clock' = IF p.ts > clock THEN p.ts ELSE clock
  BY <1>2, Zenon DEF Packet
<1>6. clock' = clock
  BY <1>3, <1>5, Zenon
<1>7. TcpKey' = TcpKey /\ PingKey' = PingKey
  BY <1>4, Zenon DEF TcpKey, PingKey, Port
<1>8. sndNxt' = sndNxt /\ lastSeg' = lastSeg /\ talked' = talked /\ resent' = resent /\ shook' = shook
  BY <1>2, Zenon
<1>9. FlowTypes'
  BY <1>4, <1>6, <1>7, <1>8, Zenon DEF FlowInv, FlowTypes
<1>10. LastInv'
  BY <1>8, SameLast, Zenon DEF FlowInv
<1>11. IF TcpKey' \in DOMAIN flows' THEN TcpInv(flows[TcpKey])'
       ELSE handled'["TCP"] = 0 /\ talked' = {} /\ resent' = 0 /\ shook' = "no"
  BY <1>4, <1>8, TcpKept, Zenon
<1>12. IF PingKey' \in DOMAIN flows' THEN PingInv(flows[PingKey])' ELSE handled'["ICMP"] = 0
  BY <1>4, <1>7, Zenon DEF FlowInv, RecordsInv, PingInv, SpanInv, CountInv
<1> QED BY <1>9, <1>10, <1>11, <1>12, Zenon DEF FlowInv, RecordsInv

\* After a Flush the tracker knows nothing, and a segment of before may still be sent again.
LEMMA FlushInv == ASSUME FlowInv, Flush PROVE FlowInv'
<1>1. /\ flows' = << >> /\ handled' = [q \in Protocols |-> 0] /\ talked' = {} /\ resent' = 0 /\ shook' = "no"
      /\ client' = client /\ sndNxt' = sndNxt /\ lastSeg' = lastSeg /\ clock' = clock
  BY Zenon DEF Flush
<1>2. DOMAIN flows' = {}
  BY <1>1
<1>3. handled' \in [Protocols -> Nat] /\ handled'["TCP"] = 0 /\ handled'["ICMP"] = 0
  BY <1>1, Zenon DEF Protocols
<1>4. resent' \in Nat
  BY <1>1, Zenon
<1>5. FlowTypes'
  BY <1>1, <1>2, <1>3, <1>4, Zenon DEF FlowInv, FlowTypes
<1>6. LastInv'
  BY <1>1, SameLast, Zenon DEF FlowInv
<1>7. RecordsInv'
  BY <1>1, <1>2, <1>3, Zenon DEF RecordsInv
<1> QED BY <1>5, <1>6, <1>7, Zenon DEF FlowInv

LEMMA FlowInitInv == ASSUME FlowInit PROVE FlowInv
<1>1. /\ flows = << >> /\ client \in Hosts /\ sndNxt = [h \in Hosts |-> FirstSeq] /\ lastSeg = [h \in Hosts |-> << >>]
      /\ clock = 0 /\ handled = [q \in Protocols |-> 0] /\ talked = {} /\ resent = 0 /\ shook = "no"
  BY Zenon DEF FlowInit
<1>2. DOMAIN flows = {}
  BY <1>1
<1>3. handled \in [Protocols -> Nat] /\ handled["TCP"] = 0 /\ handled["ICMP"] = 0 /\ resent \in Nat /\ clock \in Nat
  BY <1>1, Zenon DEF Protocols
<1>4. sndNxt \in [Hosts -> 0..SeqSpan - 1]
  BY <1>1, FlowConstants, Zenon
<1>5. FlowTypes
  BY <1>1, <1>2, <1>3, <1>4, Zenon DEF FlowTypes
<1>6. LastInv
  BY <1>1, Zenon DEF LastInv
<1>7. RecordsInv
  BY <1>1, <1>2, <1>3, Zenon DEF RecordsInv
<1> QED BY <1>5, <1>6, <1>7, Zenon DEF FlowInv

LEMMA FlowStutter == ASSUME FlowInv, UNCHANGED flowVars PROVE FlowInv'
<1>1. /\ flows' = flows /\ client' = client /\ sndNxt' = sndNxt /\ lastSeg' = lastSeg /\ clock' = clock
      /\ handled' = handled /\ talked' = talked /\ resent' = resent /\ shook' = shook
  BY Zenon DEF flowVars
<1>2. TcpKey' = TcpKey /\ PingKey' = PingKey
  BY <1>1, Zenon DEF TcpKey, PingKey, Port
<1>3. FlowTypes' /\ LastInv'
  BY <1>1, <1>2, SameLast, Zenon DEF FlowInv, FlowTypes
<1>4. IF TcpKey' \in DOMAIN flows' THEN TcpInv(flows[TcpKey])'
       ELSE handled'["TCP"] = 0 /\ talked' = {} /\ resent' = 0 /\ shook' = "no"
  BY <1>1, TcpKept, Zenon
<1>5. IF PingKey' \in DOMAIN flows' THEN PingInv(flows[PingKey])' ELSE handled'["ICMP"] = 0
  BY <1>1, <1>2, Zenon DEF FlowInv, RecordsInv, PingInv, SpanInv, CountInv
<1> QED BY <1>3, <1>4, <1>5, Zenon DEF FlowInv, RecordsInv

\* The TTL of a reset that took another path is far from the baseline of its direction.
LEMMA ResetTold ==
  ASSUME NEW r, BaseInv(r), ResetInv(r), r.rst.ttl = 1 PROVE Authenticity(r) \in {"suspicious", "unknown"}
<1>1. PICK h \in Hosts : r.rst.seen = TRUE /\ r.rst.dir = DirOf(h)
  BY Zenon DEF ResetInv
<1> DEFINE base == r.baseline[DirOf(h)]
<1>2. base = 0 \/ base = PathTTL(h)
  BY <1>1, Zenon DEF BaseInv
<1>3. Authenticity(r) = IF base = 0 THEN "unknown"
                        ELSE IF (IF base > 1 THEN base - 1 ELSE 1 - base) >= Suspicious THEN "suspicious" ELSE "genuine"
  <2>1. ~(~r.rst.seen \/ r.rst.ttl = 0)
    BY <1>1
  <2> QED BY <1>1, <2>1, Zenon DEF Authenticity
<1> HIDE DEF base
<1>4. PathTTL(h) \in Nat /\ PathTTL(h) > 1 /\ PathTTL(h) - 1 >= Suspicious /\ PathTTL(h) # 0
  BY PathFacts
<1>5. CASE base = 0
  BY <1>3, <1>5, Zenon
<1>6. CASE base = PathTTL(h)
  BY <1>3, <1>4, <1>6, Zenon
<1> QED BY <1>2, <1>5, <1>6, Zenon

LEMMA FlowInvExact == ASSUME FlowInv PROVE FlowsExact
<1>1. DOMAIN flows \subseteq {TcpKey, PingKey} /\ handled \in [Protocols -> Nat]
  BY Zenon DEF FlowInv, FlowTypes
<1>2. TcpKey \in DOMAIN flows => TcpInv(flows[TcpKey])
  BY Zenon DEF FlowInv, RecordsInv
<1>3. PingKey \in DOMAIN flows => PingInv(flows[PingKey])
  BY Zenon DEF FlowInv, RecordsInv
<1>4. ASSUME NEW k \in TCPFlows PROVE k = TcpKey /\ TcpInv(flows[k])
  <2>1. k \in DOMAIN flows /\ k[5] = "TCP"
    BY Zenon DEF TCPFlows
  <2>2. k = TcpKey
    BY <1>1, <2>1, KeysDiffer, Zenon
  <2> QED BY <1>2, <2>1, <2>2, Zenon
<1>5. OneFlowEach
  <2>1. \A k, l \in DOMAIN flows : k[5] = l[5] => k = l
    <3>1. "TCP" # "ICMP"
      BY Zenon
    <3> QED BY <1>1, <3>1, KeysDiffer, Zenon
  <2>2. \A k \in DOMAIN flows : BothDirs(flows[k].packets) = handled[k[5]]
    <3>1. TcpKey \in DOMAIN flows => BothDirs(flows[TcpKey].packets) = handled["TCP"]
      BY <1>2, Zenon DEF TcpInv, CountInv
    <3>2. PingKey \in DOMAIN flows => BothDirs(flows[PingKey].packets) = handled["ICMP"]
      BY <1>3, Zenon DEF PingInv, CountInv
    <3> QED BY <1>1, <3>1, <3>2, KeysDiffer, Zenon
  <2>3. \A q \in Protocols : handled[q] > 0 => \E k \in DOMAIN flows : k[5] = q
    <3>1. TcpKey \notin DOMAIN flows => handled["TCP"] = 0
      BY Zenon DEF FlowInv, RecordsInv
    <3>2. PingKey \notin DOMAIN flows => handled["ICMP"] = 0
      BY Zenon DEF FlowInv, RecordsInv
    <3>3. ~(0 > 0)
      OBVIOUS
    <3> QED BY <3>1, <3>2, <3>3, KeysDiffer, Zenon DEF Protocols
  <2> QED BY <2>1, <2>2, <2>3, Zenon DEF OneFlowEach
<1>6. EndsAfterStart
  BY <1>1, <1>2, <1>3, Zenon DEF EndsAfterStart, TcpInv, PingInv, SpanInv
<1>7. RetransExact
  <2>1. TCPFlows = {} => TcpKey \notin DOMAIN flows
    BY KeysDiffer, Zenon DEF TCPFlows
  <2>2. TcpKey \notin DOMAIN flows => resent = 0
    BY Zenon DEF FlowInv, RecordsInv
  <2> QED BY <1>4, <2>1, <2>2, Zenon DEF RetransExact, TcpInv, ResentInv
<1>8. HandshakeTimed
  BY <1>4, Zenon DEF HandshakeTimed, TcpInv, ShakeInv
<1>9. InjectedNotGenuine
  <2> SUFFICES ASSUME NEW k \in TCPFlows, flows[k].rst.ttl = 1
               PROVE  Authenticity(flows[k]) \in {"suspicious", "unknown"}
    BY Zenon DEF InjectedNotGenuine
  <2>1. BaseInv(flows[k]) /\ ResetInv(flows[k])
    BY <1>4, Zenon DEF TcpInv
  <2> QED BY <2>1, ResetTold, Zenon
<1> QED BY <1>5, <1>6, <1>7, <1>8, <1>9, Zenon DEF FlowsExact

\* What HandlePacket keeps of a conversation (one flow for both directions with every
\* packet once, the segments sent again, the handshake, the span and the origin of a
\* reset) is what a recount gives, for any even span of sequence numbers of more than
\* four, wherever they start, and for any number of packets.
THEOREM FlowsExactAlways == FlowSpec => []FlowsExact
<1>1. FlowInit => FlowInv
  BY FlowInitInv, Zenon
<1>2. FlowInv /\ [FlowNext]_flowVars => FlowInv'
  <2> SUFFICES ASSUME FlowInv, [FlowNext]_flowVars PROVE FlowInv'
    BY Zenon
  <2>1. ASSUME NEW h \in Hosts, Data(h) PROVE FlowInv'
    BY <2>1, DataInv, Zenon
  <2>2. ASSUME NEW h \in Hosts, Resend(h) PROVE FlowInv'
    BY <2>2, ResendInv, Zenon
  <2>3. ASSUME NEW h \in Hosts, Syn(h) PROVE FlowInv'
    BY <2>3, SynInv, Zenon
  <2>4. ASSUME NEW h \in Hosts, Close(h) PROVE FlowInv'
    BY <2>4, CloseInv, Zenon
  <2>5. ASSUME NEW h \in Hosts, Ping(h) PROVE FlowInv'
    BY <2>5, PingStepInv, Zenon
  <2>6. ASSUME NEW h \in Hosts, Message(h) PROVE FlowInv'
    BY <2>6, MessageInv, Zenon
  <2>7. CASE Flush
    BY <2>7, FlushInv, Zenon
  <2>8. CASE UNCHANGED flowVars
    BY <2>8, FlowStutter, Zenon
  <2> QED BY <2>1, <2>2, <2>3, <2>4, <2>5, <2>6, <2>7, <2>8, Zenon DEF FlowNext
<1>3. FlowInv => FlowsExact
  BY FlowInvExact, Zenon
<1> QED BY <1>1, <1>2, <1>3, PTL DEF FlowSpec
=============================================================================

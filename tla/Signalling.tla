----------------------------- MODULE Signalling -----------------------------
(***************************************************************************)
(* The decoders that make one record of one packet and one flow of one     *)
(* record: Diameter, PFCP, GTP, SNMP, HTTP/2, NAS-5GS, NGAP and S1AP.      *)
(* parseX reads the elements of a message one after the other into the     *)
(* record, so what a field ends up with depends on their order; Flush      *)
(* reads the records long after, some of it from counters of the decoder.  *)
(* How the bytes are cut into elements is module Elements.                 *)
(***************************************************************************)
EXTENDS Integers, Sequences, FiniteSets, SequencesExt, FiniteSetsExt

CONSTANTS
  UEs,         \* UE keys of the NAS decoder: source address and port
  MaxList,     \* bound on the elements of a message
  MaxMessages  \* bound on messages where the decoder counts across them

VARIABLES
  signal,      \* which decoder: it never changes
  onWire,      \* history: the messages the decoder accepted, in order
  logged,      \* d.messages, d.completed, d.records
  authFailures, tunnelCount

signalVars == <<signal, onWire, logged, authFailures, tunnelCount>>

None == ""

\* The elements of a message.
E(type, value) == [type |-> type, value |-> value]
Of(list, types) == {i \in DOMAIN list : list[i].type \in types}

----------------------------------------------------------------------------
(* Diameter. *)

\* Mutant: on S6a the User-Name is taken for the IMSI as it is met.
ReadAVPEager(msg, avp) ==
  IF avp.type = "user" /\ msg.s6a /\ avp.value # None
  THEN [msg EXCEPT !.user = avp.value, !.imsi = avp.value]
  ELSE CASE avp.type = "result" -> [msg EXCEPT !.result = avp.value]
         [] avp.type = "user" -> [msg EXCEPT !.user = avp.value]
         [] avp.type = "imsi" /\ avp.value # None -> [msg EXCEPT !.imsi = avp.value]
         [] OTHER -> msg

\* The cases of the loop over the AVPs.  A Subscription-Id is grouped: its type and data.
ReadAVP(msg, avp) ==
  CASE avp.type = "result" -> [msg EXCEPT !.result = avp.value]
    [] avp.type = "user"   -> [msg EXCEPT !.user = avp.value]
    [] avp.type = "imsi" /\ avp.value # None   -> [msg EXCEPT !.imsi = avp.value]
    [] avp.type = "msisdn" /\ avp.value # None -> [msg EXCEPT !.msisdn = avp.value]
    [] OTHER -> msg

ReadAVPs(msg, avps) == FoldLeft(ReadAVP, msg, avps)

FailureResult(code) == code \notin {0, 2001, 2002}

ParseDiameter(m) ==
  LET msg == ReadAVPs([s6a |-> m.s6a, result |-> 0, user |-> None, imsi |-> None,
                       msisdn |-> None], m.list)
  IN  [imsi |-> IF msg.imsi = None /\ m.s6a THEN msg.user ELSE msg.imsi,
       msisdn |-> msg.msisdn, code |-> msg.result,
       error |-> ~m.request /\ FailureResult(msg.result)]

\* Mutant: only the error bit of the header is shown in the live view.
DiameterErrorsByFlag(m, rec) == ~m.request /\ m.flag

\* DetectErrors: whether the live view shows an error.
DiameterErrors(m, rec) == ~m.request /\ (m.flag \/ rec.code \notin {0, 2001, 2002})

DiameterMessages ==
  [request : BOOLEAN, s6a : BOOLEAN, flag : BOOLEAN,
   list : SeqOf({E("result", 2001), E("result", 2002), E("result", 5012),
                 E("user", "a"), E("user", None), E("imsi", "b"), E("imsi", None),
                 E("msisdn", "b")}, MaxList)]

----------------------------------------------------------------------------
(* PFCP. *)

NewPfcp == [code |-> 0, dnn |-> None, ueip |-> None, local |-> 0, remote |-> 0,
            pdr |-> 0, far |-> 0, urr |-> 0, qer |-> 0, action |-> None]

\* parseUEIPAddress: an IPv4 address always counts, an IPv6 address when there is none yet.
ParseUEIPAddress(rec, value) ==
  IF value = "v4" \/ rec.ueip = None THEN [rec EXCEPT !.ueip = value] ELSE rec

\* parseFSEID: the first that is not zero is the local one.
ParseFSEID(rec, seid) ==
  IF rec.local = 0 THEN [rec EXCEPT !.local = seid] ELSE [rec EXCEPT !.remote = seid]

\* Mutant: a Network Instance of a rule replaces what was read before.
NestedIEOver(rec, ie) ==
  IF ie.type = "dnn" THEN [rec EXCEPT !.dnn = ie.value] ELSE rec

\* The cases of parseGroupedIE that are not grouped themselves.
NestedIE(rec, ie) ==
  CASE ie.type = "action" -> [rec EXCEPT !.action = ie.value]
    [] ie.type = "ueip" -> ParseUEIPAddress(rec, ie.value)
    [] ie.type = "dnn" /\ rec.dnn = None -> [rec EXCEPT !.dnn = ie.value]
    [] OTHER -> rec

\* parseGroupedIE: PDI and Forwarding Parameters are grouped once more.
GroupedIE(rec, ies) ==
  FoldLeft(LAMBDA r, ie : IF ie.type \in {"pdi", "forwarding"}
                          THEN FoldLeft(NestedIE, r, ie.value)
                          ELSE NestedIE(r, ie), rec, ies)

\* parsePFCPIEs.
ReadPfcpIE(rec, ie) ==
  CASE ie.type = "cause" -> [rec EXCEPT !.code = ie.value]
    [] ie.type = "fseid" -> ParseFSEID(rec, ie.value)
    [] ie.type = "ueip" -> ParseUEIPAddress(rec, ie.value)
    [] ie.type = "dnn" -> [rec EXCEPT !.dnn = ie.value]
    [] ie.type = "pdr" -> GroupedIE([rec EXCEPT !.pdr = @ + 1], ie.value)
    [] ie.type = "far" -> GroupedIE([rec EXCEPT !.far = @ + 1], ie.value)
    [] ie.type = "urr" -> [rec EXCEPT !.urr = @ + 1]
    [] ie.type = "qer" -> [rec EXCEPT !.qer = @ + 1]
    [] ie.type = "action" -> [rec EXCEPT !.action = ie.value]

ParsePFCP(m) ==
  LET rec == FoldLeft(ReadPfcpIE, NewPfcp, m.list)
  IN  [error |-> rec.code \notin {0, 1}] @@ rec

PfcpMessages ==
  [list : SeqOf({E("cause", 1), E("cause", 64), E("fseid", 0), E("fseid", 1), E("fseid", 2),
                 E("ueip", "v4"), E("ueip", "v6"), E("dnn", "a"), E("dnn", "b"),
                 E("pdr", <<E("dnn", "b")>>),
                 E("pdr", <<E("pdi", <<E("dnn", "a"), E("ueip", "v6")>>)>>),
                 E("far", <<E("action", "forward"), E("forwarding", <<E("dnn", "a")>>)>>),
                 E("urr", << >>), E("qer", << >>), E("action", "drop")}, MaxList)]

----------------------------------------------------------------------------
(* GTP. *)

NewBearer == [ebi |-> 0, qci |-> 0, cause |-> 0]

\* parseBearerContext: the elements inside a Bearer Context.
ParseBearerContext(ies) ==
  FoldLeft(LAMBDA bc, ie : CASE ie.type = "ebi" -> [bc EXCEPT !.ebi = ie.value]
                             [] ie.type = "qos" -> [bc EXCEPT !.qci = ie.value]
                             [] ie.type = "cause" -> [bc EXCEPT !.cause = ie.value],
           NewBearer, ies)

\* Mutant: an EPS Bearer ID of the message is kept as a bearer whatever came before.
ReadGtpIEAll(ies, ie) ==
  IF ie.type = "ebi" THEN [ies EXCEPT !.bearers = Append(@, [NewBearer EXCEPT !.ebi = ie.value])]
  ELSE IF ie.type = "bearer"
  THEN [ies EXCEPT !.bearers = Append(@, ParseBearerContext(ie.value))]
  ELSE ies

\* The cases of ParseGTPv2IEs that meet one another: a bearer of its own for an EPS Bearer
\* ID that no Bearer Context precedes, and the QoS of the message for the last bearer.
ReadGtpIE(ies, ie) ==
  CASE ie.type = "imsi" -> [ies EXCEPT !.imsi = ie.value]
    [] ie.type = "ebi" /\ ies.bearers = << >> ->
         [ies EXCEPT !.bearers = <<[NewBearer EXCEPT !.ebi = ie.value]>>]
    [] ie.type = "qos" /\ ies.bearers # << >> ->
         [ies EXCEPT !.bearers[Len(ies.bearers)].qci = ie.value]
    [] ie.type = "bearer" -> [ies EXCEPT !.bearers = Append(@, ParseBearerContext(ie.value))]
    [] OTHER -> ies

ParseGTPv2IEs(list) == FoldLeft(ReadGtpIE, [imsi |-> None, bearers |-> << >>], list)

\* Mutant: the causes of the bearers are taken for the message's.
ExtractCauseCodeDeep(m) ==
  LET flat == FlattenSeq([i \in DOMAIN m.list |-> IF m.list[i].type = "bearer" THEN m.list[i].value
                                                  ELSE <<m.list[i]>>])
      causes == Of(flat, {"cause"})
  IN  IF causes = {} THEN 0 ELSE flat[Min(causes)].value

\* extractCauseCode: of version 2 the first Cause of the message, of version 1 a Cause that
\* is the first element.  A frame carried by a T-PDU is read the same way.
ExtractCauseCode(m) ==
  LET causes == Of(m.list, {"cause"})
  IN  IF causes = {} \/ (m.version = 1 /\ 1 \notin causes) THEN 0
      ELSE m.list[Min(causes)].value

ParseGTP(m) ==
  LET cause == ExtractCauseCode(m)
      onU == m.port = 2152
  IN  [code |-> cause, error |-> cause \notin {0, 16}, gtpu |-> m.version = 1 /\ onU,
       ies |-> IF m.version = 2 /\ ~onU THEN ParseGTPv2IEs(m.list)
               ELSE [imsi |-> IF onU THEN None ELSE m.imsi, bearers |-> << >>],
       inner |-> onU /\ m.inner = "ip"]

\* Messages of version 2, of version 1 (their IMSI is read by extractSubscriberIEsV1), and
\* T-PDUs: an IP packet, one cut short, a frame whose bytes look like a Cause.
Causes == {E("cause", 16), E("cause", 64)}
GtpMessages ==
  [version : {2}, port : {2123}, imsi : {None}, inner : {None},
   list : SeqOf(Causes \cup {E("imsi", "a"), E("ebi", 5), E("qos", 9),
                             E("bearer", <<E("ebi", 6), E("cause", 64)>>),
                             E("bearer", <<E("ebi", 7), E("qos", 1)>>)}, MaxList)]
  \cup [version : {1}, port : {2123}, imsi : {None, "a"}, inner : {None},
        list : SeqOf(Causes \cup {E("other", 0)}, 2)]
  \cup [version : {1}, port : {2152}, imsi : {None}, inner : {"ip", "short"}, list : {<< >>}]
  \cup [version : {1}, port : {2152}, imsi : {None}, inner : {"frame"}, list : {<<E("cause", 128)>>}]

----------------------------------------------------------------------------
(* SNMP. *)

\* parseTrapPDU and parseRequestPDU: only the latter reads an error status.
ReadPDU(m) == [pdu |-> m.pdu, code |-> IF m.pdu = "trap" THEN 0 ELSE m.status]

\* parseV3: an encrypted PDU, or one it does not know, is left out and the message kept.
ParseV3(m) ==
  IF m.data # "sequence" \/ m.pdu = "unknown" THEN [pdu |-> None, code |-> 0] ELSE ReadPDU(m)

\* parseSNMP: what is not a version or a PDU of its own is no SNMP message.
AcceptsSNMP(m) == m.version \in 0 .. 3 /\ (m.version = 3 \/ m.pdu # "unknown")
ParseSNMP(m) ==
  LET rec == IF m.version = 3 THEN ParseV3(m) ELSE ReadPDU(m)
  IN  [encrypted |-> m.version = 3 /\ m.data = "octets", error |-> rec.code # 0] @@ rec

SnmpMessages ==
  [version : {0, 1, 3, 4}, pdu : {"request", "response", "trap", "unknown"}, status : {0, 2},
   data : {"sequence"}]
  \cup [version : {3}, pdu : {"response"}, status : {0, 2}, data : {"octets", "other"}]

----------------------------------------------------------------------------
(* HTTP/2. *)

IsErrorStatus(status) == status \in {"404", "503"}
Keep(old, new) == IF old = None THEN new ELSE old
Over(old, new) == IF new = None THEN old ELSE new

\* Mutant: an answer counts when the record has no status yet.
CountErrorFirst(rec, status) ==
  IF status = None THEN rec
  ELSE [rec EXCEPT !.status = status,
                   !.code = IF rec.status = None /\ IsErrorStatus(status) THEN @ + 1 ELSE @]

\* The status of a HEADERS frame's stream: code is ErrorCount.
CountError(rec, status) ==
  IF status = None THEN rec
  ELSE [rec EXCEPT !.status = status, !.code = IF IsErrorStatus(status) THEN @ + 1 ELSE @]

\* The loop of parseHTTP2.  parseHPACKLiterals leaves what a frame does not name; of the
\* record the first method and path stay.  Streams live as long as the packet.
ReadFrame(rec, f) ==
  IF f.type = "data" THEN [rec EXCEPT !.data = @ + 1]
  ELSE IF f.type # "headers" \/ f.stream = 0 THEN rec
  ELSE LET old == rec.streams[f.stream]
           s == [path |-> Over(old.path, f.path), status |-> Over(old.status, f.status)]
       IN  CountError([rec EXCEPT !.streams[f.stream] = s, !.count = @ + 1,
                                  !.path = Keep(@, s.path), !.sbi = @ \/ s.path = "sbi"], s.status)

NewHttp2 == [streams |-> [s \in 1 .. 2 |-> [path |-> None, status |-> None]],
             count |-> 0, data |-> 0, path |-> None, status |-> None, code |-> 0, sbi |-> FALSE]

\* A packet with neither headers nor data is kept when it looks like HTTP/2 otherwise.
ReadFrames(m) == FoldLeft(ReadFrame, NewHttp2, m.list)
AcceptsHTTP2(m) == LET rec == ReadFrames(m) IN rec.count > 0 \/ rec.data > 0 \/ m.preface
ParseHTTP2(m) == [error |-> ReadFrames(m).code > 0] @@ ReadFrames(m)

Http2Messages ==
  [preface : BOOLEAN,
   list : SeqOf([type : {"headers"}, stream : 0 .. 2, path : {None}, status : {None, "200", "404"}]
                \cup [type : {"headers"}, stream : {1}, path : {"sbi", "other"}, status : {None}]
                \cup [type : {"data", "settings"}, stream : {1}], MaxList)]

----------------------------------------------------------------------------
(* NAS-5GS. *)

\* The first byte of a message, which is read as its cause when it has no body.
Epd(nas) == IF nas.type = "establishment_reject" THEN 46 ELSE 126

\* buildMMRecord and buildSMRecord.
BuildRecord(m, nas) ==
  [ue |-> m.ue, type |-> nas.type,
   error |-> nas.type \in {"auth_failure", "auth_reject", "registration_reject",
                           "establishment_reject"},
   code |-> IF nas.type \in {"auth_failure", "registration_reject", "establishment_reject"}
            THEN IF nas.value = << >> THEN Epd(nas) ELSE nas.value[1]
            ELSE 0]

\* scanPayload: tryParseNAS at the start of the DATA chunk, where it may find a message;
\* then wherever the payload has a byte that could begin one.
ScanPayload(m) ==
  LET known == {i \in DOMAIN m.list : m.list[i].type # "unknown"}
  IN  IF m.start \in known THEN m.list[m.start] ELSE m.list[Min(known)]
AcceptsNAS(m) == \E i \in DOMAIN m.list : m.list[i].type # "unknown"
ParseNAS(m) == BuildRecord(m, ScanPayload(m))

NasLists == SeqOf({E("auth_failure", << >>), E("auth_failure", <<20>>), E("auth_reject", << >>),
                   E("registration_reject", <<11>>), E("registration_request", << >>),
                   E("establishment_reject", << >>), E("unknown", << >>)}, 2)
NasMessages == [ue : UEs, start : {0, 2}, list : NasLists]

----------------------------------------------------------------------------
(* NGAP and S1AP: the bytes of an SCTP packet's chunks. *)

\* The procedure both decoders read from the first bytes of what they take for a message.
ReadProcedure(bytes) ==
  [pdu |-> IF bytes[1] \div 32 > 2 THEN bytes[1] % 4 ELSE bytes[1] \div 32,
   procedure |-> IF bytes[2] > 50 THEN bytes[3] ELSE bytes[2]]

\* What begins an SCTP packet: the type, flags and length of its first chunk.
ChunkHead(chunk) == IF chunk.type = "data" THEN <<0, 3, 0>> ELSE <<3, 0, 0>>

\* extractNGAPFromSCTP: the first DATA chunk, whatever is bundled before it.
ExtractNGAP(chunks) ==
  LET data == Of(chunks, {"data"}) IN IF data = {} THEN << >> ELSE <<Min(data)>>

\* Mutant: the scan ends at the first Registration Request.
ExtractNASIdentityOne(ids) == IF ids = << >> THEN None ELSE ids[1]

\* extractNASIdentity: the first Registration Request whose identity parseSUCI can read.
ExtractNASIdentity(ids) ==
  LET readable == {i \in DOMAIN ids : ids[i] # None}
  IN  IF readable = {} THEN None ELSE ids[Min(readable)]

ParseNGAP(m) ==
  LET at == ExtractNGAP(m.list)
      pdu == IF at = << >> THEN [bytes |-> ChunkHead(m.list[1]), ids |-> << >>] ELSE m.list[at[1]].value
  IN  [imsi |-> ExtractNASIdentity(pdu.ids), error |-> FALSE, code |-> 0]
        @@ ReadProcedure(pdu.bytes)

\* parseS1AP reads the packet from its first byte.
ParseS1AP(m) == [imsi |-> None, error |-> FALSE, code |-> 0] @@ ReadProcedure(ChunkHead(m.list[1]))

SctpMessages ==
  [list : {l \in SeqOf({E("sack", << >>)}
                       \cup {E("data", [bytes |-> b, ids |-> ids]) :
                               b \in {<<0, 15, 64>>, <<32, 14, 0>>, <<0, 61, 64>>},
                               ids \in {<< >>, <<None, "a">>, <<"b", "a">>}}, MaxList) : l # << >>}]

----------------------------------------------------------------------------
(* The decoders. *)

Decoders == {"diameter", "pfcp", "gtp", "snmp", "http2", "nas5g", "ngap", "s1ap"}

SignalInit ==
  /\ signal \in Decoders
  /\ onWire = << >> /\ logged = << >>
  /\ authFailures = [ue \in UEs |-> 0] /\ tunnelCount = 0

\* Messages meet in the decoder only where it counts across them.
Room(counted) == Len(onWire) < IF counted THEN MaxMessages ELSE 1

Log(m, rec) == onWire' = Append(onWire, m) /\ logged' = Append(logged, rec)

DiameterPacket(m) ==
  Room(FALSE) /\ Log(m, ParseDiameter(m)) /\ UNCHANGED <<authFailures, tunnelCount>>

PfcpPacket(m) == Room(FALSE) /\ Log(m, ParsePFCP(m)) /\ UNCHANGED <<authFailures, tunnelCount>>

GtpPacket(m) ==
  /\ Room(m.port = 2152)
  /\ Log(m, ParseGTP(m))
  /\ tunnelCount' = tunnelCount + IF ParseGTP(m).inner THEN 1 ELSE 0
  /\ UNCHANGED authFailures

SnmpPacket(m) ==
  Room(FALSE) /\ AcceptsSNMP(m) /\ Log(m, ParseSNMP(m)) /\ UNCHANGED <<authFailures, tunnelCount>>

Http2Packet(m) ==
  Room(FALSE) /\ AcceptsHTTP2(m) /\ Log(m, ParseHTTP2(m)) /\ UNCHANGED <<authFailures, tunnelCount>>

NasPacket(m) ==
  /\ Room(TRUE) /\ AcceptsNAS(m)
  /\ Log(m, ParseNAS(m))
  /\ authFailures' = [authFailures EXCEPT ![m.ue] =
                        @ + IF ScanPayload(m).type = "auth_failure" THEN 1 ELSE 0]
  /\ UNCHANGED tunnelCount

NgapPacket(m) == Room(FALSE) /\ Log(m, ParseNGAP(m)) /\ UNCHANGED <<authFailures, tunnelCount>>

S1apPacket(m) == Room(FALSE) /\ Log(m, ParseS1AP(m)) /\ UNCHANGED <<authFailures, tunnelCount>>

SignalNext ==
  /\ UNCHANGED signal
  /\ \/ signal = "diameter" /\ \E m \in DiameterMessages : DiameterPacket(m)
     \/ signal = "pfcp" /\ \E m \in PfcpMessages : PfcpPacket(m)
     \/ signal = "gtp" /\ \E m \in GtpMessages : GtpPacket(m)
     \/ signal = "snmp" /\ \E m \in SnmpMessages : SnmpPacket(m)
     \/ signal = "http2" /\ \E m \in Http2Messages : Http2Packet(m)
     \/ signal = "nas5g" /\ \E m \in NasMessages : NasPacket(m)
     \/ signal = "ngap" /\ \E m \in SctpMessages : NgapPacket(m)
     \/ signal = "s1ap" /\ \E m \in SctpMessages : S1apPacket(m)

\* Mutant: the flow carries the failures counted when its record was made.
NasFlowThen(i) ==
  [failures |-> Cardinality({j \in 1 .. i : logged[j].ue = logged[i].ue
                                            /\ logged[j].type = "auth_failure"})]

\* Flush: what a flow takes from the decoder's counters.
NasFlow(i) == [failures |-> authFailures[logged[i].ue]]
GtpFlow(i) == [tunnels |-> IF logged[i].gtpu THEN tunnelCount ELSE 0]

\* HandlePacketLive: whether the packet is shown with an error.
LiveError(i) ==
  CASE signal = "diameter" -> DiameterErrors(onWire[i], logged[i])
    [] signal = "nas5g" -> logged[i].error /\ logged[i].code # 0
    [] OTHER -> logged[i].error

----------------------------------------------------------------------------
(* Properties. *)

\* The IMSI of a Diameter flow is the last one a Subscription-Id gave; the User-Name stands
\* in for it on S6a alone and when there is none, whichever of the two came first.
\* parseDiameter must not decide before the last AVP.
DiameterSubscriber ==
  signal = "diameter" => \A i \in DOMAIN logged :
    LET list == onWire[i].list
        ids == {k \in Of(list, {"imsi"}) : list[k].value # None}
        users == Of(list, {"user"})
    IN  logged[i].imsi = CASE ids # {} -> list[Max(ids)].value
                           [] ids = {} /\ users # {} /\ onWire[i].s6a -> list[Max(users)].value
                           [] OTHER -> None

\* A Network Instance of a PFCP message itself wins over those of its rules, before or
\* after; among the rules the first one wins.  parsePFCPIEs and parseGroupedIE write the
\* same field of the record.
TopLevelWins ==
  signal = "pfcp" => \A i \in DOMAIN logged :
    LET list == onWire[i].list
        own == Of(list, {"dnn"})
        Nested(ie) == CASE ie.type = "pdr" /\ ie.value[1].type = "dnn" -> ie.value[1].value
                        [] ie.type = "pdr" -> ie.value[1].value[1].value
                        [] OTHER -> ie.value[2].value[1].value
        rules == Of(list, {"pdr", "far"})
    IN  /\ own # {} => logged[i].dnn = list[Max(own)].value
        /\ own = {} /\ rules # {} => logged[i].dnn = Nested(list[Min(rules)])
        /\ logged[i].pdr + logged[i].far = Cardinality(rules)

\* Every Bearer Context of a GTPv2 message is a bearer of its flow, in order and with its
\* own EPS Bearer ID, and the QoS that follows it is its QoS; an EPS Bearer ID of the
\* message adds a bearer only in front.  ParseGTPv2IEs builds all of them in one list.
BearersKept ==
  signal = "gtp" => \A i \in {k \in DOMAIN logged : onWire[k].version = 2} :
    LET list == onWire[i].list
        ctxs == Of(list, {"bearer"})
        bearers == logged[i].ies.bearers
        extra == Len(bearers) - Cardinality(ctxs)
        At(c) == extra + Cardinality({d \in ctxs : d <= c})
        qos(c) == {q \in Of(list, {"qos"}) : q > c /\ \A d \in ctxs : d <= c \/ d > q}
    IN  /\ extra \in {0, 1}
        /\ extra = 1 <=> \E e \in Of(list, {"ebi"}) : \A c \in ctxs : e < c
        /\ \A c \in ctxs :
             /\ bearers[At(c)].ebi = list[c].value[1].value
             /\ qos(c) # {} => bearers[At(c)].qci = list[Max(qos(c))].value

\* A GTP-C message is reported as failed by its own Cause alone: the Cause of a bearer in it
\* says nothing of the message.  extractCauseCode walks the same bytes as ParseGTPv2IEs.
MessageCause ==
  signal = "gtp" => \A i \in {k \in DOMAIN logged : onWire[k].version = 2} :
    LET causes == Of(onWire[i].list, {"cause"})
    IN  logged[i].error <=> causes # {} /\ onWire[i].list[Min(causes)].value # 16

\* The errors of an HTTP/2 record cover every stream that was answered with one, and a
\* packet without an error answer has none, though the streams' statuses outlive the frame
\* they came in.
Http2ErrorSeen ==
  signal = "http2" => \A i \in DOMAIN logged :
    LET failed == {onWire[i].list[k].stream :
                     k \in {j \in Of(onWire[i].list, {"headers"}) :
                              /\ onWire[i].list[j].stream > 0
                              /\ IsErrorStatus(onWire[i].list[j].status)}}
    IN  logged[i].code >= Cardinality(failed) /\ (failed = {} => logged[i].code = 0)

\* Every NAS flow of a UE tells all the authentication failures of that UE, the later ones
\* included, and every GTP-U flow all the packets that were tunnelled: Flush reads the
\* decoder's counters, not the record's.
TotalsOfAll ==
  /\ signal = "nas5g" => \A i \in DOMAIN logged :
       NasFlow(i).failures = Cardinality({j \in DOMAIN logged : /\ logged[j].ue = logged[i].ue
                                                               /\ logged[j].type = "auth_failure"})
  /\ signal = "gtp" => \A i \in DOMAIN logged :
       logged[i].gtpu => GtpFlow(i).tunnels = Cardinality({j \in DOMAIN logged : logged[j].inner})

\* What NGAP reports of a packet is its first DATA chunk's: the procedure (one of those the
\* decoder has a name for) and the first identity in it that can be read, whatever chunks
\* are bundled and whatever concealed identities come first.
NgapOfData ==
  signal = "ngap" => \A i \in DOMAIN logged :
    LET data == Of(onWire[i].list, {"data"})
        pdu == onWire[i].list[Min(data)].value
    IN  data # {} =>
          /\ pdu.bytes[2] <= 50 => logged[i].procedure = pdu.bytes[2]
          /\ \A k \in DOMAIN pdu.ids :
               pdu.ids[k] # None /\ (\A j \in 1 .. k - 1 : pdu.ids[j] = None)
                 => logged[i].imsi = pdu.ids[k]
          /\ logged[i].imsi # None => logged[i].imsi \in ToSet(pdu.ids)

\* A message whose flow is an error and names a code was shown with an error in the live
\* view: HandlePacketLive and Flush judge the same record by conditions of their own.
LiveAgrees ==
  \A i \in DOMAIN logged : logged[i].error /\ logged[i].code # 0 => LiveError(i)

\* What a flow says of its message is what the message says, in whatever order and at
\* whatever depth its elements come: the subscriber, the network, the bearers, the cause,
\* the errors, the procedure, and the totals over all messages.
RecordsMessage ==
  /\ DiameterSubscriber /\ TopLevelWins /\ BearersKept /\ MessageCause
  /\ Http2ErrorSeen /\ NgapOfData /\ TotalsOfAll
=============================================================================

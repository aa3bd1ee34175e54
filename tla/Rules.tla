------------------------------- MODULE Rules -------------------------------
(* The built-in detection rules (internal/detection/rules.go,              *)
(* rules_security.go and rules5gc.go) as operators on a batch of flows.    *)
(*                                                                         *)
(* A batch is a sequence of groups: n flows that agree on every field the  *)
(* rules read.  When "each" holds, every flow of the group has its own     *)
(* destination, DNS name, DNS answer and TEID; otherwise they share them.  *)
(* Groups keep the counts of the code exact without listing each flow.     *)
(* A flow is [type, id, src, dst, sport, dport, at, lasts, m]: m is the    *)
(* Metrics map, "at" its start second and "lasts" its duration in seconds. *)
(* Texts that only reach a title or a description are left out, so an      *)
(* alert is the rule, what it is about and the severity.                   *)
EXTENDS Integers, Sequences, FiniteSets, FiniteSetsExt

Quiet == "none"

\* A metric with the zero value the code falls back to.
Metric(f, k, zero) == IF k \in DOMAIN f.m THEN f.m[k] ELSE zero

\* The severity of a quantity against its error and critical thresholds.
Grade(x, e, c) == IF x >= c THEN "critical" ELSE IF x >= e THEN "error" ELSE "warning"
Never == 1000000000

FlowsIn(b) == {b[i].f : i \in DOMAIN b}
Where(b, P(_)) == {i \in DOMAIN b : P(b[i].f)}

\* How many flows satisfy P, and how many different values of v they have.
CountOf(b, P(_)) == MapThenSumSet(LAMBDA i : b[i].n, Where(b, P))
DistinctOf(b, P(_), v(_)) ==
    LET own == {i \in Where(b, P) : b[i].each}
    IN  Cardinality({v(b[i].f) : i \in Where(b, P) \ own})
        + MapThenSumSet(LAMBDA i : b[i].n, own)

----------------------------------------------------------------------------
(* computeAggregates *)

Packets(f) == Metric(f, "packet_count", 0)
TotalFlows(b) == CountOf(b, LAMBDA f : TRUE)
PacketsOf(b, S) == MapThenSumSet(LAMBDA i : b[i].n * Packets(b[i].f), S)
TotalPackets(b) == PacketsOf(b, DOMAIN b)
Sources(b) == {f.src : f \in FlowsIn(b)}
FlowsPerSrcIP(b, ip) == CountOf(b, LAMBDA f : f.src = ip)
FlowsPerDstIP(b, ip) ==
    MapThenSumSet(LAMBDA i : b[i].n, {i \in DOMAIN b : b[i].f.dst = ip /\ ~b[i].each})
DestinationsLast(b, ip) ==
    DistinctOf(<<b[Len(b)]>>, LAMBDA f : f.src = ip, LAMBDA f : f.dst)
DestinationsPerSrc(b, ip) == DistinctOf(b, LAMBDA f : f.src = ip, LAMBDA f : f.dst)
PacketsPerSrcIP(b, ip) == PacketsOf(b, {i \in DOMAIN b : b[i].f.src = ip})
SIPMethodCounts(b, method) ==
    CountOf(b, LAMBDA f : f.type = "SIP" /\ Metric(f, "method", "") = method)
SIPMethodPerSrcIP(b, method, ip) ==
    CountOf(b, LAMBDA f : f.type = "SIP" /\ f.src = ip /\ Metric(f, "method", "") = method)
\* The response metric is the words of the status line; the code compares
\* the whole text with "401".
SIP401PerSrcIP(b, ip) ==
    CountOf(b, LAMBDA f : f.type = "SIP" /\ f.src = ip /\ Metric(f, "response", << >>) = <<401>>)
SYNOnlyFlowsPerSrcIP(b, ip) ==
    CountOf(b, LAMBDA f : f.type = "TCP" /\ f.src = ip
                          /\ "SYN" \in Metric(f, "tcp_flags", {})
                          /\ "ACK" \notin Metric(f, "tcp_flags", {}))
ICMPFlowsPerSrcIP(b, ip) == CountOf(b, LAMBDA f : f.type \in {"ICMP", "ICMPv6"} /\ f.src = ip)
DnsName(f) == Metric(f, "query_name", [base |-> "", label |-> ""])
DnsFlow(f) == f.type = "DNS"
\* Flows of a group with names of its own differ in the first label.
DNSQueryCount(b, i) ==
    IF b[i].each THEN 1
    ELSE MapThenSumSet(LAMBDA j : b[j].n,
                       {j \in Where(b, DnsFlow) : DnsName(b[j].f) = DnsName(b[i].f) /\ ~b[j].each})
DNSAnswerIPsPerDomain(b, base) ==
    DistinctOf(b, LAMBDA f : DnsFlow(f) /\ DnsName(f).base = base /\ "answers" \in DOMAIN f.m,
               LAMBDA f : f.m.answers)
IsErrorFlow(f) == Metric(f, "is_error", FALSE)
ErrorKey(f) == <<f.type, Metric(f, "error_type", "")>>
ErrorCount(b, key) == CountOf(b, LAMBDA f : IsErrorFlow(f) /\ ErrorKey(f) = key)

----------------------------------------------------------------------------
(* Rules about one flow: the severity, or Quiet. *)

Leading(text) == IF text = << >> THEN 0 ELSE Head(text)

sipErrorRule(f) ==
    LET class == Leading(Metric(f, "response", << >>)) \div 100
    IN  CASE f.type = "SIP" /\ class = 4 -> "warning"
          [] f.type = "SIP" /\ class \in {5, 6} -> "error"
          [] OTHER -> Quiet

rtpLossRule(f) ==
    LET gap == Metric(f, "max_seq_gap", 0)
    IN  IF f.type = "RTP" /\ gap > 0 /\ gap * 100 > 5 * Packets(f) /\ Packets(f) > 0
        THEN (IF gap * 100 > 15 * Packets(f) THEN "error" ELSE "warning") ELSE Quiet

rtpJitterRule(f) ==
    LET jitter == Metric(f, "jitter_ms", 0)
    IN  IF f.type = "RTP" /\ jitter > 30 THEN Grade(jitter, 101, Never) ELSE Quiet

dnsErrorRule(f) ==
    IF f.type = "DNS" /\ IsErrorFlow(f)
    THEN (IF Metric(f, "error_type", "") = "SERVFAIL" THEN "error" ELSE "warning") ELSE Quiet

diameterErrorRule(f) == IF f.type = "Diameter" /\ IsErrorFlow(f) THEN "error" ELSE Quiet

gtpFailureRule(f) == IF f.type = "GTP" /\ IsErrorFlow(f) THEN "error" ELSE Quiet

pfcpFailureRule(f) == IF f.type = "PFCP" /\ IsErrorFlow(f) THEN "error" ELSE Quiet

MaxExpected == [RTP |-> 400, DNS |-> 512, SIP |-> 4000]
largePacketRule(f) ==
    IF f.type \in DOMAIN MaxExpected /\ Metric(f, "max_packet_size", 0) > MaxExpected[f.type]
    THEN "warning" ELSE Quiet

\* In seconds.
MaxDuration == [DNS |-> 30, Diameter |-> 300, PFCP |-> 300, GTP |-> 600, RTP |-> 7200, SIP |-> 7200]
longDurationFlowRule(f) ==
    IF f.type \in DOMAIN MaxDuration /\ f.lasts > MaxDuration[f.type] THEN "warning" ELSE Quiet

jitterVarianceRule(f) ==
    LET avg == Metric(f, "jitter_avg_ms", 0)
        spread == Metric(f, "jitter_max_ms", 0) - Metric(f, "jitter_min_ms", 0)
    IN  IF f.type = "RTP" /\ avg > 0 /\ spread > avg * 3 /\ spread > 50
        THEN Grade(spread, 201, Never) ELSE Quiet

dnsSlowResponseRule(f) ==
    LET latency == Metric(f, "latency_ms", 0)
    IN  IF f.type = "DNS" /\ latency > 500 THEN Grade(latency, 2001, Never) ELSE Quiet

sipSlowSetupRule(f) ==
    LET setup == Metric(f, "setup_latency_ms", 0)
    IN  IF f.type = "SIP" /\ setup > 3000 THEN Grade(setup, 10001, Never) ELSE Quiet

\* The E-model estimate with R in tenths and the score in units of 1e-7.
RFactor(f) ==
    LET r == 942 - (2500 * Metric(f, "max_seq_gap", 0)) \div Packets(f) - Metric(f, "jitter_ms", 0)
    IN  IF r < 0 THEN 0 ELSE r
EstimatedMOS(r) == 10000000 + 35000 * r + (7 * r * (r - 600) * (1000 - r)) \div 100
qosDegradationRule(f) ==
    IF f.type = "RTP" /\ Packets(f) # 0 /\ EstimatedMOS(RFactor(f)) < 36000000
    THEN (IF EstimatedMOS(RFactor(f)) < 26000000 THEN "error" ELSE "warning") ELSE Quiet

DropReasons == {<<480>>, <<486>>, <<487>>, <<503>>, <<504>>}
voipCallDropRule(f) ==
    IF f.type = "SIP" /\ \/ Metric(f, "end_type", "") \in {"BYE", "CANCEL"} /\ f.lasts \in 1..29
                         \/ Metric(f, "response", << >>) \in DropReasons
    THEN "warning" ELSE Quiet

tlsDowngradeRule(f) ==
    CASE f.type = "TLS" /\ Metric(f, "tls_version", "") = "SSLv3" -> "critical"
      [] f.type = "TLS" /\ Metric(f, "tls_version", "") = "TLSv1.0" -> "error"
      [] f.type = "TLS" /\ Metric(f, "tls_version", "") = "TLSv1.1" -> "warning"
      [] OTHER -> Quiet

\* A cipher suite by the fragments of its name the rule looks for.
tlsWeakCipherRule(f) ==
    LET cipher == Metric(f, "cipher_suite", {})
    IN  CASE f.type = "TLS" /\ "broken" \in cipher -> "critical"
          [] f.type = "TLS" /\ cipher # {} /\ cipher \cap {"broken", "DHE"} = {} -> "warning"
          [] OTHER -> Quiet

tlsJA3AlertRule(f) ==
    IF f.type = "TLS" /\ Metric(f, "ja3_hash", "") = "malicious" THEN "critical" ELSE Quiet

tlsSelfSignedCertRule(f) ==
    IF f.type = "TLS" /\ Metric(f, "cert_self_signed", FALSE) /\ Metric(f, "sni", "") # "internal"
    THEN (IF f.dport \in {443, 8443} THEN "error" ELSE "warning") ELSE Quiet

suspiciousRSTRule(f) ==
    IF f.type = "TCP" /\ Metric(f, "rst_authenticity", "") = "suspicious" THEN "warning" ELSE Quiet

PortToProtocol == [p \in {5060, 5061, 53, 3868, 2123, 2152, 8805} |->
    CASE p \in {5060, 5061} -> "SIP" [] p = 53 -> "DNS" [] p = 3868 -> "Diameter"
      [] p \in {2123, 2152} -> "GTP" [] p = 8805 -> "PFCP"]
protocolMismatchRule(f) ==
    IF \E p \in {f.sport, f.dport} \cap DOMAIN PortToProtocol : PortToProtocol[p] # f.type
    THEN "error" ELSE Quiet

PerFlow(f) ==
    [sipError |-> sipErrorRule(f), rtpLoss |-> rtpLossRule(f), rtpJitter |-> rtpJitterRule(f),
     dnsError |-> dnsErrorRule(f), diameterError |-> diameterErrorRule(f),
     gtpFailure |-> gtpFailureRule(f), pfcpFailure |-> pfcpFailureRule(f),
     largePacket |-> largePacketRule(f), protocolMismatch |-> protocolMismatchRule(f),
     longDuration |-> longDurationFlowRule(f), jitterVariance |-> jitterVarianceRule(f),
     dnsSlow |-> dnsSlowResponseRule(f), sipSlow |-> sipSlowSetupRule(f),
     qos |-> qosDegradationRule(f), callDrop |-> voipCallDropRule(f),
     tlsDowngrade |-> tlsDowngradeRule(f), weakCipher |-> tlsWeakCipherRule(f),
     ja3 |-> tlsJA3AlertRule(f), selfSigned |-> tlsSelfSignedCertRule(f),
     suspiciousRST |-> suspiciousRSTRule(f)]

----------------------------------------------------------------------------
(* Rules about the batch: a set of alerts. *)

Alert(rule, on, sev) == [rule |-> rule, on |-> on, sev |-> sev]

\* One alert for every x of S that satisfies P.
AlertsOf(rule, S, P(_), Sev(_)) == {Alert(rule, x, Sev(x)) : x \in {y \in S : P(y)}}

\* A stream of more than 50 packets is one-way unless a stream of more than
\* 10 runs the other way, wherever it stands in the batch.
HasReverseEarlier(b, i) ==
    \E j \in 1..(i - 1) : /\ b[j].f.type = "RTP" /\ ~b[i].each /\ ~b[j].each
                         /\ b[j].f.src = b[i].f.dst /\ b[j].f.dst = b[i].f.src
                         /\ Packets(b[j].f) > 10
HasReverse(b, i) ==
    \E j \in DOMAIN b : /\ b[j].f.type = "RTP" /\ ~b[i].each /\ ~b[j].each
                        /\ b[j].f.src = b[i].f.dst /\ b[j].f.dst = b[i].f.src
                        /\ Packets(b[j].f) > 10
oneWayAudioRule(b) ==
    {Alert("oneWay", <<b[i].f.src, b[i].f.dst>>, "warning") :
        i \in {k \in DOMAIN b : /\ b[k].f.type = "RTP" /\ Packets(b[k].f) > 50 /\ ~HasReverse(b, k)}}

packetVolumeSpike(b) ==
    AlertsOf("volumeSpike", FlowsIn(b),
             LAMBDA f : /\ Packets(f) >= 500
                        /\ Packets(f) * TotalFlows(b) > 10 * TotalPackets(b),
             LAMBDA f : "warning")

packetFloodRule(b) ==
    AlertsOf("packetFlood", Sources(b),
             LAMBDA ip : /\ PacketsPerSrcIP(b, ip) >= 1000
                         /\ PacketsPerSrcIP(b, ip) * 10 > TotalPackets(b) * 8,
             LAMBDA ip : "error")

synFloodRule(b) ==
    AlertsOf("synFlood", Sources(b), LAMBDA ip : SYNOnlyFlowsPerSrcIP(b, ip) >= 20,
             LAMBDA ip : Grade(SYNOnlyFlowsPerSrcIP(b, ip), 50, 100))

icmpFloodRule(b) ==
    AlertsOf("icmpFlood", Sources(b), LAMBDA ip : ICMPFlowsPerSrcIP(b, ip) >= 50,
             LAMBDA ip : Grade(ICMPFlowsPerSrcIP(b, ip), 200, 500))

StandardPorts == [SIP |-> {5060, 5061}, DNS |-> {53}, Diameter |-> {3868},
                  GTP |-> {2123, 2152}, PFCP |-> {8805}]
UnusualKey(f) == <<f.type, f.src, f.dst, f.sport, f.dport>>
Unusual(f) == f.type \in DOMAIN StandardPorts /\ {f.sport, f.dport} \cap StandardPorts[f.type] = {}
\* One alert per 5-tuple, with the number of flows folded into it.  Flows
\* with destinations of their own have 5-tuples of their own: one element
\* of the set stands for their alerts, one each.
unusualPortRule(b) ==
    LET Key(i) == <<UnusualKey(b[i].f), b[i].each>>
        Occurrences(k) == MapThenSumSet(LAMBDA i : b[i].n, {i \in Where(b, Unusual) : Key(i) = k})
    IN  {Alert("unusualPort", <<k, Occurrences(k)>>, "warning") : k \in {Key(i) : i \in Where(b, Unusual)}}

sourceFanOutRule(b) ==
    AlertsOf("fanOut", Sources(b), LAMBDA ip : DestinationsPerSrc(b, ip) >= 20,
             LAMBDA ip : Grade(DestinationsPerSrc(b, ip), 50, Never))

trafficConcentrationRule(b) ==
    IF TotalFlows(b) < 10 THEN {}
    ELSE AlertsOf("srcConcentration", Sources(b),
                  LAMBDA ip : FlowsPerSrcIP(b, ip) * 2 > TotalFlows(b), LAMBDA ip : "warning")
         \cup AlertsOf("dstConcentration", {f.dst : f \in FlowsIn(b)},
                       LAMBDA ip : FlowsPerDstIP(b, ip) * 2 > TotalFlows(b), LAMBDA ip : "warning")

repeatedFailureRule(b) ==
    AlertsOf("repeatedFailure", {ErrorKey(f) : f \in FlowsIn(b)},
             LAMBDA k : ErrorCount(b, k) >= 5, LAMBDA k : Grade(ErrorCount(b, k), 20, Never))

sipRegisterFloodRule(b) ==
    AlertsOf("registerFlood", {"REGISTER"}, LAMBDA m : SIPMethodCounts(b, m) >= 20,
             LAMBDA m : Grade(SIPMethodCounts(b, m), 50, Never))

dnsQueryFloodRule(b) ==
    {Alert("dnsQueryFlood", DnsName(b[i].f), Grade(DNSQueryCount(b, i), 50, Never)) :
        i \in {k \in Where(b, DnsFlow) : DNSQueryCount(b, k) >= 20}}

\* Flows per second of their start against five times the mean.
trafficBurstRule(b) ==
    LET Bucket(sec) == CountOf(b, LAMBDA f : f.at = sec)
        seconds == {f.at : f \in FlowsIn(b)} \ {0}
        total == CountOf(b, LAMBDA f : f.at # 0)
    IN  IF TotalFlows(b) < 10 THEN {}
        ELSE AlertsOf("burst", seconds, LAMBDA s : Bucket(s) * Cardinality(seconds) > 5 * total,
                      LAMBDA s : "warning")

sipBruteForceRule(b) ==
    AlertsOf("bruteForce", Sources(b), LAMBDA ip : SIP401PerSrcIP(b, ip) >= 5,
             LAMBDA ip : Grade(SIP401PerSrcIP(b, ip), 10, 20))

\* The score of a base domain: long names, TXT and NULL queries, first
\* labels that seldom repeat, and NXDOMAIN replies.
TunnelScore(b, base) ==
    LET Of(f) == DnsFlow(f) /\ DnsName(f).base = base
        total == CountOf(b, Of)
        labels == DistinctOf(b, Of, LAMBDA f : DnsName(f).label)
        Points(p, n) == IF p THEN n ELSE 0
    IN  Points(CountOf(b, LAMBDA f : Of(f) /\ DnsName(f).long) > 3, 3)
        + Points(CountOf(b, LAMBDA f : Of(f) /\ Metric(f, "query_type", "") \in {"TXT", "NULL"}) > 2, 2)
        + Points(labels * 10 > 8 * total /\ total >= 10, 3)
        + Points(CountOf(b, LAMBDA f : Of(f) /\ Metric(f, "reply_code", "") = "NXDOMAIN") > 5, 2)
Bases(b) == {DnsName(f).base : f \in {g \in FlowsIn(b) : DnsFlow(g)}}
dnsTunnelingRule(b) ==
    AlertsOf("tunneling", Bases(b),
             LAMBDA d : /\ CountOf(b, LAMBDA f : DnsFlow(f) /\ DnsName(f).base = d) >= 5
                        /\ TunnelScore(b, d) >= 3,
             LAMBDA d : Grade(TunnelScore(b, d), 4, 6))

sipOptionsScanRule(b) ==
    AlertsOf("optionsScan", Sources(b),
             LAMBDA ip : SIPMethodPerSrcIP(b, "OPTIONS", ip) >= 10 /\ DestinationsPerSrc(b, ip) >= 5,
             LAMBDA ip : IF SIPMethodPerSrcIP(b, "OPTIONS", ip) >= 50 \/ DestinationsPerSrc(b, ip) >= 20
                         THEN "error" ELSE "warning")

sipInviteFloodRule(b) ==
    AlertsOf("inviteFlood", Sources(b), LAMBDA ip : SIPMethodPerSrcIP(b, "INVITE", ip) >= 15,
             LAMBDA ip : IF DestinationsPerSrc(b, ip) >= 10 THEN "critical"
                         ELSE IF SIPMethodPerSrcIP(b, "INVITE", ip) >= 50 THEN "error" ELSE "warning")

\* The parties of a call are those of its last INVITE flow that has no
\* response, or one that reads "200"; a BYE of anyone else is an alert.
sipCallHijackRule(b) ==
    LET Setup(f) == /\ f.type = "SIP" /\ Metric(f, "method", "") = "INVITE"
                    /\ Metric(f, "response", << >>) \in {<<200>>, << >>}
        Call(id) == {i \in Where(b, Setup) : b[i].f.id = id}
        Bye(f) == f.type = "SIP" /\ Metric(f, "method", "") \in {"BYE", "CANCEL"}
    IN  AlertsOf("hijack", {f \in FlowsIn(b) : Bye(f) /\ Call(f.id) # {}},
                 LAMBDA f : f.src \notin {b[Max(Call(f.id))].f.src, b[Max(Call(f.id))].f.dst},
                 LAMBDA f : "critical")

dnsDGADetectionRule(b) ==
    LET Points(p, n) == IF p THEN n ELSE 0
        Score(i) == LET name == DnsName(b[i].f)
                    IN  Points(name.random, 3) + Points(name.tld, 2) + Points(name.wide, 1)
                        + Points(DNSQueryCount(b, i) <= 2, 1)
    IN  {Alert("dga", DnsName(b[i].f), Grade(Score(i), 4, 5)) :
            i \in {k \in Where(b, DnsFlow) : Score(k) >= 3}}

dnsFastFluxRule(b) ==
    AlertsOf("fastFlux", Bases(b), LAMBDA d : DNSAnswerIPsPerDomain(b, d) >= 5,
             LAMBDA d : Grade(DNSAnswerIPsPerDomain(b, d), 8, 15))

pfcpDropActionAnomalyRule(b) ==
    AlertsOf("pfcpDrop", {"PFCP"},
             LAMBDA t : 2 * CountOf(b, LAMBDA f : f.type = t /\ "DROP" \in Metric(f, "apply_action", {}))
                        > CountOf(b, LAMBDA f : f.type = t),
             LAMBDA t : "warning")

gtpTunnelFloodRule(b) ==
    AlertsOf("tunnelFlood", {"GTP"},
             LAMBDA t : DistinctOf(b, LAMBDA f : f.type \in {"GTP", "GTPU"}, LAMBDA f : f.m.teid) > 10000,
             LAMBDA t : "warning")

PerBatch(b) ==
    UNION {oneWayAudioRule(b), packetVolumeSpike(b), packetFloodRule(b), synFloodRule(b),
           icmpFloodRule(b), unusualPortRule(b), sourceFanOutRule(b), trafficConcentrationRule(b),
           repeatedFailureRule(b), sipRegisterFloodRule(b), dnsQueryFloodRule(b),
           trafficBurstRule(b), sipBruteForceRule(b), dnsTunnelingRule(b), sipOptionsScanRule(b),
           sipInviteFloodRule(b), sipCallHijackRule(b), dnsDGADetectionRule(b), dnsFastFluxRule(b),
           pfcpDropActionAnomalyRule(b), gtpTunnelFloodRule(b)}
============================================================================

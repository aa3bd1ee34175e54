----------------------------- MODULE Detection -----------------------------
(* The detection engine over the flows that the decoders flush into a job: *)
(* RunOnFlows with the built-in rules, the rules a user stores as          *)
(* conditions on the aggregates, and the error count and success rates     *)
(* that the report and the KPIs derive from the same flows once they have  *)
(* been stored.  The flows are of the shapes the decoders produce, metric  *)
(* by metric; NAS5G and HTTP/2 flows are left out because no decoder list  *)
(* that a job or a capture uses contains their decoders.                   *)
EXTENDS Rules, SequencesExt

CONSTANTS Sizes,       \* how many flows a group may have
          MaxGroups,   \* bound on the groups of a batch
          Thresholds   \* values that a user's condition compares with

ASSUME DetectionAssumption == Sizes \subseteq Nat \ {0} /\ MaxGroups \in Nat

VARIABLES family,      \* which decoders' flows the job has; never changes
          batch,       \* the flows of the job, as groups
          raised       \* what RunOnFlows returns for them

detectionVars == <<family, batch, raised>>

----------------------------------------------------------------------------
(* Flows as the decoders flush them *)

Flow(type, id, src, dst, sport, dport, at, lasts, m) ==
    [type |-> type, id |-> id, src |-> src, dst |-> dst, sport |-> sport, dport |-> dport,
     at |-> at, lasts |-> lasts, m |-> m]

\* A response is the first line of the last response seen, in words; Version
\* stands for "SIP/2.0".  The SIP decoder sets no ports.
Version == 2
StatusLine(code) == IF code = 0 THEN << >> ELSE <<Version, code>>
SipFlow(src, method, code, setup) ==
    Flow("SIP", "call", src, "b", 0, 0, 1, 20,
         [method |-> method, response |-> StatusLine(code), setup_latency_ms |-> setup])

RtpFlow(src, dst, packets, gap, jitter) ==
    Flow("RTP", "", src, dst, 4000, 4000, 1, 20,
         [packet_count |-> packets, max_seq_gap |-> gap, jitter_ms |-> jitter, max_packet_size |-> 214,
          jitter_min_ms |-> 0, jitter_max_ms |-> 2 * jitter, jitter_avg_ms |-> jitter \div 2])

Name(base, long, random, tld, wide) ==
    [base |-> base, label |-> "w", long |-> long, random |-> random, tld |-> tld, wide |-> wide]
Names == {Name("plain", FALSE, FALSE, FALSE, FALSE), Name("plain", TRUE, FALSE, FALSE, TRUE),
          Name("odd", FALSE, TRUE, TRUE, FALSE)}
\* A query without a reply is flushed as a timeout and has no reply code.
DnsFlows == {Flow("DNS", "dns", "a", "b", 4000, 53, at, 0,
                  [query_name |-> name, query_type |-> "TXT", answers |-> "x", latency_ms |-> 600,
                   reply_code |-> code, error_type |-> IF code = "NOERROR" THEN "" ELSE code,
                   is_error |-> code # "NOERROR"]) :
                name \in Names, code \in {"NOERROR", "NXDOMAIN", "SERVFAIL"}, at \in {1, 2}}
            \cup {Flow("DNS", "dns", "a", "b", 4000, 53, 1, 0,
                       [query_name |-> name, query_type |-> "A", reply_code |-> "",
                        error_type |-> "TIMEOUT", is_error |-> TRUE]) : name \in Names}

TlsFlows == {Flow("TLS", "tls", "a", "b", 4000, port, 1, 5,
                  [tls_version |-> session[1], cipher_suite |-> session[2], ja3_hash |-> odd[1],
                   cert_self_signed |-> odd[2], sni |-> odd[3]]) :
                port \in {443, 5061},
                session \in {<<"SSLv3", {"broken"}>>, <<"TLSv1.1", {"RSA"}>>, <<"TLSv1.2", {"DHE"}>>,
                             <<"TLSv1.2", {"RSA"}>>},
                odd \in {<<"", TRUE, "internal">>, <<"malicious", TRUE, "x">>}}

\* A number has its Go type: JSON turns every number into a float64.
Go(type, v) == [go |-> type, v |-> v]
\* Diameter flows carry no addresses; a request has result code 0.
CoreFlows == {Flow("Diameter", "session", "", "", 0, 0, 1, 0,
                   [result_code |-> Go("uint32", code), is_error |-> code = 5001]) : code \in {0, 2001, 5001}}
             \cup {Flow("GTP", "gtp", "a", "b", sport, dport, 1, 0,
                        [teid |-> 7, cause_code |-> cause, is_error |-> cause = 64]) :
                      sport \in {2123, 3000}, dport \in {2123, 3001, 3002}, cause \in {16, 64}}
             \cup {Flow("GTPU", "gtp", "a", "b", 2152, 2152, 1, 0,
                        [teid |-> 8, cause_code |-> 0, is_error |-> FALSE])}
             \cup {Flow("PFCP", "seid", "a", "b", 8805, 8805, 1, 0,
                        [apply_action |-> action, cause_code |-> 1, is_error |-> FALSE]) :
                      action \in {{"DROP"}, {"FORW"}, {}}}

\* The flow tracker counts its packets in "packets", not "packet_count".
TrackerFlows == {Flow("TCP", "flow", src, "b", 4000, port, 1, 1,
                      [packets |-> 2, tcp_flags |-> flags, rst_authenticity |-> rst]) :
                    src \in {"a", "c"}, port \in {80, 53}, flags \in {{"SYN"}, {"SYN", "ACK"}},
                    rst \in {"", "suspicious"}}
                \cup {Flow("ICMP", "flow", src, "b", 0, 0, 1, 1, [packets |-> 2]) : src \in {"a", "c"}}

VoipFlows == {SipFlow(src, mr[1], mr[2], 0) : src \in {"a", "c"},
                 mr \in {<<"INVITE", 0>>, <<"INVITE", 200>>, <<"INVITE", 503>>, <<"REGISTER", 401>>,
                         <<"OPTIONS", 200>>, <<"BYE", 200>>}}
             \cup {SipFlow("a", "INVITE", 200, 12000)}
             \cup {RtpFlow(p[1], p[2], q[1], q[2], q[2]) : p \in {<<"a", "b">>, <<"b", "a">>},
                      q \in {<<20, 0>>, <<60, 4>>, <<900, 120>>}}

Families == [voip |-> VoipFlows, dns |-> DnsFlows, tls |-> TlsFlows,
             core |-> CoreFlows, transport |-> TrackerFlows]

----------------------------------------------------------------------------
(* Rules that users store *)

Fields == {"total_flows", "total_packets", "sip_invite_max", "source_fan_out_max", "flow_count.DNS"}

extractField(field, b) ==
    CASE field = "total_flows" -> TotalFlows(b)
      [] field = "total_packets" -> TotalPackets(b)
      [] field = "sip_invite_max" -> Max({0} \cup {SIPMethodPerSrcIP(b, "INVITE", ip) : ip \in Sources(b)})
      [] field = "source_fan_out_max" -> Max({0} \cup {DestinationsPerSrc(b, ip) : ip \in Sources(b)})
      [] field = "flow_count.DNS" -> CountOf(b, DnsFlow)

evaluateStrict(c, b) ==
    LET actual == extractField(c.field, b)
    IN  CASE c.op = "gt" -> actual > c.value [] c.op = "gte" -> actual > c.value
          [] c.op = "lt" -> actual < c.value [] c.op = "lte" -> actual < c.value
          [] c.op = "eq" -> actual = c.value [] c.op = "neq" -> actual # c.value
evaluate(c, b) ==
    LET actual == extractField(c.field, b)
    IN  CASE c.op = "gt" -> actual > c.value [] c.op = "gte" -> actual >= c.value
          [] c.op = "lt" -> actual < c.value [] c.op = "lte" -> actual <= c.value
          [] c.op = "eq" -> actual = c.value [] c.op = "neq" -> actual # c.value

\* A condition on an unknown field or with an unknown operator is skipped.
Known(c) == c.field \in Fields /\ c.op \in {"gt", "gte", "lt", "lte", "eq", "neq"}
UserRule(match, conditions, b) ==
    LET held == {c \in conditions : Known(c) /\ evaluate(c, b)}
        failed == {c \in conditions : Known(c) /\ ~evaluate(c, b)}
    IN  IF match = "all" THEN failed = {} ELSE held # {} /\ match = "any"

----------------------------------------------------------------------------
(* The engine *)

RunOnFlows(b) ==
    PerBatch(b) \cup UNION {{Alert(rule, f, PerFlow(f)[rule]) :
                                rule \in {r \in DOMAIN PerFlow(f) : PerFlow(f)[r] # Quiet}} : f \in FlowsIn(b)}

----------------------------------------------------------------------------
(* Report and KPIs over the stored flows *)

Stored(f) == [f EXCEPT !.m = [k \in DOMAIN f.m |->
                  IF k = "result_code" THEN Go("float64", f.m[k].v) ELSE f.m[k]]]

parseSIPStatusCode(words) == IF Len(words) < 2 THEN 0 ELSE words[2]
ErrorCodes == {"SERVFAIL", "NXDOMAIN", "REFUSED", "FORMERR"}
hasErrorByCode(f) ==
    \/ parseSIPStatusCode(Metric(f, "response", << >>)) >= 400
    \/ Metric(f, "reply_code", "") \in ErrorCodes
    \/ "result_code" \in DOMAIN f.m /\ f.m.result_code.v \notin 2001..2002
hasError(f) ==
    \/ parseSIPStatusCode(Metric(f, "response", << >>)) >= 400
    \/ Metric(f, "reply_code", "") \in ErrorCodes
    \/ Metric(f, "is_error", FALSE)
    \/ "result_code" \in DOMAIN f.m /\ f.m.result_code.v \notin 2001..2002

\* Whether a flow of the type counts as a failure in its success rate.
computeDNSSuccessRate(f) == Metric(f, "reply_code", "") \notin {"NOERROR", ""}
computeDiameterSuccessRate(f) ==
    "result_code" \in DOMAIN f.m /\ f.m.result_code.go = "uint32" /\ f.m.result_code.v \notin 2001..2002
computeGTPSuccessRateStrict(f) == Metric(f, "cause", "") # "Request Accepted"
computeGTPSuccessRate(f) == Metric(f, "cause", "") \notin {"", "Request Accepted"}
computePFCPSuccessRate(f) == Metric(f, "cause", "") \notin {"", "Request accepted"}
KpiFailure(f) == \/ f.type = "DNS" /\ computeDNSSuccessRate(f)
                 \/ f.type = "Diameter" /\ computeDiameterSuccessRate(f)
                 \/ f.type = "GTP" /\ computeGTPSuccessRate(f)
                 \/ f.type = "PFCP" /\ computePFCPSuccessRate(f)

----------------------------------------------------------------------------

DetectionInit == family \in DOMAIN Families /\ batch = << >> /\ raised = {}

\* A decoder flushes flows into the job, whose analysis is run on them all.
FlushFlows ==
    /\ Len(batch) < MaxGroups
    /\ \E f \in Families[family], n \in Sizes, each \in BOOLEAN :
          batch' = Append(batch, [f |-> f, n |-> n, each |-> each])
    /\ raised' = RunOnFlows(batch')
    /\ UNCHANGED family

DetectionNext == FlushFlows

----------------------------------------------------------------------------
(* Properties *)

Rank == [info |-> 1, warning |-> 2, error |-> 3, critical |-> 4]

\* Rules that compare with the whole of the traffic, with another flow or
\* with how seldom a name is asked for: more traffic may silence them.
Relative == {"oneWay", "volumeSpike", "packetFlood", "srcConcentration", "dstConcentration", "burst",
             "tunneling", "hijack", "dga", "pfcpDrop"}

Subject(a) == IF a.rule = "unusualPort" THEN a.on[1] ELSE a.on

\* More traffic never withdraws an alert of a counting rule or lowers its
\* severity: computeAggregates only adds to its per-source and per-name
\* counts and every rule tests its highest threshold first.
AlertsKept ==
    [][\A a \in raised : a.rule \notin Relative =>
          \E c \in raised' : c.rule = a.rule /\ Subject(c) = Subject(a) /\ Rank[c.sev] >= Rank[a.sev]
      ]_detectionVars

\* The order in which the workers' flows arrive decides nothing: only the
\* rule that keeps the last INVITE of a call depends on it.
OrderFree ==
    LET Settled(alerts) == {a \in alerts : a.rule # "hijack"}
    IN  Len(batch) > 1 => Settled(raised) = Settled(RunOnFlows(Reverse(batch)))

Negated == [gt |-> "lte", gte |-> "lt", eq |-> "neq"]

\* A user's rule that asks for any of its conditions fires exactly when the
\* rule that asks for all of their negations does not: UserRuleFromJSON's
\* loop, its early exits and evaluate's operators agree at every boundary.
RuleDual ==
    \A field \in Fields, op \in DOMAIN Negated, v \in Thresholds :
        LET c1 == [field |-> field, op |-> op, value |-> v]
            c2 == [field |-> "total_flows", op |-> "gte", value |-> v + 1]
            Not(c) == [c EXCEPT !.op = Negated[@]]
        IN  UserRule("any", {c1, c2}, batch) <=> ~UserRule("all", {Not(c1), Not(c2)}, batch)

ErrorRules == {"sipError", "dnsError", "diameterError", "gtpFailure", "pfcpFailure"}

\* Every flow that an error rule alerts about while the job runs is counted
\* as an error by the report, which reads the flow back from the store.
ErrorsReported == \A a \in raised : a.rule \in ErrorRules => hasError(Stored(a.on))

\* The success rates of the KPIs count no flow as failed that the report of
\* the same flows counts as successful.
KpiWithinReport == \A f \in FlowsIn(batch) : KpiFailure(Stored(f)) => hasError(Stored(f))

\* Whoever judges the same flows judges them alike: the rules while the job runs, the
\* report and the KPIs from the store, and users' rules that say the same in two ways.
VerdictsAgree == ErrorsReported /\ KpiWithinReport /\ RuleDual
============================================================================

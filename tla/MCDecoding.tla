----------------------------- MODULE MCDecoding -----------------------------
(* What becomes of packets and bytes between capture and flow.  The parts share no
   state: `part` says which of them runs, and never changes. *)
EXTENDS FlowTracker, Framing, CallMedia, Exchanges, Connections, Elements, Signalling

VARIABLE part

decodingVars == <<flowVars, streamVars, callVars, exchangeVars, connVars, elementVars,
                  signalVars, part>>

\* Of a part that does not run, one initial state is enough.
Init ==
  /\ part \in {"flows", "streams", "calls", "media", "exchanges", "tls", "websocket", "elements",
             "signalling"}
  /\ FlowInit /\ CallInit /\ ExchangeInit /\ ConnInit /\ SignalInit
  /\ IF part = "streams" THEN StreamInit
     ELSE /\ framer = "tls" /\ sends = [s \in Sides |-> << >>] /\ sent = [s \in Sides |-> 0]
          /\ buf = << >> /\ reported = [s \in Sides |-> << >>] /\ owner = "client"
          /\ orderly = TRUE /\ ended = FALSE
  /\ IF part = "elements" THEN ElementInit
     ELSE format = "labels" /\ elements = << >> /\ captured = 0
  /\ part # "flows" => client = CHOOSE h \in Hosts : TRUE
  /\ part # "exchanges" => decoder = "dns"
  /\ part # "tls" => onStream
  /\ part # "websocket" => wsPort
  /\ part # "signalling" => signal = "s1ap"

Next ==
  /\ UNCHANGED part
  /\ \/ part = "flows" /\ FlowNext
        /\ UNCHANGED <<streamVars, callVars, exchangeVars, connVars, elementVars, signalVars>>
     \/ part = "streams" /\ StreamNext
        /\ UNCHANGED <<flowVars, callVars, exchangeVars, connVars, elementVars, signalVars>>
     \/ part = "calls" /\ SipNext
        /\ UNCHANGED <<flowVars, streamVars, exchangeVars, connVars, elementVars, signalVars>>
     \/ part = "media" /\ RtpNext
        /\ UNCHANGED <<flowVars, streamVars, exchangeVars, connVars, elementVars, signalVars>>
     \/ part = "exchanges" /\ ExchangeNext
        /\ UNCHANGED <<flowVars, streamVars, callVars, connVars, elementVars, signalVars>>
     \/ part = "tls" /\ TlsNext
        /\ UNCHANGED <<flowVars, streamVars, callVars, exchangeVars, elementVars, signalVars>>
     \/ part = "websocket" /\ WsNext
        /\ UNCHANGED <<flowVars, streamVars, callVars, exchangeVars, elementVars, signalVars>>
     \/ part = "elements" /\ ElementNext
        /\ UNCHANGED <<flowVars, streamVars, callVars, exchangeVars, connVars, signalVars>>
     \/ part = "signalling" /\ SignalNext
        /\ UNCHANGED <<flowVars, streamVars, callVars, exchangeVars, connVars, elementVars>>

Spec == Init /\ [][Next]_decodingVars
=============================================================================

---------------------------- MODULE Connections ----------------------------
(***************************************************************************)
(* The decoders that follow a connection: tls (which handshake records are *)
(* encrypted, and what Flush says of the connection) and websocket.  One   *)
(* connection, seen from its two directions.                               *)
(***************************************************************************)
EXTENDS Integers, Sequences, FiniteSets

CONSTANTS
  MaxSegments,  \* bound on TLS segments
  MaxFrames     \* bound on WebSocket packets

Ends == {"client", "server"}
Other(e) == IF e = "client" THEN "server" ELSE "client"

VARIABLES
  tlsRecords,  \* records: what parseTLS made of each
  ccsSeen,     \* directions whose ChangeCipherSpec the decoder has seen
  ccsSent,     \* directions that have sent one (history)
  ccsInside,   \* one of them was not the first record of its segment (history)
  fromStream,  \* records about to come from the assembler
  onStream,    \* the worker reassembles: it never changes
  segments,    \* TLS segments so far
  wsConns,     \* connections, by the direction of their key
  wsPort,      \* the connection is on an HTTP port: it never changes
  wsFrames,    \* frames accepted so far (history)
  wsFirst      \* kind of the first packet that was accepted (history)

tlsVars == <<tlsRecords, ccsSeen, ccsSent, ccsInside, fromStream, onStream, segments>>
wsVars == <<wsConns, wsPort, wsFrames, wsFirst>>
connVars == <<tlsRecords, ccsSeen, ccsSent, ccsInside, fromStream, onStream, segments,
              wsConns, wsPort, wsFrames, wsFirst>>

----------------------------------------------------------------------------
(* tls: the records an end may send.  Names stand for what the decoder keeps. *)

Sent(end, kind, version, subject, issuer) ==
  [end |-> end, kind |-> kind, version |-> version, subject |-> subject, issuer |-> issuer]

Plaintext(end) ==
  { Sent(end, "hello", v, "", "") : v \in {"1.2", "1.3"} }
  \cup { Sent(end, "certificate", "", end, issuer) : issuer \in {"ca", ""} }
  \cup { Sent(end, "ccs", "1.2", "", ""), Sent(end, "keys", "", "", "") }
Encrypted(end) == { Sent(end, kind, "1.2", "", "") : kind \in {"finished", "data"} }
Records(end, encrypted) == IF encrypted THEN Encrypted(end) ELSE Plaintext(end)

\* A record, or the end of a handshake: ChangeCipherSpec with the record before or after
\* it.  After its ChangeCipherSpec an end's records are ciphertext.
Payloads(end) ==
  LET ccs == Sent(end, "ccs", "1.2", "", "") IN
  { <<r>> : r \in Records(end, end \in ccsSent) }
  \cup IF end \in ccsSent THEN {}
       ELSE { <<Sent(end, "keys", "", "", ""), ccs>>, <<ccs, Sent(end, "finished", "1.2", "", "")>> }

----------------------------------------------------------------------------
(* tls: parseTLS and Flush. *)

Kept(r, label, cipher) == [end |-> r.end, label |-> label, version |-> r.version,
                           cipher |-> cipher, subject |-> r.subject, issuer |-> r.issuer]

\* Mutant: the state of the connection, not of the direction.
IsEncryptedEither(end) == ccsSeen # {}

\* Mutant: ciphertext is always read as a handshake.
IsEncryptedNever(end) == FALSE

\* ccsSeen is kept for each direction.
IsEncrypted(end) == end \in ccsSeen

\* parseTLS, parseHandshake.  Ciphertext read as a handshake is a ServerHello when its
\* first byte happens to be 2.
ParseTLS(r) ==
  LET handshake == r.kind \in {"hello", "certificate", "keys", "finished"}
      hello == IF r.end = "client" THEN Kept(r, "ClientHello", "")
               ELSE Kept(r, "ServerHello", "negotiated")
      readings == IF handshake /\ IsEncrypted(r.end) THEN { Kept(r, "encrypted", "") }
                  ELSE IF r.kind = "hello" THEN { hello }
                  ELSE IF r.kind = "finished"
                  THEN { Kept(r, "ServerHello", "ciphertext"), Kept(r, "other", "") }
                  ELSE { Kept(r, r.kind, "") }
  IN  /\ \E rec \in readings : tlsRecords' = Append(tlsRecords, rec)
      /\ ccsSeen' = IF r.kind = "ccs" THEN ccsSeen \cup {r.end} ELSE ccsSeen

\* A segment goes to the decoder, which reads its first record ...
TlsSegment(end) ==
  /\ fromStream = << >> /\ segments < MaxSegments /\ segments' = segments + 1
  /\ \E p \in Payloads(end) :
       /\ ParseTLS(p[1])
       /\ fromStream' = IF onStream THEN p ELSE << >>
       /\ ccsSent' = IF \E i \in DOMAIN p : p[i].kind = "ccs" THEN ccsSent \cup {end} ELSE ccsSent
       /\ ccsInside' = (ccsInside \/ \E i \in DOMAIN p : i > 1 /\ p[i].kind = "ccs")
  /\ UNCHANGED <<onStream, wsVars>>

\* ... and then, from the assembler, each of its records.
TlsReassembled ==
  /\ fromStream # << >> /\ ParseTLS(Head(fromStream)) /\ fromStream' = Tail(fromStream)
  /\ UNCHANGED <<ccsSent, ccsInside, onStream, segments, wsVars>>

\* A record joins the records of a key.
Join(g, key, r) ==
  [e \in DOMAIN g \cup {key} |-> IF e # key THEN g[e]
                                ELSE IF key \in DOMAIN g THEN Append(g[key], r) ELSE <<r>>]

\* Mutant: only the key of the record's own direction is looked up.
GroupStepOwn(g, r) == Join(g, r.end, r)

\* Flush groups a record under the opposite direction if that came first.
GroupStep(g, r) == Join(g, IF Other(r.end) \in DOMAIN g THEN Other(r.end) ELSE r.end, r)
GroupRecords(recs) ==
  LET group[i \in 0..Len(recs)] == IF i = 0 THEN << >> ELSE GroupStep(group[i - 1], recs[i])
  IN  group[Len(recs)]

\* The last record that has a value in one of the fields, if any.
LastWith(recs, fields) ==
  LET with == {i \in DOMAIN recs : \E f \in fields : recs[i][f] # ""} IN
  {recs[i] : i \in {i \in with : \A j \in with : j <= i}}
ValueIn(last, f) == IF last = {} THEN "" ELSE (CHOOSE r \in last : TRUE)[f]

\* Mutant: subject and issuer each from the last record that has one.
CertOfEach(recs) ==
  <<ValueIn(LastWith(recs, {"subject"}), "subject"), ValueIn(LastWith(recs, {"issuer"}), "issuer")>>

\* Both from the last record that has one of them.
CertOf(recs) ==
  LET last == LastWith(recs, {"subject", "issuer"})
  IN  <<ValueIn(last, "subject"), ValueIn(last, "issuer")>>

\* Flush: the flow of a connection.  computeJA3 gets the version of the connection.
TlsFlow(recs) ==
  LET version == ValueIn(LastWith(recs, {"version"}), "version") IN
  [version |-> version, cipher |-> ValueIn(LastWith(recs, {"cipher"}), "cipher"), cert |-> CertOf(recs),
   ja3 |-> IF \E i \in DOMAIN recs : recs[i].label = "ClientHello" THEN version ELSE ""]

----------------------------------------------------------------------------
(* websocket. *)

NewConn == [frames |-> 0, upgraded |-> FALSE]
GetOrCreate(end) == IF end \in DOMAIN wsConns THEN wsConns[end] ELSE NewConn
Put(end, conn) == [e \in DOMAIN wsConns \cup {end} |-> IF e = end THEN conn ELSE wsConns[e]]

\* Both packets of the upgrade are kept under the client's key.
Upgrade(kind) ==
  /\ wsConns' = Put("client", [GetOrCreate("client") EXCEPT !.upgraded = TRUE])
  /\ wsFirst' = IF wsFirst = "none" THEN kind ELSE wsFirst
  /\ UNCHANGED <<wsPort, wsFrames>>

\* Mutant: a frame is looked up in its own direction only.
FrameKeyOwn(end) == end

\* The key of its direction, or else of the other, or else a new one.
FrameKey(end) ==
  IF end \notin DOMAIN wsConns /\ Other(end) \in DOMAIN wsConns THEN Other(end) ELSE end

\* Anything parseFrame accepts: a frame, or other text that looks like one, as the
\* first bytes of an HTTP answer do.
Frame(end) ==
  LET key == FrameKey(end) IN
  IF key \in DOMAIN wsConns \/ wsPort
  THEN /\ wsConns' = Put(key, [GetOrCreate(key) EXCEPT !.frames = @ + 1])
       /\ wsFrames' = wsFrames + 1
       /\ wsFirst' = IF wsFirst = "none" THEN "frame" ELSE wsFirst
       /\ UNCHANGED wsPort
  ELSE UNCHANGED wsVars

----------------------------------------------------------------------------
ConnInit ==
  /\ tlsRecords = << >> /\ ccsSeen = {} /\ ccsSent = {} /\ ccsInside = FALSE
  /\ fromStream = << >> /\ onStream \in BOOLEAN /\ segments = 0
  /\ wsConns = << >> /\ wsPort \in BOOLEAN /\ wsFrames = 0 /\ wsFirst = "none"

TlsNext == (\E end \in Ends : TlsSegment(end)) \/ TlsReassembled

WsNext ==
  /\ wsFrames < MaxFrames
  /\ (\E kind \in {"request", "answer"} : Upgrade(kind)) \/ (\E end \in Ends : Frame(end))
  /\ UNCHANGED tlsVars

----------------------------------------------------------------------------
(* Properties. *)

Groups == GroupRecords(tlsRecords)

\* The records of a connection are one flow, whichever end is seen first.
OneTlsFlow == Cardinality(DOMAIN Groups) <= 1

\* The cipher of a connection is never read from ciphertext (ccsSeen): always when the
\* stream is reassembled, and otherwise when each ChangeCipherSpec begins its segment.
CipherNegotiated ==
  onStream \/ ~ccsInside => \A e \in DOMAIN Groups : TlsFlow(Groups[e]).cipher # "ciphertext"

\* An end that has not changed its cipher is read in full, whatever the other has done:
\* a hello is a hello.
HelloRead ==
  \A i \in DOMAIN tlsRecords : tlsRecords[i].label = "encrypted" => tlsRecords[i].end \in ccsSent

\* "a later message's subject is never paired with an earlier message's issuer" (Flush):
\* the certificate of a flow is the one of some record.
CertPaired ==
  \A e \in DOMAIN Groups : LET recs == Groups[e] IN
    \/ CertOf(recs) = <<"", "">>
    \/ \E i \in DOMAIN recs : <<recs[i].subject, recs[i].issuer>> = CertOf(recs)

\* Every accepted frame is counted on one connection, and an upgrade that is seen first
\* makes the one connection of both directions.
WsFramesOnce ==
  LET count(e) == IF e \in DOMAIN wsConns THEN wsConns[e].frames ELSE 0 IN
  /\ count("client") + count("server") = wsFrames
  /\ wsFirst \in {"request", "answer"} => DOMAIN wsConns = {"client"}

\* parseTLS reads as a handshake exactly what is plaintext: nothing an end sends after its
\* ChangeCipherSpec, and everything before it, whatever the other end has done.
PlaintextRead == CipherNegotiated /\ HelloRead

\* What both ends of a connection send comes together in one connection, whichever end is
\* seen first, and is not mixed there: frames count once, a certificate is one record's.
EndsJoined == OneTlsFlow /\ CertPaired /\ WsFramesOnce
=============================================================================

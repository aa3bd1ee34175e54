--------------------------- MODULE DecoderProofs ---------------------------
(***************************************************************************)
(* Decoders, for every value of their constants: TLS records and WebSocket *)
(* frames are read as they were meant and joined (Connections), and        *)
(* requests and answers are paired (Exchanges).                            *)
(***************************************************************************)
EXTENDS TLAPS, Exchanges, Connections, FiniteSetTheorems

----------------------------------------------------------------------------
(* Connections. *)

ConnNext == TlsNext \/ WsNext
ConnSpec == ConnInit /\ [][ConnNext]_connVars

RecordKinds == {"hello", "certificate", "ccs", "keys", "finished", "data"}
SentRecords ==
  [end : Ends, kind : RecordKinds, version : {"", "1.2", "1.3"}, subject : {"", "client", "server"},
   issuer : {"", "ca"}]
Labels == {"encrypted", "ClientHello", "ServerHello", "other"} \cup RecordKinds
Ciphers == {"", "negotiated", "ciphertext"}
KeptRecords ==
  [end : Ends, label : Labels, version : {"", "1.2", "1.3"}, cipher : Ciphers,
   subject : {"", "client", "server"}, issuer : {"", "ca"}]

TlsTypes ==
  /\ tlsRecords \in Seq(KeptRecords) /\ fromStream \in Seq(SentRecords)
  /\ onStream \in BOOLEAN /\ ccsInside \in BOOLEAN

\* Nothing is expected to be read wrong.
Reads == onStream \/ ~ccsInside

\* A ChangeCipherSpec that the decoder has seen, or is about to see, was sent.
SeenIsSent ==
  /\ ccsSeen \subseteq ccsSent
  /\ \A i \in 1..Len(fromStream) : fromStream[i].kind = "ccs" => fromStream[i].end \in ccsSent

\* One that was sent has been seen, or the assembler will send it.
SentIsSeen ==
  Reads => \A e \in ccsSent :
    e \in ccsSeen \/ \E i \in 1..Len(fromStream) : fromStream[i].kind = "ccs" /\ fromStream[i].end = e

\* Of what the assembler sends, ciphertext comes after the ChangeCipherSpec of its end.
CcsFirst ==
  \A i \in 1..Len(fromStream) : fromStream[i].kind = "finished" =>
    \/ fromStream[i].end \in ccsSeen
    \/ \E j \in 1..Len(fromStream) : j < i /\ fromStream[j].kind = "ccs" /\ fromStream[j].end = fromStream[i].end

StreamOnly == ~onStream => Len(fromStream) = 0

ReadRight ==
  \A i \in 1..Len(tlsRecords) :
    /\ tlsRecords[i].label = "encrypted" => tlsRecords[i].end \in ccsSent
    /\ Reads => tlsRecords[i].cipher # "ciphertext"

TlsInv == TlsTypes /\ SeenIsSent /\ SentIsSeen /\ CcsFirst /\ StreamOnly /\ ReadRight

\* The records that Flush has grouped after each of its steps.
Grouping(g, recs) == g = [i \in 0..Len(recs) |-> IF i = 0 THEN << >> ELSE GroupStep(g[i - 1], recs[i])]

\* One group, with records of the list.
OneGroup(groups, recs) ==
  /\ \E e \in Ends : DOMAIN groups \subseteq {e}
  /\ \A e \in DOMAIN groups :
       /\ groups[e] \in Seq(KeptRecords)
       /\ \A i \in 1..Len(groups[e]) : \E j \in 1..Len(recs) : groups[e][i] = recs[j]

GroupInv ==
  /\ \E g : Grouping(g, tlsRecords)
  /\ \A g : Grouping(g, tlsRecords) => OneGroup(g[Len(tlsRecords)], tlsRecords)

Count(e) == IF e \in DOMAIN wsConns THEN wsConns[e].frames ELSE 0
WsInv ==
  /\ wsFrames \in Nat /\ wsPort \in BOOLEAN
  /\ DOMAIN wsConns \subseteq Ends
  /\ \A e \in DOMAIN wsConns : wsConns[e] \in [frames : Nat, upgraded : BOOLEAN]
  /\ Count("client") + Count("server") = wsFrames
  /\ wsFirst = "none" => DOMAIN wsConns = {}
  /\ wsFirst \in {"request", "answer"} => DOMAIN wsConns = {"client"}

ConnInv == TlsInv /\ GroupInv /\ WsInv

----------------------------------------------------------------------------
(* tls: what is read. *)

LEMMA EndsTwo == /\ "client" \in Ends /\ "server" \in Ends /\ "client" # "server"
                 /\ \A e \in Ends : e = "client" \/ e = "server"
                 /\ \A e \in Ends : Other(e) \in Ends /\ Other(e) # e
                 /\ \A e, f \in Ends : e # f => Other(e) = f
  BY Zenon DEF Ends, Other

LEMMA SentTyped ==
  ASSUME NEW end \in Ends, NEW kind \in RecordKinds, NEW version \in {"", "1.2", "1.3"},
         NEW subject \in {"", "client", "server"}, NEW issuer \in {"", "ca"}
  PROVE  LET s == Sent(end, kind, version, subject, issuer) IN s \in SentRecords /\ s.end = end /\ s.kind = kind
  BY Zenon DEF Sent, SentRecords

LEMMA KeptTyped ==
  ASSUME NEW r \in SentRecords, NEW label \in Labels, NEW cipher \in Ciphers
  PROVE  LET k == Kept(r, label, cipher) IN
         k \in KeptRecords /\ k.end = r.end /\ k.label = label /\ k.cipher = cipher
  BY Zenon DEF Kept, KeptRecords, SentRecords

LEMMA LabelsKnown ==
  /\ "encrypted" \in Labels /\ "ClientHello" \in Labels /\ "ServerHello" \in Labels /\ "other" \in Labels
  /\ RecordKinds \subseteq Labels
  /\ "" \in Ciphers /\ "negotiated" \in Ciphers /\ "ciphertext" \in Ciphers
  BY Zenon DEF Labels, Ciphers

LEMMA SentFields == ASSUME NEW r \in SentRecords PROVE r.end \in Ends /\ r.kind \in RecordKinds
  BY Zenon DEF SentRecords

\* The forms of a segment.
LEMMA PayloadForms ==
  ASSUME NEW end \in Ends, NEW p \in Payloads(end)
  PROVE  /\ p \in Seq(SentRecords)
         /\ \A i \in 1..Len(p) : p[i].end = end
         /\ \/ Len(p) = 1 /\ (p[1].kind = "finished" => end \in ccsSent)
            \/ Len(p) = 2 /\ p[1].kind = "ccs" /\ p[2].kind = "finished"
            \/ Len(p) = 2 /\ p[1].kind = "keys" /\ p[2].kind = "ccs"
<1> DEFINE ccs == Sent(end, "ccs", "1.2", "", "")
<1> DEFINE keys == Sent(end, "keys", "", "", "")
<1> DEFINE finished == Sent(end, "finished", "1.2", "", "")
<1>1. ccs \in SentRecords /\ ccs.end = end /\ ccs.kind = "ccs"
  BY Zenon DEF Sent, SentRecords, RecordKinds
<1>2. keys \in SentRecords /\ keys.end = end /\ keys.kind = "keys"
  BY Zenon DEF Sent, SentRecords, RecordKinds
<1>3. finished \in SentRecords /\ finished.end = end /\ finished.kind = "finished"
  BY Zenon DEF Sent, SentRecords, RecordKinds
<1>4. ASSUME NEW r \in Records(end, end \in ccsSent)
      PROVE  r \in SentRecords /\ r.end = end /\ (r.kind = "finished" => end \in ccsSent)
  <2>1. CASE end \in ccsSent
    <3>1. PICK kind \in {"finished", "data"} : r = Sent(end, kind, "1.2", "", "")
      BY <1>4, <2>1, Zenon DEF Records, Encrypted
    <3>2. kind \in RecordKinds
      BY Zenon DEF RecordKinds
    <3> QED BY <2>1, <3>1, <3>2, SentTyped, Zenon
  <2>2. CASE end \notin ccsSent
    <3>1. r \in Plaintext(end)
      BY <1>4, <2>2, Zenon DEF Records
    <3>2. CASE \E v \in {"1.2", "1.3"} : r = Sent(end, "hello", v, "", "")
      <4>1. PICK v \in {"1.2", "1.3"} : r = Sent(end, "hello", v, "", "")
        BY <3>2, Zenon
      <4>2. r \in SentRecords /\ r.end = end /\ r.kind = "hello"
        BY <4>1, Zenon DEF Sent, SentRecords, RecordKinds
      <4> QED BY <4>2, Zenon
    <3>3. CASE \E issuer \in {"ca", ""} : r = Sent(end, "certificate", "", end, issuer)
      <4>1. PICK issuer \in {"ca", ""} : r = Sent(end, "certificate", "", end, issuer)
        BY <3>3, Zenon
      <4>2. r \in SentRecords /\ r.end = end /\ r.kind = "certificate"
        BY <4>1, Zenon DEF Sent, SentRecords, RecordKinds, Ends
      <4> QED BY <4>2, Zenon
    <3>4. CASE r = ccs \/ r = keys
      BY <3>4, <1>1, <1>2, Zenon
    <3> QED BY <3>1, <3>2, <3>3, <3>4, Zenon DEF Plaintext
  <2> QED BY <2>1, <2>2, Zenon
<1>5. \/ \E r \in Records(end, end \in ccsSent) : p = <<r>>
      \/ p = <<keys, ccs>> \/ p = <<ccs, finished>>
  BY Zenon DEF Payloads
<1> HIDE DEF ccs, keys, finished
<1>6. CASE \E r \in Records(end, end \in ccsSent) : p = <<r>>
  <2>1. PICK r \in Records(end, end \in ccsSent) : p = <<r>>
    BY <1>6, Zenon
  <2>2. r \in SentRecords /\ r.end = end /\ (r.kind = "finished" => end \in ccsSent)
    BY <1>4, Zenon
  <2>3. p \in Seq(SentRecords) /\ Len(p) = 1 /\ p[1] = r /\ \A i \in 1..Len(p) : p[i] = r
    BY <2>1, <2>2
  <2> QED BY <2>2, <2>3, Zenon
<1>7. CASE p = <<keys, ccs>>
  <2>1. p \in Seq(SentRecords) /\ Len(p) = 2 /\ p[1] = keys /\ p[2] = ccs /\ \A i \in 1..Len(p) : p[i] = keys \/ p[i] = ccs
    BY <1>7, <1>1, <1>2
  <2> QED BY <1>1, <1>2, <2>1, Zenon
<1>8. CASE p = <<ccs, finished>>
  <2>1. p \in Seq(SentRecords) /\ Len(p) = 2 /\ p[1] = ccs /\ p[2] = finished /\ \A i \in 1..Len(p) : p[i] = ccs \/ p[i] = finished
    BY <1>8, <1>1, <1>3
  <2> QED BY <1>1, <1>3, <2>1, Zenon
<1> QED BY <1>5, <1>6, <1>7, <1>8, Zenon

\* The record that parseTLS adds.
LEMMA ParseAdds ==
  ASSUME NEW r \in SentRecords, ParseTLS(r)
  PROVE  /\ \E k \in KeptRecords :
              /\ tlsRecords' = Append(tlsRecords, k)
              /\ k.label = "encrypted" => r.end \in ccsSeen /\ k.end = r.end
              /\ k.cipher = "ciphertext" => r.kind = "finished" /\ r.end \notin ccsSeen
         /\ ccsSeen' = IF r.kind = "ccs" THEN ccsSeen \cup {r.end} ELSE ccsSeen
<1> DEFINE handshake == r.kind \in {"hello", "certificate", "keys", "finished"}
<1> DEFINE hello == IF r.end = "client" THEN Kept(r, "ClientHello", "") ELSE Kept(r, "ServerHello", "negotiated")
<1> DEFINE readings == IF handshake /\ IsEncrypted(r.end) THEN { Kept(r, "encrypted", "") }
                  ELSE IF r.kind = "hello" THEN { hello }
                  ELSE IF r.kind = "finished"
                  THEN { Kept(r, "ServerHello", "ciphertext"), Kept(r, "other", "") }
                  ELSE { Kept(r, r.kind, "") }
<1>1. PICK k \in readings : tlsRecords' = Append(tlsRecords, k)
  BY Zenon DEF ParseTLS
<1>2. ccsSeen' = IF r.kind = "ccs" THEN ccsSeen \cup {r.end} ELSE ccsSeen
  BY Zenon DEF ParseTLS
<1>3. SUFFICES /\ k \in KeptRecords
               /\ k.label = "encrypted" => r.end \in ccsSeen /\ k.end = r.end
               /\ k.cipher = "ciphertext" => r.kind = "finished" /\ r.end \notin ccsSeen
  BY <1>1, <1>2, Zenon
<1>4. \/ r.end \in ccsSeen /\ k = Kept(r, "encrypted", "")
      \/ k = Kept(r, "ClientHello", "") \/ k = Kept(r, "ServerHello", "negotiated")
      \/ /\ r.kind = "finished" /\ r.end \notin ccsSeen
         /\ k = Kept(r, "ServerHello", "ciphertext") \/ k = Kept(r, "other", "")
      \/ k = Kept(r, r.kind, "")
  BY <1>1, Zenon DEF IsEncrypted
<1> HIDE DEF readings, handshake, hello
<1>5. \A l \in Labels : \A c \in Ciphers : /\ Kept(r, l, c) \in KeptRecords /\ Kept(r, l, c).end = r.end
                                          /\ Kept(r, l, c).label = l /\ Kept(r, l, c).cipher = c
  BY KeptTyped, Zenon
<1>6. CASE r.end \in ccsSeen /\ k = Kept(r, "encrypted", "")
  <2>1. k \in KeptRecords /\ k.end = r.end /\ k.cipher = ""
    BY <1>5, <1>6, LabelsKnown, Zenon
  <2> QED BY <1>6, <2>1, Zenon
<1>7. CASE k = Kept(r, "ClientHello", "")
  <2>1. k \in KeptRecords /\ k.label = "ClientHello" /\ k.cipher = ""
    BY <1>5, <1>7, LabelsKnown, Zenon
  <2> QED BY <2>1, Zenon
<1>8. CASE k = Kept(r, "ServerHello", "negotiated")
  <2>1. k \in KeptRecords /\ k.label = "ServerHello" /\ k.cipher = "negotiated"
    BY <1>5, <1>8, LabelsKnown, Zenon
  <2> QED BY <2>1, Zenon
<1>9. CASE r.kind = "finished" /\ r.end \notin ccsSeen /\ k = Kept(r, "ServerHello", "ciphertext")
  <2>1. k \in KeptRecords /\ k.label = "ServerHello"
    BY <1>5, <1>9, LabelsKnown, Zenon
  <2> QED BY <1>9, <2>1, Zenon
<1>10. CASE r.kind = "finished" /\ r.end \notin ccsSeen /\ k = Kept(r, "other", "")
  <2>1. k \in KeptRecords /\ k.label = "other"
    BY <1>5, <1>10, LabelsKnown, Zenon
  <2> QED BY <1>10, <2>1, Zenon
<1>11. CASE k = Kept(r, r.kind, "")
  <2>1. r.kind \in RecordKinds /\ r.kind # "encrypted"
    BY SentFields, Zenon DEF RecordKinds
  <2>2. r.kind \in Labels /\ "" \in Ciphers
    BY <2>1, LabelsKnown, Zenon
  <2>3. k \in KeptRecords /\ k.label = r.kind /\ k.cipher = ""
    BY <1>5, <1>11, <2>2, Zenon
  <2> QED BY <2>1, <2>3, Zenon
<1> QED BY <1>4, <1>6, <1>7, <1>8, <1>9, <1>10, <1>11, Zenon

\* The list of records after one more, which is read right.
LEMMA ReadRightStep ==
  ASSUME TlsTypes, ReadRight, NEW k \in KeptRecords, tlsRecords' = Append(tlsRecords, k),
         ccsSent \subseteq ccsSent', Reads' => Reads, k.label = "encrypted" => k.end \in ccsSent',
         Reads' => k.cipher # "ciphertext"
  PROVE  tlsRecords' \in Seq(KeptRecords) /\ ReadRight'
<1>1. /\ tlsRecords' \in Seq(KeptRecords)
      /\ \A i \in 1..Len(tlsRecords') : tlsRecords'[i] = k \/ \E j \in 1..Len(tlsRecords) : tlsRecords'[i] = tlsRecords[j]
  BY DEF TlsTypes
<1>2. ASSUME NEW i \in 1..Len(tlsRecords')
      PROVE  /\ tlsRecords'[i].label = "encrypted" => tlsRecords'[i].end \in ccsSent'
             /\ Reads' => tlsRecords'[i].cipher # "ciphertext"
  <2>1. CASE tlsRecords'[i] = k
    BY <2>1, Zenon
  <2>2. CASE \E j \in 1..Len(tlsRecords) : tlsRecords'[i] = tlsRecords[j]
    BY <2>2, Zenon DEF ReadRight
  <2> QED BY <1>1, <2>1, <2>2, Zenon
<1> QED BY <1>1, <1>2, Zenon DEF ReadRight

LEMMA SegmentStep == ASSUME TlsInv, NEW end \in Ends, TlsSegment(end) PROVE TlsInv'
<1>1. PICK p \in Payloads(end) :
        /\ ParseTLS(p[1])
        /\ fromStream' = IF onStream THEN p ELSE << >>
        /\ ccsSent' = IF \E i \in DOMAIN p : p[i].kind = "ccs" THEN ccsSent \cup {end} ELSE ccsSent
        /\ ccsInside' = (ccsInside \/ \E i \in DOMAIN p : i > 1 /\ p[i].kind = "ccs")
  BY Zenon DEF TlsSegment
<1>2. fromStream = << >> /\ onStream' = onStream
  BY Zenon DEF TlsSegment
<1>3. /\ p \in Seq(SentRecords)
      /\ \A i \in 1..Len(p) : p[i].end = end
      /\ \/ Len(p) = 1 /\ (p[1].kind = "finished" => end \in ccsSent)
         \/ Len(p) = 2 /\ p[1].kind = "ccs" /\ p[2].kind = "finished"
         \/ Len(p) = 2 /\ p[1].kind = "keys" /\ p[2].kind = "ccs"
  BY PayloadForms, Zenon
<1>4. DOMAIN p = 1..Len(p) /\ Len(p) \in Nat /\ 1 \in 1..Len(p) /\ p[1] \in SentRecords
  BY <1>3
<1>5. p[1].end = end
  BY <1>3, <1>4, Zenon
<1>6. Len(fromStream) = 0 /\ Len(<< >>) = 0 /\ 1..0 = {}
  BY <1>2
<1>7. PICK k \in KeptRecords :
        /\ tlsRecords' = Append(tlsRecords, k)
        /\ k.label = "encrypted" => p[1].end \in ccsSeen /\ k.end = p[1].end
        /\ k.cipher = "ciphertext" => p[1].kind = "finished" /\ p[1].end \notin ccsSeen
  BY <1>1, <1>4, ParseAdds, Zenon
<1>8. ccsSeen' = IF p[1].kind = "ccs" THEN ccsSeen \cup {end} ELSE ccsSeen
  BY <1>1, <1>4, <1>5, ParseAdds, Zenon
<1>9. Reads' => Reads
  BY <1>1, <1>2, Zenon DEF Reads
<1>10. ccsSent \subseteq ccsSent' /\ ccsSeen \subseteq ccsSent
  BY <1>1, Zenon DEF TlsInv, SeenIsSent
<1>11. Reads => ccsSent \subseteq ccsSeen
  BY <1>6, Zenon DEF TlsInv, SentIsSeen
<1>12. Reads' => k.cipher # "ciphertext"
  <2>1. SUFFICES ASSUME Reads, k.cipher = "ciphertext" PROVE FALSE
    BY <1>9, Zenon
  <2>2. p[1].kind = "finished" /\ end \notin ccsSeen
    BY <1>5, <1>7, <2>1, Zenon
  <2>3. p[1].kind # "ccs" /\ p[1].kind # "keys"
    BY <2>2, Zenon
  <2> QED BY <1>3, <1>11, <2>1, <2>2, <2>3, Zenon
<1>13. tlsRecords' \in Seq(KeptRecords) /\ ReadRight'
  <2>1. k.label = "encrypted" => k.end \in ccsSent'
    BY <1>5, <1>7, <1>10, Zenon
  <2> QED BY <1>7, <1>9, <1>10, <1>12, <2>1, ReadRightStep, Zenon DEF TlsInv
<1>14. TlsTypes'
  <2>1. fromStream' \in Seq(SentRecords)
    BY <1>1, <1>2, <1>3, Zenon DEF TlsInv, TlsTypes
  <2>2. ccsInside' \in BOOLEAN
    BY <1>1, Zenon
  <2> QED BY <1>2, <1>13, <2>1, <2>2, Zenon DEF TlsInv, TlsTypes
<1>15. StreamOnly'
  BY <1>1, <1>2, <1>6, Zenon DEF StreamOnly
<1>16. \A i \in 1..Len(fromStream') : i \in 1..Len(p) /\ fromStream'[i] = p[i] /\ fromStream' = p
  BY <1>1, <1>6, Zenon
<1>17. SeenIsSent'
  <2>1. (\E i \in 1..Len(p) : p[i].kind = "ccs") => end \in ccsSent'
    BY <1>1, <1>4, Zenon
  <2>2. ccsSeen' \subseteq ccsSent'
    BY <1>4, <1>8, <1>10, <2>1, Zenon
  <2>3. \A i \in 1..Len(fromStream') : fromStream'[i].kind = "ccs" => fromStream'[i].end \in ccsSent'
    BY <1>3, <1>16, <2>1, Zenon
  <2> QED BY <2>2, <2>3, Zenon DEF SeenIsSent
<1>18. CcsFirst'
  <2>1. SUFFICES ASSUME NEW i \in 1..Len(fromStream'), fromStream'[i].kind = "finished"
                 PROVE  \/ fromStream'[i].end \in ccsSeen'
                        \/ \E j \in 1..Len(fromStream') : j < i /\ fromStream'[j].kind = "ccs" /\ fromStream'[j].end = fromStream'[i].end
    BY Zenon DEF CcsFirst
  <2>2. i \in 1..Len(p) /\ fromStream' = p /\ p[i].kind = "finished" /\ p[i].end = end
    BY <1>3, <1>16, <2>1, Zenon
  <2>3. onStream /\ Reads
    BY <1>1, <1>6, <2>1, Zenon DEF Reads
  <2>4. CASE Len(p) = 1
    <3>1. i = 1
      BY <2>2, <2>4
    <3>2. p[1].kind # "ccs" /\ p[1].kind # "keys"
      BY <2>2, <3>1, Zenon
    <3>3. end \in ccsSent
      BY <1>3, <2>2, <3>1, <3>2, Zenon
    <3>4. end \in ccsSeen'
      BY <1>8, <1>11, <2>3, <3>3, Zenon
    <3> QED BY <2>2, <3>4, Zenon
  <2>5. CASE p[1].kind = "ccs"
    BY <1>8, <2>2, <2>5, Zenon
  <2>6. CASE Len(p) = 2 /\ p[1].kind = "keys" /\ p[2].kind = "ccs"
    <3>1. i = 1 \/ i = 2
      BY <2>2, <2>6
    <3> QED BY <2>2, <2>6, <3>1, Zenon
  <2> QED BY <1>3, <2>4, <2>5, <2>6, Zenon
<1>19. SentIsSeen'
  <2>1. SUFFICES ASSUME Reads', NEW e \in ccsSent'
                 PROVE  e \in ccsSeen' \/ \E i \in 1..Len(fromStream') : fromStream'[i].kind = "ccs" /\ fromStream'[i].end = e
    BY Zenon DEF SentIsSeen
  <2>2. CASE e \in ccsSent
    BY <1>8, <1>9, <1>11, <2>1, <2>2, Zenon
  <2>3. CASE e \notin ccsSent
    <3>1. PICK i \in 1..Len(p) : p[i].kind = "ccs" /\ e = end
      BY <1>1, <1>4, <2>1, <2>3, Zenon
    <3>2. CASE onStream
      BY <1>1, <1>3, <3>1, <3>2, Zenon
    <3>3. CASE ~onStream
      <4>1. ~ccsInside'
        BY <1>2, <2>1, <3>3, Zenon DEF Reads
      <4>2. ~(i > 1)
        BY <1>1, <1>4, <3>1, <4>1, Zenon
      <4>3. i = 1
        BY <1>4, <4>2
      <4> QED BY <1>8, <3>1, <4>3, Zenon
    <3> QED BY <3>2, <3>3, Zenon
  <2> QED BY <2>2, <2>3, Zenon
<1> QED BY <1>13, <1>14, <1>15, <1>17, <1>18, <1>19, Zenon DEF TlsInv

LEMMA ReassembledStep == ASSUME TlsInv, TlsReassembled PROVE TlsInv'
<1> DEFINE r == fromStream[1]
<1>1. /\ fromStream \in Seq(SentRecords) /\ fromStream # << >> /\ fromStream' = Tail(fromStream) /\ ParseTLS(Head(fromStream))
      /\ ccsSent' = ccsSent /\ ccsInside' = ccsInside /\ onStream' = onStream
  BY Zenon DEF TlsReassembled, TlsInv, TlsTypes
<1>2. /\ Head(fromStream) = r /\ r \in SentRecords /\ Len(fromStream) \in Nat /\ 1 \in 1..Len(fromStream) /\ fromStream' \in Seq(SentRecords)
      /\ Len(fromStream') = Len(fromStream) - 1
      /\ \A i \in 1..Len(fromStream') : i + 1 \in 1..Len(fromStream) /\ fromStream'[i] = fromStream[i + 1]
  BY <1>1
<1> HIDE DEF r
<1>3. \A i \in 1..Len(fromStream) : i = 1 \/ \E j \in 1..Len(fromStream') : i = j + 1
  <2>1. SUFFICES ASSUME NEW i \in 1..Len(fromStream), i # 1 PROVE \E j \in 1..Len(fromStream') : i = j + 1
    BY Zenon
  <2>2. i - 1 \in 1..Len(fromStream') /\ i = (i - 1) + 1
    BY <1>2, <2>1
  <2> QED BY <2>2, Zenon
<1>4. PICK k \in KeptRecords :
        /\ tlsRecords' = Append(tlsRecords, k)
        /\ k.label = "encrypted" => r.end \in ccsSeen /\ k.end = r.end
        /\ k.cipher = "ciphertext" => r.kind = "finished" /\ r.end \notin ccsSeen
  BY <1>1, <1>2, ParseAdds, Zenon
<1>5. ccsSeen' = IF r.kind = "ccs" THEN ccsSeen \cup {r.end} ELSE ccsSeen
  BY <1>1, <1>2, ParseAdds, Zenon
<1>6. Reads' <=> Reads
  BY <1>1, Zenon DEF Reads
<1>7. r.kind = "finished" => r.end \in ccsSeen
  <2>1. SUFFICES ASSUME r.kind = "finished" PROVE ~\E j \in 1..Len(fromStream) : j < 1
    BY <1>2, Zenon DEF TlsInv, CcsFirst, r
  <2> QED BY <1>2
<1>8. r.kind = "ccs" => r.end \in ccsSent
  BY <1>2, Zenon DEF TlsInv, SeenIsSent, r
<1>9. tlsRecords' \in Seq(KeptRecords) /\ ReadRight'
  <2>1. k.label = "encrypted" => k.end \in ccsSent'
    BY <1>1, <1>4, Zenon DEF TlsInv, SeenIsSent
  <2>2. Reads' => k.cipher # "ciphertext"
    BY <1>4, <1>7, Zenon
  <2>3. ccsSent \subseteq ccsSent'
    BY <1>1, Zenon
  <2> QED BY <1>4, <1>6, <2>1, <2>2, <2>3, ReadRightStep, Zenon DEF TlsInv
<1>10. TlsTypes'
  BY <1>1, <1>2, <1>9, Zenon DEF TlsInv, TlsTypes
<1>11. StreamOnly'
  <2>1. onStream
    BY <1>2 DEF TlsInv, StreamOnly
  <2> QED BY <1>1, <2>1, Zenon DEF StreamOnly
<1>12. SeenIsSent'
  <2>1. ccsSeen' \subseteq ccsSent'
    BY <1>1, <1>5, <1>8, Zenon DEF TlsInv, SeenIsSent
  <2>2. \A i \in 1..Len(fromStream') : fromStream'[i].kind = "ccs" => fromStream'[i].end \in ccsSent'
    BY <1>1, <1>2, Zenon DEF TlsInv, SeenIsSent
  <2> QED BY <2>1, <2>2, Zenon DEF SeenIsSent
<1>13. SentIsSeen'
  <2>1. SUFFICES ASSUME Reads, NEW e \in ccsSent
                 PROVE  e \in ccsSeen' \/ \E i \in 1..Len(fromStream') : fromStream'[i].kind = "ccs" /\ fromStream'[i].end = e
    BY <1>1, <1>6, Zenon DEF SentIsSeen
  <2>2. CASE e \in ccsSeen
    BY <1>5, <2>2, Zenon
  <2>3. CASE \E i \in 1..Len(fromStream) : fromStream[i].kind = "ccs" /\ fromStream[i].end = e
    <3>1. PICK i \in 1..Len(fromStream) : fromStream[i].kind = "ccs" /\ fromStream[i].end = e
      BY <2>3, Zenon
    <3>2. CASE i = 1
      BY <1>5, <3>1, <3>2, Zenon DEF r
    <3>3. CASE i # 1
      <4>1. PICK j \in 1..Len(fromStream') : i = j + 1
        BY <1>3, <3>3, Zenon
      <4>2. fromStream'[j] = fromStream[i]
        BY <1>2, <4>1, Zenon
      <4> QED BY <3>1, <4>2, Zenon
    <3> QED BY <3>2, <3>3, Zenon
  <2> QED BY <2>1, <2>2, <2>3, Zenon DEF TlsInv, SentIsSeen
<1>14. CcsFirst'
  <2>1. SUFFICES ASSUME NEW i \in 1..Len(fromStream'), fromStream'[i].kind = "finished"
                 PROVE  \/ fromStream'[i].end \in ccsSeen'
                        \/ \E j \in 1..Len(fromStream') : j < i /\ fromStream'[j].kind = "ccs" /\ fromStream'[j].end = fromStream'[i].end
    BY Zenon DEF CcsFirst
  <2>2. i + 1 \in 1..Len(fromStream) /\ fromStream'[i] = fromStream[i + 1]
    BY <1>2, Zenon
  <2>3. CASE fromStream[i + 1].end \in ccsSeen
    BY <1>5, <2>2, <2>3, Zenon
  <2>4. CASE fromStream[i + 1].end \notin ccsSeen
    <3>1. PICK j \in 1..Len(fromStream) : j < i + 1 /\ fromStream[j].kind = "ccs" /\ fromStream[j].end = fromStream[i + 1].end
      BY <2>1, <2>2, <2>4, Zenon DEF TlsInv, CcsFirst
    <3>2. CASE j = 1
      BY <1>5, <2>2, <3>1, <3>2, Zenon DEF r
    <3>3. CASE j # 1
      <4>1. PICK h \in 1..Len(fromStream') : j = h + 1
        BY <1>3, <3>3, Zenon
      <4>2. h < i
        BY <1>2, <3>1, <4>1
      <4>3. fromStream'[h] = fromStream[j]
        BY <1>2, <4>1, Zenon
      <4> QED BY <2>2, <3>1, <4>2, <4>3, Zenon
    <3> QED BY <3>2, <3>3, Zenon
  <2> QED BY <2>3, <2>4, Zenon
<1> QED BY <1>9, <1>10, <1>11, <1>12, <1>13, <1>14, Zenon DEF TlsInv

----------------------------------------------------------------------------
(* tls: the groups of Flush. *)

\* A grouping of the records gives one of the records with one more, and the other way
\* round.
LEMMA GroupingExtends ==
  ASSUME NEW recs \in Seq(KeptRecords), NEW k \in KeptRecords, NEW g, Grouping(g, recs)
  PROVE  \E h : Grouping(h, Append(recs, k))
<1> DEFINE n == Len(recs)
<1> DEFINE h == [i \in 0..n + 1 |-> IF i = n + 1 THEN GroupStep(g[n], k) ELSE g[i]]
<1> DEFINE f == [i \in 0..n + 1 |-> IF i = 0 THEN << >> ELSE GroupStep(h[i - 1], Append(recs, k)[i])]
<1>1. n \in Nat /\ Len(Append(recs, k)) = n + 1 /\ Append(recs, k)[n + 1] = k /\ \A i \in 1..n : Append(recs, k)[i] = recs[i]
  OBVIOUS
<1>2. \A i \in 0..n : g[i] = IF i = 0 THEN << >> ELSE GroupStep(g[i - 1], recs[i])
  BY Zenon DEF Grouping
<1> HIDE DEF n
<1>3. /\ \A i \in 0..n : i \in 0..n + 1 /\ i # n + 1 /\ (i # 0 => i - 1 \in 0..n /\ i \in 1..n)
      /\ \A i \in 0..n + 1 : i \in 0..n \/ i = n + 1
      /\ n \in 0..n /\ n + 1 \in 0..n + 1 /\ n + 1 # 0 /\ (n + 1) - 1 = n
  BY <1>1
<1>4. h[n + 1] = GroupStep(g[n], k) /\ \A i \in 0..n : h[i] = g[i]
  BY <1>3, Zenon
<1> HIDE DEF h
<1>5. ASSUME NEW i \in 0..n + 1 PROVE h[i] = f[i]
  <2>1. CASE i = n + 1
    <3>1. f[i] = GroupStep(h[n], k)
      BY <1>1, <1>3, <2>1, Zenon
    <3> QED BY <1>3, <1>4, <2>1, <3>1, Zenon
  <2>2. CASE i = 0
    <3>1. f[i] = << >> /\ i \in 0..n
      BY <1>3, <2>2, <1>1, Zenon
    <3> QED BY <1>2, <1>4, <2>2, <3>1, Zenon
  <2>3. CASE i # n + 1 /\ i # 0
    <3>1. i \in 0..n /\ i \in 1..n /\ i - 1 \in 0..n
      BY <1>3, <2>3, Zenon
    <3>2. f[i] = GroupStep(h[i - 1], recs[i])
      BY <1>1, <2>3, <3>1, Zenon
    <3> QED BY <1>2, <1>4, <2>3, <3>1, <3>2, Zenon
  <2> QED BY <2>1, <2>2, <2>3, Zenon
<1>6. h = f
  <2>1. h = [i \in 0..n + 1 |-> h[i]]
    BY Zenon DEF h
  <2>2. f = [i \in 0..n + 1 |-> f[i]]
    BY Zenon
  <2> HIDE DEF f
  <2> QED BY <1>5, <2>1, <2>2, Zenon
<1> QED BY <1>1, <1>6, Zenon DEF Grouping

LEMMA GroupingRestricts ==
  ASSUME NEW recs \in Seq(KeptRecords), NEW k \in KeptRecords, NEW h, Grouping(h, Append(recs, k))
  PROVE  /\ \E g : Grouping(g, recs) /\ g[Len(recs)] = h[Len(recs)]
         /\ h[Len(recs) + 1] = GroupStep(h[Len(recs)], k)
<1> DEFINE n == Len(recs)
<1> DEFINE g == [i \in 0..n |-> h[i]]
<1> DEFINE f == [i \in 0..n |-> IF i = 0 THEN << >> ELSE GroupStep(g[i - 1], recs[i])]
<1>1. n \in Nat /\ Len(Append(recs, k)) = n + 1 /\ Append(recs, k)[n + 1] = k /\ \A i \in 1..n : Append(recs, k)[i] = recs[i]
  OBVIOUS
<1>2. \A i \in 0..n + 1 : h[i] = IF i = 0 THEN << >> ELSE GroupStep(h[i - 1], Append(recs, k)[i])
  BY <1>1, Zenon DEF Grouping
<1> HIDE DEF n
<1>3. /\ \A i \in 0..n : i \in 0..n + 1 /\ (i # 0 => i - 1 \in 0..n /\ i \in 1..n)
      /\ n \in 0..n /\ n + 1 \in 0..n + 1 /\ n + 1 # 0 /\ (n + 1) - 1 = n
  BY <1>1
<1>4. h[n + 1] = GroupStep(h[n], k)
  BY <1>1, <1>2, <1>3, Zenon
<1>5. ASSUME NEW i \in 0..n PROVE h[i] = f[i]
  <2>1. CASE i = 0
    BY <1>2, <1>3, <2>1, Zenon
  <2>2. CASE i # 0
    <3>1. i \in 0..n + 1 /\ i \in 1..n /\ i - 1 \in 0..n
      BY <1>3, <2>2, Zenon
    <3>2. h[i] = GroupStep(h[i - 1], recs[i])
      BY <1>1, <1>2, <2>2, <3>1, Zenon
    <3> QED BY <2>2, <3>1, <3>2, Zenon
  <2> QED BY <2>1, <2>2, Zenon
<1>6. g = f
  BY <1>5, Zenon
<1>7. Grouping(g, recs)
  BY <1>6, Zenon DEF Grouping, n
<1>8. g[n] = h[n]
  BY <1>3, Zenon
<1> HIDE DEF g
<1> QED BY <1>4, <1>7, <1>8, Zenon DEF n

\* A record of either end joins the group that there is.
LEMMA JoinsGroup ==
  ASSUME NEW recs \in Seq(KeptRecords), NEW k \in KeptRecords, NEW groups, OneGroup(groups, recs)
  PROVE  OneGroup(GroupStep(groups, k), Append(recs, k))
<1> DEFINE key == IF Other(k.end) \in DOMAIN groups THEN Other(k.end) ELSE k.end
<1> DEFINE new == GroupStep(groups, k)
<1>1. k.end \in Ends
  BY Zenon DEF KeptRecords
<1>2. key \in Ends
  BY <1>1, EndsTwo, Zenon
<1>3. PICK e \in Ends : DOMAIN groups \subseteq {e}
  BY Zenon DEF OneGroup
<1>4. DOMAIN groups \subseteq {key}
  <2>1. SUFFICES ASSUME NEW d \in DOMAIN groups PROVE d = key
    BY Zenon
  <2>2. d = e /\ d \in Ends
    BY <1>3, Zenon
  <2>3. CASE d = k.end
    <3>1. Other(k.end) # e
      BY <1>1, <2>2, <2>3, EndsTwo, Zenon
    <3>2. Other(k.end) \notin DOMAIN groups
      BY <1>3, <3>1, Zenon
    <3> QED BY <2>3, <3>2, Zenon
  <2>4. CASE d # k.end
    <3>1. Other(k.end) = d
      BY <1>1, <2>2, <2>4, EndsTwo, Zenon
    <3> QED BY <3>1, Zenon
  <2> QED BY <2>3, <2>4, Zenon
<1>5. new = [x \in DOMAIN groups \cup {key} |->
               IF x # key THEN groups[x] ELSE IF key \in DOMAIN groups THEN Append(groups[key], k) ELSE <<k>>]
  BY Zenon DEF GroupStep, Join
<1> HIDE DEF key, new
<1>6. DOMAIN new = {key} /\ new[key] = IF key \in DOMAIN groups THEN Append(groups[key], k) ELSE <<k>>
  <2>1. DOMAIN new = DOMAIN groups \cup {key} /\ key \in DOMAIN groups \cup {key}
    BY <1>5, Zenon
  <2>2. DOMAIN groups \cup {key} = {key}
    BY <1>4, Zenon
  <2> QED BY <1>5, <2>1, <2>2, Zenon
<1> DEFINE more == Append(recs, k)
<1>7. /\ \E j \in 1..Len(more) : k = more[j]
      /\ \A i \in 1..Len(recs) : i \in 1..Len(more) /\ more[i] = recs[i]
  <2>1. Len(more) \in 1..Len(more) /\ more[Len(more)] = k
    OBVIOUS
  <2>2. \A i \in 1..Len(recs) : i \in 1..Len(more) /\ more[i] = recs[i]
    OBVIOUS
  <2> HIDE DEF more
  <2> QED BY <2>1, <2>2, Zenon
<1> HIDE DEF more
<1>8. new[key] \in Seq(KeptRecords) /\ \A i \in 1..Len(new[key]) : \E j \in 1..Len(more) : new[key][i] = more[j]
  <2>1. CASE key \in DOMAIN groups
    <3> DEFINE s == groups[key]
    <3>1. s \in Seq(KeptRecords) /\ \A i \in 1..Len(s) : \E j \in 1..Len(recs) : s[i] = recs[j]
      BY <2>1, Zenon DEF OneGroup
    <3>2. new[key] = Append(s, k)
      BY <1>6, <2>1, Zenon
    <3> HIDE DEF s
    <3>3. Append(s, k) \in Seq(KeptRecords) /\ \A i \in 1..Len(Append(s, k)) : Append(s, k)[i] = k \/ (i \in 1..Len(s) /\ Append(s, k)[i] = s[i])
      BY <3>1
    <3>4. ASSUME NEW i \in 1..Len(Append(s, k)) PROVE \E j \in 1..Len(more) : Append(s, k)[i] = more[j]
      <4>1. CASE Append(s, k)[i] = k
        BY <1>7, <4>1, Zenon
      <4>2. CASE i \in 1..Len(s) /\ Append(s, k)[i] = s[i]
        BY <1>7, <3>1, <4>2, Zenon
      <4> QED BY <3>3, <4>1, <4>2, Zenon
    <3> QED BY <3>2, <3>3, <3>4, Zenon
  <2>2. CASE key \notin DOMAIN groups
    <3>1. new[key] = <<k>>
      BY <1>6, <2>2, Zenon
    <3>2. <<k>> \in Seq(KeptRecords) /\ \A i \in 1..Len(<<k>>) : <<k>>[i] = k
      OBVIOUS
    <3> QED BY <1>7, <3>1, <3>2, Zenon
  <2> QED BY <2>1, <2>2, Zenon
<1>9. /\ \E d \in Ends : DOMAIN new \subseteq {d}
      /\ \A d \in DOMAIN new : /\ new[d] \in Seq(KeptRecords)
                               /\ \A i \in 1..Len(new[d]) : \E j \in 1..Len(more) : new[d][i] = more[j]
  BY <1>2, <1>6, <1>8, Zenon
<1>10. OneGroup(new, more)
  BY <1>9, Zenon DEF OneGroup
<1> QED BY <1>10, Zenon DEF new, more

LEMMA GroupAppend ==
  ASSUME tlsRecords \in Seq(KeptRecords), GroupInv, NEW k \in KeptRecords, tlsRecords' = Append(tlsRecords, k)
  PROVE  GroupInv'
<1> DEFINE recs == tlsRecords
<1> DEFINE more == Append(recs, k)
<1>1. \E h : Grouping(h, more)
  BY GroupingExtends, Zenon DEF GroupInv
<1>2. ASSUME NEW h, Grouping(h, more) PROVE OneGroup(h[Len(more)], more)
  <2>1. Len(more) = Len(recs) + 1
    OBVIOUS
  <2>2. PICK g : Grouping(g, recs) /\ g[Len(recs)] = h[Len(recs)]
    BY <1>2, GroupingRestricts, Zenon
  <2>3. h[Len(recs) + 1] = GroupStep(h[Len(recs)], k)
    BY <1>2, GroupingRestricts, Zenon
  <2>4. OneGroup(h[Len(recs)], recs)
    BY <2>2, Zenon DEF GroupInv
  <2>5. OneGroup(GroupStep(h[Len(recs)], k), more)
    BY <2>4, JoinsGroup, Zenon
  <2> HIDE DEF more
  <2> QED BY <2>1, <2>3, <2>5, Zenon
<1>3. tlsRecords' = more
  BY Zenon
<1> HIDE DEF more
<1> QED BY <1>1, <1>2, <1>3, Zenon DEF GroupInv

\* The groups of the records so far are one.
LEMMA GroupsAreOne == ASSUME GroupInv PROVE OneGroup(Groups, tlsRecords)
<1> DEFINE recs == tlsRecords
<1> DEFINE c == CHOOSE g : Grouping(g, recs)
<1>1. GroupRecords(recs) = (CHOOSE g : g = [i \in 0..Len(recs) |-> IF i = 0 THEN << >> ELSE GroupStep(g[i - 1], recs[i])])[Len(recs)]
  BY Zenon DEF GroupRecords
<1>2. GroupRecords(recs) = c[Len(recs)]
  BY <1>1, Zenon DEF Grouping
<1>3. Grouping(c, recs)
  BY Zenon DEF GroupInv
<1> HIDE DEF c
<1> QED BY <1>2, <1>3, Zenon DEF GroupInv, Groups

\* What Flush reports of a group is what one of its records has.
LEMMA LastIsOne ==
  ASSUME NEW recs, NEW fields, NEW f
  PROVE  LET last == LastWith(recs, fields) IN
         last # {} => \E i \in DOMAIN recs : recs[i] = (CHOOSE r \in last : TRUE) /\ ValueIn(last, f) = recs[i][f]
  BY Zenon DEF LastWith, ValueIn

----------------------------------------------------------------------------
(* websocket. *)

\* A connection that is put under a key has the frames that are new there.
LEMMA PutCounts ==
  ASSUME WsInv, NEW key \in Ends, NEW conn \in [frames : Nat, upgraded : BOOLEAN], wsConns' = Put(key, conn)
  PROVE  /\ DOMAIN wsConns' = DOMAIN wsConns \cup {key}
         /\ \A e \in DOMAIN wsConns' : wsConns'[e] \in [frames : Nat, upgraded : BOOLEAN]
         /\ Count(key)' = conn.frames
         /\ \A e \in Ends : e # key => Count(e)' = Count(e)
<1>1. wsConns' = [e \in DOMAIN wsConns \cup {key} |-> IF e = key THEN conn ELSE wsConns[e]]
  BY Zenon DEF Put
<1>2. DOMAIN wsConns' = DOMAIN wsConns \cup {key} /\ wsConns'[key] = conn
      /\ \A e \in DOMAIN wsConns : e # key => wsConns'[e] = wsConns[e]
  BY <1>1, Zenon
<1>3. \A e \in DOMAIN wsConns' : wsConns'[e] \in [frames : Nat, upgraded : BOOLEAN]
  BY <1>2, Zenon DEF WsInv
<1>4. Count(key)' = conn.frames
  BY <1>2, Zenon DEF Count
<1>5. \A e \in Ends : e # key => Count(e)' = Count(e)
  BY <1>2, Zenon DEF Count
<1> QED BY <1>2, <1>3, <1>4, <1>5, Zenon

LEMMA ConnFound ==
  ASSUME WsInv, NEW key \in Ends
  PROVE  GetOrCreate(key) \in [frames : Nat, upgraded : BOOLEAN] /\ GetOrCreate(key).frames = Count(key) /\ Count(key) \in Nat
<1>1. CASE key \in DOMAIN wsConns
  <2>1. GetOrCreate(key) = wsConns[key] /\ Count(key) = wsConns[key].frames /\ wsConns[key] \in [frames : Nat, upgraded : BOOLEAN]
    BY <1>1, Zenon DEF GetOrCreate, Count, WsInv
  <2>2. \A c \in [frames : Nat, upgraded : BOOLEAN] : c.frames \in Nat
    BY Zenon
  <2> QED BY <2>1, <2>2, Zenon
<1>2. CASE key \notin DOMAIN wsConns
  <2>1. GetOrCreate(key) = NewConn /\ Count(key) = 0
    BY <1>2, Zenon DEF GetOrCreate, Count
  <2>2. NewConn \in [frames : Nat, upgraded : BOOLEAN] /\ NewConn.frames = 0 /\ 0 \in Nat
    BY Zenon DEF NewConn
  <2> QED BY <2>1, <2>2, Zenon
<1> QED BY <1>1, <1>2, Zenon

LEMMA ConnSet ==
  /\ \A c \in [frames : Nat, upgraded : BOOLEAN] :
       LET d == [c EXCEPT !.upgraded = TRUE] IN d \in [frames : Nat, upgraded : BOOLEAN] /\ d.frames = c.frames
  /\ \A c \in [frames : Nat, upgraded : BOOLEAN] :
       LET d == [c EXCEPT !.frames = @ + 1] IN d \in [frames : Nat, upgraded : BOOLEAN] /\ d.frames = c.frames + 1
<1>1. ASSUME NEW c \in [frames : Nat, upgraded : BOOLEAN]
      PROVE  LET d == [c EXCEPT !.upgraded = TRUE] IN d \in [frames : Nat, upgraded : BOOLEAN] /\ d.frames = c.frames
  BY Zenon
<1>2. ASSUME NEW c \in [frames : Nat, upgraded : BOOLEAN]
      PROVE  LET d == [c EXCEPT !.frames = @ + 1] IN d \in [frames : Nat, upgraded : BOOLEAN] /\ d.frames = c.frames + 1
  OBVIOUS
<1> QED BY <1>1, <1>2, Zenon

LEMMA UpgradeStep == ASSUME WsInv, NEW kind \in {"request", "answer"}, Upgrade(kind) PROVE WsInv'
<1> DEFINE conn == [GetOrCreate("client") EXCEPT !.upgraded = TRUE]
<1>1. conn \in [frames : Nat, upgraded : BOOLEAN] /\ conn.frames = Count("client") /\ Count("client") \in Nat
  BY ConnFound, ConnSet, EndsTwo, Zenon
<1>2. wsConns' = Put("client", conn) /\ wsPort' = wsPort /\ wsFrames' = wsFrames /\ wsFirst' = IF wsFirst = "none" THEN kind ELSE wsFirst
  BY Zenon DEF Upgrade
<1> HIDE DEF conn
<1>3. /\ DOMAIN wsConns' = DOMAIN wsConns \cup {"client"}
      /\ \A e \in DOMAIN wsConns' : wsConns'[e] \in [frames : Nat, upgraded : BOOLEAN]
      /\ Count("client")' = Count("client") /\ Count("server")' = Count("server")
  BY <1>1, <1>2, PutCounts, EndsTwo, Zenon
<1>4. DOMAIN wsConns' \subseteq Ends
  BY <1>3, EndsTwo, Zenon DEF WsInv
<1>5. wsFirst' # "none"
  BY <1>2, Zenon
<1>6. wsFirst' \in {"request", "answer"} => DOMAIN wsConns' = {"client"}
  <2>1. wsFirst' \in {"request", "answer"} => wsFirst = "none" \/ wsFirst \in {"request", "answer"}
    BY <1>2, Zenon
  <2>2. wsFirst' \in {"request", "answer"} => DOMAIN wsConns = {} \/ DOMAIN wsConns = {"client"}
    BY <2>1, Zenon DEF WsInv
  <2> QED BY <1>3, <2>2, Zenon
<1> QED BY <1>2, <1>3, <1>4, <1>5, <1>6, Zenon DEF WsInv

LEMMA FrameStep == ASSUME WsInv, NEW end \in Ends, Frame(end) PROVE WsInv'
<1>a. FrameKey(end) \in Ends
  BY EndsTwo, Zenon DEF FrameKey
<1>b. PICK key \in Ends : key = FrameKey(end)
  BY <1>a, Zenon
<1>1. key \in Ends /\ (key \notin DOMAIN wsConns => key = end /\ Other(end) \notin DOMAIN wsConns)
  BY <1>b, Zenon DEF FrameKey
<1>2. CASE key \in DOMAIN wsConns \/ wsPort
  <2> DEFINE conn == [GetOrCreate(key) EXCEPT !.frames = @ + 1]
  <2>1. conn \in [frames : Nat, upgraded : BOOLEAN] /\ conn.frames = Count(key) + 1
    <3>1. GetOrCreate(key) \in [frames : Nat, upgraded : BOOLEAN] /\ GetOrCreate(key).frames = Count(key)
      BY <1>1, ConnFound, Zenon
    <3> QED BY <3>1, ConnSet, Zenon
  <2>2. /\ wsConns' = Put(key, conn) /\ wsFrames' = wsFrames + 1 /\ wsPort' = wsPort
        /\ wsFirst' = IF wsFirst = "none" THEN "frame" ELSE wsFirst
    BY <1>b, <1>2, Zenon DEF Frame
  <2> HIDE DEF conn
  <2>3. /\ DOMAIN wsConns' = DOMAIN wsConns \cup {key}
        /\ \A e \in DOMAIN wsConns' : wsConns'[e] \in [frames : Nat, upgraded : BOOLEAN]
        /\ Count(key)' = conn.frames
        /\ \A e \in Ends : e # key => Count(e)' = Count(e)
    BY <1>1, <2>1, <2>2, PutCounts, Zenon
  <2>4. DOMAIN wsConns' \subseteq Ends
    BY <1>1, <2>3, Zenon DEF WsInv
  <2>5. Count("client")' + Count("server")' = wsFrames'
    <3>1. Count("client") \in Nat /\ Count("server") \in Nat /\ Count("client") + Count("server") = wsFrames
      BY ConnFound, EndsTwo, Zenon DEF WsInv
    <3>2. CASE key = "client"
      <4>1. Count("client")' = Count("client") + 1 /\ Count("server")' = Count("server")
        BY <2>1, <2>3, <3>2, EndsTwo, Zenon
      <4> QED BY <2>2, <3>1, <4>1
    <3>3. CASE key = "server"
      <4>1. Count("server")' = Count("server") + 1 /\ Count("client")' = Count("client")
        BY <2>1, <2>3, <3>3, EndsTwo, Zenon
      <4> QED BY <2>2, <3>1, <4>1
    <3> QED BY <1>1, <3>2, <3>3, EndsTwo, Zenon
  <2>6. wsFirst' # "none"
    BY <2>2, Zenon
  <2>7. wsFirst' \in {"request", "answer"} => DOMAIN wsConns' = {"client"}
    <3>1. SUFFICES ASSUME wsFirst' \in {"request", "answer"} PROVE DOMAIN wsConns' = {"client"}
      BY Zenon
    <3>2. wsFirst # "none" /\ wsFirst \in {"request", "answer"}
      BY <2>2, <3>1, Zenon
    <3>3. DOMAIN wsConns = {"client"}
      BY <3>2, Zenon DEF WsInv
    <3>4. key = "client"
      <4>1. CASE key \in DOMAIN wsConns
        BY <3>3, <4>1, Zenon
      <4>2. CASE key \notin DOMAIN wsConns
        <5>1. Other(end) # "client" /\ end # "client"
          BY <1>1, <3>3, <4>2, Zenon
        <5> QED BY <5>1, EndsTwo, Zenon
      <4> QED BY <4>1, <4>2, Zenon
    <3> QED BY <2>3, <3>3, <3>4, Zenon
  <2>8. wsFrames' \in Nat /\ wsPort' \in BOOLEAN
    <3>1. wsFrames \in Nat /\ wsPort \in BOOLEAN
      BY Zenon DEF WsInv
    <3>2. wsFrames' \in Nat
      BY <2>2, <3>1
    <3> QED BY <2>2, <3>1, <3>2, Zenon
  <2> QED BY <2>3, <2>4, <2>5, <2>6, <2>7, <2>8, Zenon DEF WsInv
<1>3. CASE ~(key \in DOMAIN wsConns \/ wsPort)
  <2>1. wsConns' = wsConns /\ wsPort' = wsPort /\ wsFrames' = wsFrames /\ wsFirst' = wsFirst
    BY <1>b, <1>3, Zenon DEF Frame, wsVars
  <2> QED BY <2>1, Zenon DEF WsInv, Count
<1> QED BY <1>2, <1>3, Zenon

----------------------------------------------------------------------------
(* The connection. *)

LEMMA ConnInitInv == ASSUME ConnInit PROVE ConnInv
<1>1. tlsRecords = << >> /\ fromStream = << >> /\ ccsSeen = {} /\ ccsSent = {} /\ ccsInside = FALSE /\ onStream \in BOOLEAN
  BY Zenon DEF ConnInit
<1>2. Len(<< >>) = 0 /\ 1..0 = {} /\ 0..0 = {0} /\ << >> \in Seq(KeptRecords) /\ << >> \in Seq(SentRecords) /\ DOMAIN << >> = {}
  OBVIOUS
<1>3. TlsInv
  BY <1>1, <1>2, Zenon DEF TlsInv, TlsTypes, SeenIsSent, SentIsSeen, CcsFirst, StreamOnly, ReadRight
<1>4. GroupInv
  <2> DEFINE g == [i \in 0..0 |-> << >>]
  <2> DEFINE f == [i \in 0..0 |-> IF i = 0 THEN << >> ELSE GroupStep(g[i - 1], tlsRecords[i])]
  <2>1. g = f
    <3>1. \A i \in 0..0 : g[i] = f[i]
      BY <1>2, Zenon
    <3> QED BY <3>1, Zenon
  <2>2. Grouping(g, tlsRecords)
    BY <1>1, <1>2, <2>1, Zenon DEF Grouping
  <2>3. ASSUME NEW h, Grouping(h, tlsRecords) PROVE OneGroup(h[Len(tlsRecords)], tlsRecords)
    <3>1. h[0] = << >>
      BY <1>1, <1>2, <2>3, Zenon DEF Grouping
    <3> QED BY <1>1, <1>2, <3>1, EndsTwo, Zenon DEF OneGroup
  <2> HIDE DEF g
  <2> QED BY <2>2, <2>3, Zenon DEF GroupInv
<1>5. WsInv
  <2>1. wsConns = << >> /\ wsPort \in BOOLEAN /\ wsFrames = 0 /\ wsFirst = "none"
    BY Zenon DEF ConnInit
  <2>2. DOMAIN wsConns = {} /\ Count("client") = 0 /\ Count("server") = 0
    BY <1>2, <2>1, Zenon DEF Count
  <2>3. 0 \in Nat /\ 0 + 0 = 0
    OBVIOUS
  <2>4. wsFirst \notin {"request", "answer"}
    BY <2>1, Zenon
  <2> QED BY <2>1, <2>2, <2>3, <2>4, Zenon DEF WsInv
<1> QED BY <1>3, <1>4, <1>5, Zenon DEF ConnInv

LEMMA ConnStep == ASSUME ConnInv, [ConnNext]_connVars PROVE ConnInv'
<1>1. ASSUME UNCHANGED wsVars PROVE WsInv'
  BY <1>1, Zenon DEF wsVars, ConnInv, WsInv, Count
<1>2. ASSUME UNCHANGED tlsVars PROVE TlsInv' /\ GroupInv'
  <2>1. /\ tlsRecords' = tlsRecords /\ ccsSeen' = ccsSeen /\ ccsSent' = ccsSent /\ ccsInside' = ccsInside
        /\ fromStream' = fromStream /\ onStream' = onStream
    BY <1>2, Zenon DEF tlsVars
  <2>2. TlsTypes' /\ SeenIsSent' /\ CcsFirst' /\ StreamOnly'
    BY <2>1, Zenon DEF ConnInv, TlsInv, TlsTypes, SeenIsSent, CcsFirst, StreamOnly
  <2>3. SentIsSeen' /\ ReadRight'
    BY <2>1, Zenon DEF ConnInv, TlsInv, SentIsSeen, ReadRight, Reads
  <2>4. GroupInv'
    BY <2>1, Zenon DEF ConnInv, GroupInv
  <2> QED BY <2>2, <2>3, <2>4, Zenon DEF TlsInv
<1>3. tlsRecords \in Seq(KeptRecords) /\ fromStream \in Seq(SentRecords)
  BY Zenon DEF ConnInv, TlsInv, TlsTypes
<1>4. ASSUME NEW r \in SentRecords, ParseTLS(r) PROVE GroupInv'
  <2>1. PICK k \in KeptRecords : tlsRecords' = Append(tlsRecords, k)
    BY <1>4, ParseAdds, Zenon
  <2> QED BY <1>3, <2>1, GroupAppend, Zenon DEF ConnInv
<1>5. ASSUME NEW end \in Ends, TlsSegment(end) PROVE ConnInv'
  <2>1. PICK p \in Payloads(end) : ParseTLS(p[1])
    BY <1>5, Zenon DEF TlsSegment
  <2>2. p \in Seq(SentRecords) /\ (Len(p) = 1 \/ Len(p) = 2)
    BY PayloadForms, Zenon
  <2>3. p[1] \in SentRecords
    BY <2>2
  <2>4. GroupInv'
    BY <1>4, <2>1, <2>3, Zenon
  <2>5. TlsInv'
    BY <1>5, SegmentStep, Zenon DEF ConnInv
  <2> QED BY <1>1, <1>5, <2>4, <2>5, Zenon DEF TlsSegment, ConnInv
<1>6. ASSUME TlsReassembled PROVE ConnInv'
  <2>1. ParseTLS(Head(fromStream)) /\ fromStream # << >> /\ UNCHANGED wsVars
    BY <1>6, Zenon DEF TlsReassembled
  <2>2. Head(fromStream) \in SentRecords
    BY <1>3, <2>1
  <2>3. GroupInv'
    BY <1>4, <2>1, <2>2, Zenon
  <2>4. TlsInv'
    BY <1>6, ReassembledStep, Zenon DEF ConnInv
  <2> QED BY <1>1, <2>1, <2>3, <2>4, Zenon DEF ConnInv
<1>7. ASSUME WsNext PROVE ConnInv'
  <2>1. WsInv'
    BY <1>7, UpgradeStep, FrameStep, Zenon DEF WsNext, ConnInv
  <2>2. UNCHANGED tlsVars
    BY <1>7, Zenon DEF WsNext
  <2> QED BY <1>2, <2>1, <2>2, Zenon DEF ConnInv
<1>8. CASE UNCHANGED connVars
  <2>1. UNCHANGED wsVars /\ UNCHANGED tlsVars
    BY <1>8, Zenon DEF connVars, wsVars, tlsVars
  <2> QED BY <1>1, <1>2, <2>1, Zenon DEF ConnInv
<1> QED BY <1>5, <1>6, <1>7, <1>8, Zenon DEF ConnNext, TlsNext

LEMMA PlaintextFromInv == ASSUME ConnInv PROVE PlaintextRead
<1>1. DOMAIN tlsRecords = 1..Len(tlsRecords)
  BY DEF ConnInv, TlsInv, TlsTypes
<1>2. HelloRead
  BY <1>1, Zenon DEF HelloRead, ConnInv, TlsInv, ReadRight
<1>3. CipherNegotiated
  <2>1. SUFFICES ASSUME Reads, NEW e \in DOMAIN Groups PROVE TlsFlow(Groups[e]).cipher # "ciphertext"
    BY Zenon DEF CipherNegotiated, Reads
  <2> DEFINE recs == Groups[e]
  <2> DEFINE last == LastWith(recs, {"cipher"})
  <2>2. TlsFlow(recs).cipher = ValueIn(last, "cipher")
    BY Zenon DEF TlsFlow
  <2>3. recs \in Seq(KeptRecords) /\ \A i \in 1..Len(recs) : \E j \in 1..Len(tlsRecords) : recs[i] = tlsRecords[j]
    BY <2>1, GroupsAreOne, Zenon DEF ConnInv, OneGroup
  <2>4. DOMAIN recs = 1..Len(recs)
    BY <2>3
  <2> HIDE DEF recs
  <2>5. \A i \in DOMAIN recs : recs[i].cipher # "ciphertext"
    BY <2>1, <2>3, <2>4, Zenon DEF ConnInv, TlsInv, ReadRight
  <2>6. ValueIn(last, "cipher") # "ciphertext"
    <3>1. CASE last = {}
      BY <3>1, Zenon DEF ValueIn
    <3>2. CASE last # {}
      <4>1. PICK i \in DOMAIN recs : ValueIn(last, "cipher") = recs[i]["cipher"]
        BY <3>2, LastIsOne
      <4> QED BY <2>5, <4>1, Zenon
    <3> QED BY <3>1, <3>2, Zenon
  <2> HIDE DEF last
  <2> QED BY <2>2, <2>6, Zenon DEF recs
<1> QED BY <1>2, <1>3, Zenon DEF PlaintextRead

LEMMA JoinedFromInv == ASSUME ConnInv PROVE EndsJoined
<1>1. OneTlsFlow
  <2>1. PICK e \in Ends : DOMAIN Groups \subseteq {e}
    BY GroupsAreOne, Zenon DEF ConnInv, OneGroup
  <2>2. IsFiniteSet({e}) /\ Cardinality({e}) = 1
    BY FS_Singleton, Zenon
  <2>3. Cardinality(DOMAIN Groups) <= Cardinality({e})
    BY <2>1, <2>2, FS_Subset, Zenon
  <2> QED BY <2>2, <2>3, Zenon DEF OneTlsFlow
<1>2. CertPaired
  <2>1. SUFFICES ASSUME NEW recs, CertOf(recs) # <<"", "">>
                 PROVE \E i \in DOMAIN recs : <<recs[i].subject, recs[i].issuer>> = CertOf(recs)
    BY Zenon DEF CertPaired
  <2> DEFINE last == LastWith(recs, {"subject", "issuer"})
  <2>2. CertOf(recs) = <<ValueIn(last, "subject"), ValueIn(last, "issuer")>>
    BY Zenon DEF CertOf
  <2>3. last # {}
    BY <2>1, <2>2, Zenon DEF ValueIn
  <2>4. PICK i \in DOMAIN recs : recs[i] = (CHOOSE r \in last : TRUE)
    BY <2>3, LastIsOne, Zenon
  <2>5. ValueIn(last, "subject") = recs[i]["subject"] /\ ValueIn(last, "issuer") = recs[i]["issuer"]
    BY <2>3, <2>4, Zenon DEF ValueIn
  <2> HIDE DEF last
  <2>6. recs[i]["subject"] = recs[i].subject /\ recs[i]["issuer"] = recs[i].issuer
    BY Zenon
  <2>7. <<recs[i].subject, recs[i].issuer>> = CertOf(recs)
    BY <2>2, <2>5, <2>6, Zenon
  <2> QED BY <2>7, Zenon
<1>3. WsFramesOnce
  BY Zenon DEF WsFramesOnce, ConnInv, WsInv, Count
<1> QED BY <1>1, <1>2, <1>3, Zenon DEF EndsJoined

\* However many segments: parseTLS never takes ciphertext for a handshake, so that the
\* cipher of a flow is never read from it, and always reads an end that has not changed
\* its cipher; on a reassembled stream, or if each ChangeCipherSpec begins its segment.
THEOREM PlaintextReadAlways == ConnSpec => []PlaintextRead
<1>1. ConnInit => ConnInv
  BY ConnInitInv, Zenon
<1>2. ConnInv /\ [ConnNext]_connVars => ConnInv'
  BY ConnStep, Zenon
<1>3. ConnInv => PlaintextRead
  BY PlaintextFromInv, Zenon
<1> QED BY <1>1, <1>2, <1>3, PTL DEF ConnSpec

\* However many records and frames, in any order of the two ends: Flush makes one flow of
\* a connection's records with one record's certificate, and each WebSocket frame is
\* counted on one connection.
THEOREM EndsJoinedAlways == ConnSpec => []EndsJoined
<1>1. ConnInit => ConnInv
  BY ConnInitInv, Zenon
<1>2. ConnInv /\ [ConnNext]_connVars => ConnInv'
  BY ConnStep, Zenon
<1>3. ConnInv => EndsJoined
  BY JoinedFromInv, Zenon
<1> QED BY <1>1, <1>2, <1>3, PTL DEF ConnSpec

----------------------------------------------------------------------------
(* Exchanges. *)

ExchangeSpec == ExchangeInit /\ [][ExchangeNext]_exchangeVars

Keys == IF decoder = "dns" THEN TxIds ELSE Clients
Transactions ==
  [begun : Int, client : Clients, soap : {"none", "soap", "other"}, reply : Int, status : Nat,
   from : Clients \cup {"none"}, error : BOOLEAN]
IsOpen(k) == pend[k] # NoRequest

TableTypes ==
  /\ decoder \in {"dns", "http1", "ajp"} /\ assembled \in BOOLEAN /\ (decoder = "dns" => ~assembled)
  /\ wire \in Nat /\ requested \subseteq Nat /\ (\A r \in requested : r < wire)
  /\ replaced \subseteq requested
  /\ pend \in [Keys -> {NoRequest} \cup Transactions]
  /\ done \in Seq(Transactions)

\* An open request is not in the list of completed exchanges, nor open under another key.
OpenOnce ==
  \A k \in Keys : IsOpen(k) =>
    /\ pend[k].begun \in requested /\ pend[k].begun \notin replaced
    /\ \A i \in 1..Len(done) : done[i].begun # pend[k].begun
OpenApart == \A k, l \in Keys : IsOpen(k) /\ IsOpen(l) /\ k # l => pend[k].begun # pend[l].begun

\* A completed exchange begins with a packet so far, and no two with the same request.
DoneBefore == \A i \in 1..Len(done) : done[i].begun < wire /\ done[i].begun \notin replaced
DoneApart ==
  \A i, j \in 1..Len(done) : i # j /\ done[i].begun \in requested => done[j].begun # done[i].begun

\* Every request is replaced, open, or in a completed exchange.
Accounted ==
  \A r \in requested : \/ r \in replaced
                       \/ \E k \in Keys : IsOpen(k) /\ pend[k].begun = r
                       \/ \E i \in 1..Len(done) : done[i].begun = r

OnceInv == OpenOnce /\ OpenApart /\ DoneBefore /\ DoneApart /\ Accounted

\* An exchange that is completed.
Joined(tx) ==
  /\ decoder # "dns" => /\ Answered(tx) => tx.from = tx.client /\ tx.begun < tx.reply
                        /\ tx.begun # -1 => tx.begun \in requested
  /\ ~Answered(tx) => decoder = "ajp" /\ ~tx.error

\* An exchange that is open under the key k.
Joining(k, tx) ==
  /\ decoder # "dns" => tx.client = k
  /\ Answered(tx) => decoder = "ajp" /\ tx.from = tx.client /\ tx.begun < tx.reply
  /\ ~Answered(tx) => ~tx.error

JoinInv ==
  /\ \A k \in Keys : IsOpen(k) => Joining(k, pend[k])
  /\ \A i \in 1..Len(done) : Joined(done[i])

Sane(m) ==
  /\ m.kind \in {"request", "answer", "headers", "end"} /\ m.client \in Clients
  /\ m.soap \in {"none", "soap", "other"} /\ m.status \in Nat /\ Key(m) \in Keys

\* The message that the assembler will send was handled as a segment.
CopyInv ==
  copy # NoMessage =>
    /\ decoder # "dns" /\ Sane(copy) /\ copy.at \in Nat /\ copy.at + 1 = wire
    /\ copy.kind = "request" =>
         copy.at \in requested /\ IsOpen(Key(copy)) /\ pend[Key(copy)].begun = copy.at
    /\ copy.kind # "request" => \A r \in requested : r < copy.at

ExchangeInv == TableTypes /\ OnceInv /\ JoinInv /\ CopyInv

\* A message that comes next, as a segment or again.
Due(m) ==
  /\ Sane(m) /\ m.at \in Nat /\ wire' \in Nat /\ m.at < wire' /\ wire <= wire'
  /\ m.kind = "request" =>
       (IsOpen(Key(m)) /\ pend[Key(m)].begun = m.at /\ m.at \in requested) \/ m.at = wire
  /\ m.kind # "request" => \A r \in requested : r < m.at

LEMMA OpenTyped ==
  ASSUME TableTypes, NEW k \in Keys, IsOpen(k)
  PROVE  pend[k] \in Transactions
  BY Zenon DEF TableTypes, IsOpen

LEMMA OpenFields ==
  ASSUME NEW at \in Int, NEW client \in Clients, NEW soap \in {"none", "soap", "other"}
  PROVE  /\ Open(at, client, soap) \in Transactions
         /\ Open(at, client, soap).begun = at /\ Open(at, client, soap).client = client
         /\ Open(at, client, soap).reply = -1 /\ ~Open(at, client, soap).error
  BY DEF Open, Transactions

\* What is before a packet is before the later ones.
LEMMA StillBefore ==
  ASSUME TableTypes, OnceInv, wire' \in Nat, wire <= wire'
  PROVE  /\ \A r \in requested : r < wire'
         /\ \A i \in 1..Len(done) : done[i].begun < wire'
<1>1. \A r \in requested : r < wire'
  BY DEF TableTypes
<1>2. ASSUME NEW i \in 1..Len(done)
      PROVE  done[i].begun < wire'
  <2>1. done[i] \in Transactions
    BY DEF TableTypes
  <2>2. done[i].begun \in Int
    BY <2>1, Zenon DEF Transactions
  <2>3. done[i].begun < wire
    BY Zenon DEF OnceInv, DoneBefore
  <2> QED BY <2>2, <2>3 DEF TableTypes
<1> QED BY <1>1, <1>2, Zenon

LEMMA TakeStep ==
  ASSUME TableTypes, OnceInv, JoinInv, NEW m, Due(m), m.kind = "request", Take(m),
         UNCHANGED <<decoder, assembled>>
  PROVE  /\ TableTypes' /\ OnceInv' /\ JoinInv'
         /\ m.at \in requested' /\ pend'[Key(m)] # NoRequest /\ pend'[Key(m)].begun = m.at
<1> DEFINE k == Key(m)
           tx == Open(m.at, m.client, m.soap)
<1>1. k \in Keys /\ m.at \in Nat /\ m.client \in Clients /\ m.soap \in {"none", "soap", "other"}
  BY Zenon DEF Due, Sane
<1>2. tx \in Transactions /\ tx.begun = m.at /\ tx.client = m.client /\ tx.reply = -1 /\ ~tx.error
  BY <1>1, OpenFields
<1>3. tx # NoRequest
  BY <1>1, <1>2 DEF NoRequest
<1>4. pend' = [pend EXCEPT ![k] = tx] /\ requested' = requested \cup {m.at} /\ done' = done
  BY Zenon DEF Take
<1>5. replaced' = IF pend[k].begun \in {-1, m.at} THEN replaced ELSE replaced \cup {pend[k].begun}
  BY Zenon DEF Take
<1>6. Keys' = Keys
  BY Zenon DEF Keys
<1>7. \A l \in Keys : pend'[l] = IF l = k THEN tx ELSE pend[l]
  BY <1>4, Zenon DEF TableTypes
<1>8. \A l \in Keys : IsOpen(l)' <=> (l = k \/ IsOpen(l))
  BY <1>3, <1>7, Zenon DEF IsOpen
<1>9. pend' \in [Keys -> {NoRequest} \cup Transactions]
  BY <1>2, <1>4, Zenon DEF TableTypes
<1>10. \/ replaced' = replaced
       \/ IsOpen(k) /\ pend[k].begun # m.at /\ replaced' = replaced \cup {pend[k].begun}
  <2>1. CASE IsOpen(k)
    BY <1>5, <2>1, Zenon
  <2>2. CASE ~IsOpen(k)
    <3>1. pend[k].begun = -1
      BY <2>2 DEF IsOpen, NoRequest
    <3> QED BY <1>5, <3>1, Zenon
  <2> QED BY <2>1, <2>2, Zenon
<1>11. \A l \in Keys : IsOpen(l) => pend[l].begun \in requested /\ pend[l].begun \notin replaced
  BY Zenon DEF OnceInv, OpenOnce
<1>12. /\ \A l \in Keys : IsOpen(l) /\ l # k => pend[l].begun # m.at
       /\ \A i \in 1..Len(done) : done[i].begun # m.at
       /\ m.at \notin replaced
  <2>1. CASE IsOpen(k) /\ pend[k].begun = m.at
    <3>1. /\ \A l \in Keys : IsOpen(l) /\ l # k => pend[l].begun # pend[k].begun
          /\ \A i \in 1..Len(done) : done[i].begun # pend[k].begun
      BY <1>1, <2>1, Zenon DEF OnceInv, OpenOnce, OpenApart
    <3> QED BY <1>1, <1>11, <2>1, <3>1, Zenon
  <2>2. CASE m.at = wire
    <3>1. \A r \in requested : r # m.at
      BY <2>2 DEF TableTypes
    <3>2. \A i \in 1..Len(done) : done[i].begun # m.at
      BY <2>2 DEF OnceInv, DoneBefore, TableTypes
    <3> QED BY <1>11, <3>1, <3>2, Zenon DEF TableTypes
  <2> QED BY <2>1, <2>2, Zenon DEF Due
<1>13. replaced' \subseteq requested' /\ m.at \notin replaced'
  BY <1>1, <1>4, <1>10, <1>11, <1>12, Zenon DEF TableTypes
<1>14. \A l \in Keys : IsOpen(l)' /\ l # k => IsOpen(l) /\ pend'[l] = pend[l]
  BY <1>7, <1>8, Zenon
<1>15. pend'[k].begun = m.at
  BY <1>1, <1>2, <1>7, Zenon
<1>20. TableTypes'
  <2>1. requested' \subseteq Nat /\ \A r \in requested' : r < wire'
    <3>1. \A r \in requested : r < wire'
      BY DEF TableTypes, Due
    <3> QED BY <1>1, <1>4, <3>1, Zenon DEF TableTypes, Due
  <2> QED BY <1>4, <1>6, <1>9, <1>13, <2>1, Zenon DEF TableTypes, Due
<1>21. OnceInv'
  <2>1. ASSUME NEW l \in Keys, IsOpen(l)'
        PROVE  /\ pend'[l].begun \in requested' /\ pend'[l].begun \notin replaced'
               /\ \A i \in 1..Len(done) : done[i].begun # pend'[l].begun
    <3>1. CASE l = k
      <4>1. pend'[l].begun = m.at
        BY <1>2, <1>7, <3>1, Zenon
      <4>2. m.at \in requested'
        BY <1>4, Zenon
      <4> QED BY <1>12, <1>13, <4>1, <4>2, Zenon
    <3>2. CASE l # k
      <4>1. IsOpen(l) /\ pend'[l] = pend[l]
        BY <1>7, <1>8, <2>1, <3>2, Zenon
      <4>2. pend[l].begun \notin replaced'
        <5>1. IsOpen(k) => pend[l].begun # pend[k].begun
          BY <1>1, <3>2, <4>1, Zenon DEF OnceInv, OpenApart
        <5> QED BY <1>10, <1>11, <4>1, <5>1, Zenon
      <4>3. pend[l].begun \in requested'
        BY <1>4, <1>11, <4>1, Zenon
      <4>4. \A i \in 1..Len(done) : done[i].begun # pend[l].begun
        BY <4>1, Zenon DEF OnceInv, OpenOnce
      <4> QED BY <4>1, <4>2, <4>3, <4>4, Zenon
    <3> QED BY <3>1, <3>2, Zenon
  <2>2. ASSUME NEW l \in Keys, NEW n \in Keys, IsOpen(l)', IsOpen(n)', l # n
        PROVE  pend'[l].begun # pend'[n].begun
    <3>1. CASE l # k /\ n # k
      BY <1>14, <2>2, <3>1, Zenon DEF OnceInv, OpenApart
    <3>2. CASE l = k
      BY <1>12, <1>14, <1>15, <2>2, <3>2, Zenon
    <3>3. CASE n = k
      BY <1>12, <1>14, <1>15, <2>2, <3>3, Zenon
    <3> QED BY <3>1, <3>2, <3>3, Zenon
  <2>3. ASSUME NEW i \in 1..Len(done)
        PROVE  done[i].begun < wire' /\ done[i].begun \notin replaced'
    <3>1. done[i] \in Transactions
      BY DEF TableTypes
    <3>2. done[i].begun < wire'
      BY <3>1 DEF Transactions, OnceInv, DoneBefore, Due, TableTypes
    <3> QED BY <1>1, <1>10, <3>2, Zenon DEF OnceInv, OpenOnce, DoneBefore
  <2>4. ASSUME NEW i \in 1..Len(done), NEW j \in 1..Len(done), i # j, done[i].begun \in requested'
        PROVE  done[j].begun # done[i].begun
    BY <1>4, <1>12, <2>4, Zenon DEF OnceInv, DoneApart
  <2>5. ASSUME NEW r \in requested'
        PROVE  \/ r \in replaced'
               \/ \E l \in Keys : IsOpen(l)' /\ pend'[l].begun = r
               \/ \E i \in 1..Len(done) : done[i].begun = r
    <3>1. CASE r = m.at
      BY <1>1, <1>2, <1>7, <1>8, <3>1, Zenon
    <3>2. CASE r # m.at
      <4>1. r \in requested
        BY <1>4, <2>5, <3>2, Zenon
      <4>2. CASE r \in replaced
        BY <1>10, <4>2, Zenon
      <4>3. ASSUME NEW l \in Keys, IsOpen(l), pend[l].begun = r
            PROVE  r \in replaced' \/ (IsOpen(l)' /\ pend'[l].begun = r)
        <5>1. CASE l = k
          <6>1. r # -1
            BY <4>1 DEF TableTypes
          <6>2. pend[k].begun = r
            BY <4>3, <5>1, Zenon
          <6> QED BY <1>5, <3>2, <6>1, <6>2, Zenon
        <5>2. CASE l # k
          BY <1>7, <1>8, <4>3, <5>2, Zenon
        <5> QED BY <5>1, <5>2, Zenon
      <4> QED BY <4>1, <4>2, <4>3, Zenon DEF OnceInv, Accounted
    <3> QED BY <3>1, <3>2, Zenon
  <2>6. OpenOnce'
    BY <1>4, <1>6, <2>1, Zenon DEF OpenOnce
  <2>7. OpenApart'
    BY <1>6, <2>2, Zenon DEF OpenApart
  <2>8. DoneBefore' /\ DoneApart'
    BY <1>4, <2>3, <2>4, Zenon DEF DoneBefore, DoneApart
  <2>9. Accounted'
    BY <1>4, <1>6, <2>5, Zenon DEF Accounted
  <2> QED BY <2>6, <2>7, <2>8, <2>9, Zenon DEF OnceInv
<1>22. JoinInv'
  <2>1. ASSUME NEW l \in Keys, IsOpen(l)'
        PROVE  Joining(l, pend'[l])
    <3>1. CASE l = k
      BY <1>2, <1>7, <3>1, Zenon DEF Joining, Answered, Key
    <3>2. CASE l # k
      BY <1>14, <2>1, <3>2, Zenon DEF JoinInv
    <3> QED BY <3>1, <3>2, Zenon
  <2>2. ASSUME NEW i \in 1..Len(done)
        PROVE  Joined(done[i])'
    BY <1>4, Zenon DEF JoinInv, Joined, Answered
  <2> QED BY <1>4, <1>6, <2>1, <2>2, Zenon DEF JoinInv, Joining, Answered, IsOpen
<1> QED BY <1>1, <1>2, <1>3, <1>4, <1>7, <1>20, <1>21, <1>22, Zenon

LEMMA IgnoreStep ==
  ASSUME TableTypes, OnceInv, JoinInv, Ignore, UNCHANGED <<decoder, assembled>>,
         wire' \in Nat, wire <= wire'
  PROVE  TableTypes' /\ OnceInv' /\ JoinInv'
<1>1. /\ pend' = pend /\ done' = done /\ requested' = requested /\ replaced' = replaced
      /\ decoder' = decoder /\ assembled' = assembled
  BY Zenon DEF Ignore
<1>2. Keys' = Keys
  BY <1>1, Zenon DEF Keys
<1>3. /\ \A r \in requested : r < wire'
      /\ \A i \in 1..Len(done) : done[i].begun < wire'
  BY StillBefore, Zenon
<1>4. TableTypes'
  BY <1>1, <1>2, <1>3 DEF TableTypes
<1>6. OpenOnce' /\ OpenApart' /\ DoneApart' /\ Accounted'
  BY <1>1, <1>2 DEF OnceInv, OpenOnce, OpenApart, DoneApart, Accounted, IsOpen
<1>7. DoneBefore'
  BY <1>1, <1>3, Zenon DEF OnceInv, DoneBefore
<1>8. JoinInv'
  BY <1>1, <1>2, Zenon DEF JoinInv, Joined, Joining, IsOpen
<1> QED BY <1>4, <1>6, <1>7, <1>8, Zenon DEF OnceInv

LEMMA CompleteStep ==
  ASSUME TableTypes, OnceInv, JoinInv, NEW m, Sane(m), NEW e \in Transactions, Complete(m, e),
         UNCHANGED <<decoder, assembled, requested, replaced>>, wire' \in Nat, wire <= wire',
         Joined(e),
         \/ IsOpen(Key(m)) /\ e.begun = pend[Key(m)].begun
         \/ ~IsOpen(Key(m)) /\ e.begun < wire' /\ e.begun \notin requested
  PROVE  TableTypes' /\ OnceInv' /\ JoinInv'
<1> DEFINE k == Key(m)
           last == Len(done) + 1
<1>1. k \in Keys
  BY Zenon DEF Sane
<1>2. /\ pend' = [pend EXCEPT ![k] = NoRequest] /\ done' = Append(done, e)
      /\ requested' = requested /\ replaced' = replaced /\ decoder' = decoder /\ assembled' = assembled
  BY Zenon DEF Complete
<1>3. Keys' = Keys
  BY <1>2, Zenon DEF Keys
<1>4. \A l \in Keys : pend'[l] = IF l = k THEN NoRequest ELSE pend[l]
  BY <1>2, Zenon DEF TableTypes
<1>5. \A l \in Keys : IsOpen(l)' => l # k /\ IsOpen(l) /\ pend'[l] = pend[l]
  BY <1>4, Zenon DEF IsOpen
<1>6. \A l \in Keys : IsOpen(l) /\ l # k => IsOpen(l)' /\ pend'[l] = pend[l]
  BY <1>4, Zenon DEF IsOpen
<1>7. /\ done' \in Seq(Transactions) /\ Len(done') = last
      /\ \A i \in 1..Len(done') : i = last \/ i \in 1..Len(done)
      /\ last \in 1..Len(done') /\ last \notin 1..Len(done)
      /\ \A i \in 1..Len(done) : i \in 1..Len(done')
  BY <1>2 DEF TableTypes
<1>8. done'[last] = e /\ \A i \in 1..Len(done) : done'[i] = done[i]
  BY <1>2 DEF TableTypes
<1>9. \A i \in 1..Len(done) : done[i].begun = e.begun => e.begun \notin requested
  BY <1>1, Zenon DEF OnceInv, OpenOnce
<1>10. e.begun < wire' /\ e.begun \notin replaced
  <2>1. CASE IsOpen(k) /\ e.begun = pend[k].begun
    <3>1. pend[k].begun \in requested /\ pend[k].begun \notin replaced
      BY <1>1, <2>1, Zenon DEF OnceInv, OpenOnce
    <3>2. pend[k].begun < wire'
      BY <3>1, StillBefore, Zenon
    <3> QED BY <2>1, <3>1, <3>2, Zenon
  <2>2. CASE e.begun < wire' /\ e.begun \notin requested
    BY <2>2, Zenon DEF TableTypes
  <2> QED BY <2>1, <2>2, Zenon
<1>11. TableTypes'
  <2>1. \A r \in requested : r < wire'
    BY StillBefore, Zenon
  <2>2. pend' \in [Keys -> {NoRequest} \cup Transactions]
    BY <1>2, Zenon DEF TableTypes
  <2> QED BY <1>2, <1>3, <1>7, <2>1, <2>2 DEF TableTypes
<1>12. OpenOnce'
  <2> SUFFICES ASSUME NEW l \in Keys, IsOpen(l)'
               PROVE  /\ pend'[l].begun \in requested' /\ pend'[l].begun \notin replaced'
                      /\ \A i \in 1..Len(done') : done'[i].begun # pend'[l].begun
    BY <1>3, Zenon DEF OpenOnce
  <2>1. l # k /\ IsOpen(l) /\ pend'[l] = pend[l]
    BY <1>5, Zenon
  <2>2. /\ pend[l].begun \in requested /\ pend[l].begun \notin replaced
        /\ \A i \in 1..Len(done) : done[i].begun # pend[l].begun
    BY <2>1, Zenon DEF OnceInv, OpenOnce
  <2>3. e.begun # pend[l].begun
    <3>1. IsOpen(k) => pend[k].begun # pend[l].begun
      BY <1>1, <2>1, Zenon DEF OnceInv, OpenApart
    <3> QED BY <2>2, <3>1, Zenon
  <2>4. \A i \in 1..Len(done') : done'[i].begun # pend[l].begun
    BY <1>7, <1>8, <2>2, <2>3, Zenon
  <2> QED BY <1>2, <2>1, <2>2, <2>4, Zenon
<1>13. OpenApart'
  <2> SUFFICES ASSUME NEW l \in Keys, NEW n \in Keys, IsOpen(l)', IsOpen(n)', l # n
               PROVE  pend'[l].begun # pend'[n].begun
    BY <1>3, Zenon DEF OpenApart
  <2>1. IsOpen(l) /\ pend'[l] = pend[l] /\ IsOpen(n) /\ pend'[n] = pend[n]
    BY <1>5, Zenon
  <2> QED BY <2>1, Zenon DEF OnceInv, OpenApart
<1>14. DoneBefore'
  <2>1. \A i \in 1..Len(done) : done[i].begun < wire'
    BY StillBefore, Zenon
  <2> QED BY <1>2, <1>7, <1>8, <1>10, <2>1, Zenon DEF OnceInv, DoneBefore
<1>15. DoneApart'
  <2> SUFFICES ASSUME NEW i \in 1..Len(done'), NEW j \in 1..Len(done'), i # j,
                      done'[i].begun \in requested
               PROVE  done'[j].begun # done'[i].begun
    BY <1>2, Zenon DEF DoneApart
  <2>1. CASE i = last
    <3>1. j \in 1..Len(done) /\ done'[j] = done[j] /\ done'[i] = e
      BY <1>7, <1>8, <2>1, Zenon
    <3> QED BY <1>9, <3>1, Zenon
  <2>2. CASE j = last
    <3>1. i \in 1..Len(done) /\ done'[i] = done[i] /\ done'[j] = e
      BY <1>7, <1>8, <2>2, Zenon
    <3> QED BY <1>9, <3>1, Zenon
  <2>3. CASE i # last /\ j # last
    <3>1. /\ i \in 1..Len(done) /\ done'[i] = done[i]
          /\ j \in 1..Len(done) /\ done'[j] = done[j]
      BY <1>7, <1>8, <2>3, Zenon
    <3> QED BY <3>1, Zenon DEF OnceInv, DoneApart
  <2> QED BY <2>1, <2>2, <2>3, Zenon
<1>16. Accounted'
  <2> SUFFICES ASSUME NEW r \in requested, r \notin replaced
               PROVE  \/ \E l \in Keys : IsOpen(l)' /\ pend'[l].begun = r
                      \/ \E i \in 1..Len(done') : done'[i].begun = r
    BY <1>2, <1>3, Zenon DEF Accounted
  <2>1. \/ \E l \in Keys : IsOpen(l) /\ pend[l].begun = r
        \/ \E i \in 1..Len(done) : done[i].begun = r
    BY Zenon DEF OnceInv, Accounted
  <2>2. ASSUME NEW l \in Keys, IsOpen(l), pend[l].begun = r, l # k
        PROVE  IsOpen(l)' /\ pend'[l].begun = r
    BY <1>6, <2>2, Zenon
  <2>3. ASSUME IsOpen(k), pend[k].begun = r
        PROVE  done'[last].begun = r
    BY <1>8, <2>3, Zenon
  <2>4. ASSUME NEW i \in 1..Len(done), done[i].begun = r
        PROVE  i \in 1..Len(done') /\ done'[i].begun = r
    BY <1>7, <1>8, <2>4, Zenon
  <2> QED BY <1>7, <2>1, <2>2, <2>3, <2>4, Zenon
<1>17. JoinInv'
  <2>1. \A i \in 1..Len(done') : Joined(done'[i])
    BY <1>7, <1>8, Zenon DEF JoinInv
  <2>2. \A i \in 1..Len(done') : Joined(done'[i]) <=> Joined(done[i])'
    BY <1>2, Zenon DEF Joined
  <2>3. \A l \in Keys : IsOpen(l)' => l # k /\ IsOpen(l) /\ pend'[l] = pend[l]
    BY <1>5, Zenon
  <2> QED BY <1>2, <1>3, <2>1, <2>2, <2>3 DEF JoinInv, Joining, Answered
<1> QED BY <1>11, <1>12, <1>13, <1>14, <1>15, <1>16, <1>17, Zenon DEF OnceInv

LEMMA UpdateStep ==
  ASSUME TableTypes, OnceInv, JoinInv, NEW k \in Keys, IsOpen(k), NEW e \in Transactions,
         e.begun = pend[k].begun, Joining(k, e), pend' = [pend EXCEPT ![k] = e],
         UNCHANGED <<decoder, assembled, done, requested, replaced>>, wire' \in Nat, wire <= wire'
  PROVE  TableTypes' /\ OnceInv' /\ JoinInv'
<1>1. /\ done' = done /\ requested' = requested /\ replaced' = replaced
      /\ decoder' = decoder /\ assembled' = assembled
  BY Zenon
<1>2. Keys' = Keys
  BY <1>1, Zenon DEF Keys
<1>3. /\ \A r \in requested : r < wire'
      /\ \A i \in 1..Len(done) : done[i].begun < wire'
  BY StillBefore, Zenon
<1>4. e # NoRequest
  <2>1. e.begun \in requested
    BY Zenon DEF OnceInv, OpenOnce
  <2> QED BY <2>1 DEF TableTypes, NoRequest
<1>5. \A l \in Keys : pend'[l] = IF l = k THEN e ELSE pend[l]
  BY Zenon DEF TableTypes
<1>6. \A l \in Keys : IsOpen(l)' <=> IsOpen(l)
  BY <1>4, <1>5, Zenon DEF IsOpen
<1>7. \A l \in Keys : pend'[l].begun = pend[l].begun
  BY <1>5, Zenon
<1>8. TableTypes'
  <2>1. pend' \in [Keys -> {NoRequest} \cup Transactions]
    BY Zenon DEF TableTypes
  <2> QED BY <1>1, <1>2, <1>3, <2>1 DEF TableTypes
<1>9. OpenOnce'
  BY <1>1, <1>2, <1>6, <1>7 DEF OnceInv, OpenOnce
<1>10. OpenApart'
  BY <1>2, <1>6, <1>7 DEF OnceInv, OpenApart
<1>11. DoneBefore' /\ DoneApart'
  BY <1>1, <1>3, Zenon DEF OnceInv, DoneBefore, DoneApart
<1>12. Accounted'
  BY <1>1, <1>2, <1>6, <1>7 DEF OnceInv, Accounted
<1>13. JoinInv'
  <2>1. \A l \in Keys : IsOpen(l)' => Joining(l, pend'[l])
    BY <1>5, <1>6, Zenon DEF JoinInv
  <2>2. \A i \in 1..Len(done) : Joined(done[i])'
    BY <1>1, Zenon DEF JoinInv, Joined
  <2> QED BY <1>1, <1>2, <2>1, <2>2, Zenon DEF JoinInv, Joining, Answered
<1> QED BY <1>8, <1>9, <1>10, <1>11, <1>12, <1>13, Zenon DEF OnceInv

\* What an answer m does to the exchange tx that it is for.
Answering(tx, m, error) ==
  [tx EXCEPT !.reply = m.at, !.status = m.status, !.from = m.client, !.error = error]

LEMMA AnswerFields ==
  ASSUME NEW tx \in Transactions, NEW m, m.at \in Nat, m.status \in Nat, m.client \in Clients,
         NEW error \in BOOLEAN
  PROVE  /\ Answering(tx, m, error) \in Transactions
         /\ Answering(tx, m, error).begun = tx.begun /\ Answering(tx, m, error).client = tx.client
         /\ Answering(tx, m, error).reply = m.at /\ Answering(tx, m, error).from = m.client
<1> DEFINE a == [tx EXCEPT !.reply = m.at]
           b == [a EXCEPT !.status = m.status]
           c == [b EXCEPT !.from = m.client]
           d == [c EXCEPT !.error = error]
<1>1. a \in Transactions /\ a.begun = tx.begun /\ a.client = tx.client /\ a.reply = m.at
  BY DEF Transactions
<1>2. ASSUME NEW r \in Transactions
      PROVE  LET x == [r EXCEPT !.status = m.status] IN
             x \in Transactions /\ x.begun = r.begun /\ x.client = r.client /\ x.reply = r.reply
  BY Zenon DEF Transactions
<1>3. ASSUME NEW r \in Transactions
      PROVE  LET x == [r EXCEPT !.from = m.client] IN
             /\ x \in Transactions /\ x.begun = r.begun /\ x.client = r.client /\ x.reply = r.reply
             /\ x.from = m.client
  BY Zenon DEF Transactions
<1>4. ASSUME NEW r \in Transactions
      PROVE  LET x == [r EXCEPT !.error = error] IN
             /\ x \in Transactions /\ x.begun = r.begun /\ x.client = r.client /\ x.reply = r.reply
             /\ x.from = r.from
  BY Zenon DEF Transactions
<1>5. Answering(tx, m, error) = d
  BY Zenon DEF Answering
<1> HIDE DEF a
<1>6. b \in Transactions /\ b.begun = a.begun /\ b.client = a.client /\ b.reply = a.reply
  BY <1>1, <1>2, Zenon
<1> HIDE DEF b
<1>7. /\ c \in Transactions /\ c.begun = b.begun /\ c.client = b.client /\ c.reply = b.reply
      /\ c.from = m.client
  BY <1>3, <1>6, Zenon
<1> HIDE DEF c
<1>8. /\ d \in Transactions /\ d.begun = c.begun /\ d.client = c.client /\ d.reply = c.reply
      /\ d.from = c.from
  BY <1>4, <1>7, Zenon
<1> QED BY <1>1, <1>5, <1>6, <1>7, <1>8, Zenon

\* In dns, an answer without a query begins its exchange.
AnsweringQuery(tx, m, error) ==
  Answering([tx EXCEPT !.begun = IF @ = -1 THEN m.at ELSE @], m, error)

LEMMA QueryFields ==
  ASSUME NEW tx \in Transactions, NEW m, m.at \in Nat, m.status \in Nat, m.client \in Clients,
         NEW error \in BOOLEAN
  PROVE  /\ AnsweringQuery(tx, m, error) \in Transactions
         /\ AnsweringQuery(tx, m, error).reply = m.at
         /\ tx.begun = -1 => AnsweringQuery(tx, m, error).begun = m.at
         /\ tx.begun # -1 => AnsweringQuery(tx, m, error).begun = tx.begun
<1> DEFINE t == [tx EXCEPT !.begun = IF @ = -1 THEN m.at ELSE @]
<1>1. t \in Transactions /\ t.begun = IF tx.begun = -1 THEN m.at ELSE tx.begun
  BY DEF Transactions
<1>2. AnsweringQuery(tx, m, error) = Answering(t, m, error)
  BY Zenon DEF AnsweringQuery
<1> HIDE DEF t
<1>3. /\ Answering(t, m, error) \in Transactions /\ Answering(t, m, error).begun = t.begun
      /\ Answering(t, m, error).reply = m.at
  BY <1>1, AnswerFields, Zenon
<1> QED BY <1>1, <1>2, <1>3, Zenon

\* The exchange that an answer finds, or makes.
LEMMA MatchingFields ==
  ASSUME TableTypes, OnceInv, JoinInv, NEW m, Sane(m)
  PROVE  /\ Matching(m) \in Transactions
         /\ IsOpen(Key(m)) => Matching(m) = pend[Key(m)] /\ Matching(m).begun \in requested
         /\ ~IsOpen(Key(m)) => Matching(m).begun = -1 /\ Matching(m).client = m.client
         /\ decoder # "dns" => Matching(m).client = m.client
<1>1. Key(m) \in Keys /\ m.client \in Clients
  BY Zenon DEF Sane
<1>2. CASE IsOpen(Key(m))
  <2>1. Matching(m) = pend[Key(m)]
    BY <1>2, Zenon DEF Matching, IsOpen
  <2>2. Matching(m) \in Transactions
    BY <1>1, <1>2, <2>1, OpenTyped, Zenon
  <2>3. Matching(m).begun \in requested
    BY <1>1, <1>2, <2>1, Zenon DEF OnceInv, OpenOnce
  <2>4. decoder # "dns" => Matching(m).client = m.client
    BY <1>1, <1>2, <2>1, Zenon DEF JoinInv, Joining, Key
  <2> QED BY <1>2, <2>1, <2>2, <2>3, <2>4, Zenon
<1>3. CASE ~IsOpen(Key(m))
  <2>1. Matching(m) = Open(-1, m.client, "none")
    BY <1>3, Zenon DEF Matching, IsOpen
  <2>2. -1 \in Int /\ "none" \in {"none", "soap", "other"}
    OBVIOUS
  <2> QED BY <1>1, <1>3, <2>1, <2>2, OpenFields
<1> QED BY <1>2, <1>3, Zenon

LEMMA HTTPStep ==
  ASSUME TableTypes, OnceInv, JoinInv, NEW m, Due(m), m.kind # "request", decoder = "http1",
         ParseHTTP(m), UNCHANGED <<decoder, assembled>>
  PROVE  TableTypes' /\ OnceInv' /\ JoinInv' /\ requested' = requested
<1> DEFINE tx == Matching(m)
           e == Answering(tx, m, IsError(tx, m))
<1>1. /\ Sane(m) /\ m.at \in Nat /\ wire' \in Nat /\ m.at < wire' /\ wire <= wire'
      /\ \A r \in requested : r < m.at
  BY Zenon DEF Due
<1>2. Complete(m, e) /\ requested' = requested /\ replaced' = replaced
  BY Zenon DEF ParseHTTP, Answering
<1>3. IsError(tx, m) \in BOOLEAN
  BY Zenon DEF IsError
<1>4. /\ tx \in Transactions /\ tx.client = m.client
      /\ IsOpen(Key(m)) => tx = pend[Key(m)] /\ tx.begun \in requested
      /\ ~IsOpen(Key(m)) => tx.begun = -1
  BY <1>1, MatchingFields, Zenon
<1>5. tx.begun \in Int /\ m.status \in Nat /\ m.client \in Clients
  BY <1>1, <1>4, Zenon DEF Transactions, Sane
<1>6. /\ e \in Transactions /\ e.begun = tx.begun /\ e.reply = m.at /\ e.from = m.client
      /\ e.client = tx.client
  <2> HIDE DEF tx
  <2> QED BY <1>1, <1>3, <1>4, <1>5, AnswerFields, Zenon
<1>p. Answered(e)
  BY <1>1, <1>6 DEF Answered
<1>7. tx.begun < m.at /\ (tx.begun # -1 => tx.begun \in requested)
  BY <1>1, <1>4
<1>8. Joined(e)
  BY <1>4, <1>6, <1>p, <1>7, Zenon DEF Joined
<1>9. \/ IsOpen(Key(m)) /\ e.begun = pend[Key(m)].begun
      \/ ~IsOpen(Key(m)) /\ e.begun < wire' /\ e.begun \notin requested
  <2>1. CASE IsOpen(Key(m))
    BY <1>4, <1>6, <2>1, Zenon
  <2>2. CASE ~IsOpen(Key(m))
    BY <1>1, <1>4, <1>6, <2>2 DEF TableTypes
  <2> QED BY <2>1, <2>2, Zenon
<1> HIDE DEF e
<1> QED BY <1>1, <1>2, <1>6, <1>8, <1>9, CompleteStep, Zenon

LEMMA DNSStep ==
  ASSUME TableTypes, OnceInv, JoinInv, NEW m, Due(m), m.kind # "request", decoder = "dns",
         ParseDNS(m), UNCHANGED <<decoder, assembled>>
  PROVE  TableTypes' /\ OnceInv' /\ JoinInv' /\ requested' = requested
<1> DEFINE tx == Matching(m)
           error == m.status # 0
           e == AnsweringQuery(tx, m, error)
<1>1. /\ Sane(m) /\ m.at \in Nat /\ wire' \in Nat /\ m.at < wire' /\ wire <= wire'
      /\ \A r \in requested : r < m.at
  BY Zenon DEF Due
<1>2. CASE Ignore
  BY <1>1, <1>2, IgnoreStep, Zenon DEF Ignore
<1>3. CASE Complete(m, e) /\ UNCHANGED <<requested, replaced>>
  <2>1. /\ tx \in Transactions
        /\ IsOpen(Key(m)) => tx = pend[Key(m)] /\ tx.begun \in requested
        /\ ~IsOpen(Key(m)) => tx.begun = -1
    BY <1>1, MatchingFields, Zenon
  <2>2. m.status \in Nat /\ m.client \in Clients /\ error \in BOOLEAN
    BY <1>1, Zenon DEF Sane
  <2>3. /\ e \in Transactions /\ e.reply = m.at
        /\ tx.begun = -1 => e.begun = m.at
        /\ tx.begun # -1 => e.begun = tx.begun
    <3> HIDE DEF tx, error
    <3> QED BY <1>1, <2>1, <2>2, QueryFields, Zenon
  <2>4. requested' = requested /\ replaced' = replaced /\ Complete(m, e)
    BY <1>3, Zenon
  <2> HIDE DEF e
  <2>5. Answered(e)
    BY <1>1, <2>3 DEF Answered
  <2>6. Joined(e)
    BY <2>5, Zenon DEF Joined
  <2>7. \/ IsOpen(Key(m)) /\ e.begun = pend[Key(m)].begun
        \/ ~IsOpen(Key(m)) /\ e.begun < wire' /\ e.begun \notin requested
    <3>1. CASE IsOpen(Key(m))
      <4>1. tx.begun # -1
        BY <2>1, <3>1 DEF TableTypes
      <4> QED BY <2>1, <2>3, <3>1, <4>1, Zenon
    <3>2. CASE ~IsOpen(Key(m))
      <4>1. e.begun = m.at
        BY <2>1, <2>3, <3>2, Zenon
      <4> QED BY <1>1, <3>2, <4>1
    <3> QED BY <3>1, <3>2, Zenon
  <2> QED BY <1>1, <2>3, <2>4, <2>6, <2>7, CompleteStep, Zenon
<1> QED BY <1>2, <1>3, Zenon DEF ParseDNS, AnsweringQuery, Answering

LEMMA AJPStep ==
  ASSUME TableTypes, OnceInv, JoinInv, NEW m, Due(m), m.kind # "request", decoder = "ajp",
         ParseAJP(m), UNCHANGED <<decoder, assembled>>
  PROVE  TableTypes' /\ OnceInv' /\ JoinInv' /\ requested' = requested
<1> DEFINE k == Key(m)
           tx == pend[k]
           error == m.status >= 400
           e == Answering(tx, m, error)
<1>1. /\ Sane(m) /\ m.at \in Nat /\ wire' \in Nat /\ m.at < wire' /\ wire <= wire'
      /\ \A r \in requested : r < m.at
  BY Zenon DEF Due
<1>2. /\ k \in Keys /\ k = m.client /\ m.client \in Clients /\ m.status \in Nat
  BY <1>1, Zenon DEF Sane, Key
<1>3. CASE Ignore
  BY <1>1, <1>3, IgnoreStep, Zenon DEF Ignore
<1>4. ASSUME IsOpen(k)
      PROVE  tx \in Transactions /\ tx.begun \in requested /\ tx.client = k /\ tx.begun \in Int
  <2>1. tx \in Transactions /\ tx.begun \in requested /\ tx.client = k
    BY <1>2, <1>4, OpenTyped, Zenon DEF OnceInv, OpenOnce, JoinInv, Joining
  <2> QED BY <2>1, Zenon DEF Transactions
<1>5. CASE IsOpen(k) /\ pend' = [pend EXCEPT ![k] = e] /\ UNCHANGED <<done, requested, replaced>>
  <2>1. error \in BOOLEAN
    OBVIOUS
  <2>2. /\ e \in Transactions /\ e.begun = tx.begun /\ e.reply = m.at /\ e.from = m.client
        /\ e.client = tx.client
    <3>1. tx \in Transactions
      BY <1>4, <1>5, Zenon
    <3> HIDE DEF tx, error
    <3> QED BY <1>1, <1>2, <2>1, <3>1, AnswerFields
  <2>p. Answered(e)
    BY <1>1, <2>2 DEF Answered
  <2>3. tx.begun < m.at
    BY <1>1, <1>4, <1>5, Zenon
  <2>4. Joining(k, e)
    BY <1>2, <1>4, <1>5, <2>2, <2>p, <2>3 DEF Joining
  <2> HIDE DEF e
  <2> QED BY <1>1, <1>2, <1>5, <2>2, <2>4, UpdateStep, Zenon
<1>6. CASE IsOpen(k) /\ Complete(m, tx) /\ UNCHANGED <<requested, replaced>>
  <2>1. Joining(k, tx)
    BY <1>2, <1>6, Zenon DEF JoinInv
  <2>2. Joined(tx)
    BY <1>4, <1>6, <2>1, Zenon DEF Joining, Joined
  <2> QED BY <1>1, <1>4, <1>6, <2>2, CompleteStep, Zenon
<1> QED BY <1>3, <1>5, <1>6, Zenon DEF ParseAJP, IsOpen, Answering

LEMMA HandleStep ==
  ASSUME TableTypes, OnceInv, JoinInv, NEW m, Due(m), Handle(m), UNCHANGED <<decoder, assembled>>
  PROVE  /\ TableTypes' /\ OnceInv' /\ JoinInv'
         /\ m.kind = "request" /\ decoder # "dns" =>
              m.at \in requested' /\ pend'[Key(m)] # NoRequest /\ pend'[Key(m)].begun = m.at
         /\ m.kind # "request" => requested' = requested
<1>1. CASE m.kind = "request"
  <2>1. Take(m) \/ (decoder = "dns" /\ Ignore)
    BY <1>1, Zenon DEF Handle, ParseDNS, ParseHTTP, ParseAJP
  <2>2. CASE Take(m)
    BY <1>1, <2>2, TakeStep, Zenon
  <2>3. CASE decoder = "dns" /\ Ignore
    BY <1>1, <2>3, IgnoreStep, Zenon DEF Due
  <2> QED BY <2>1, <2>2, <2>3, Zenon
<1>2. CASE m.kind # "request"
  BY <1>2, DNSStep, HTTPStep, AJPStep, Zenon DEF Handle
<1> QED BY <1>1, <1>2, Zenon

LEMMA CarriedSane ==
  ASSUME TableTypes, NEW m \in Carried
  PROVE  Sane(m) /\ m.at = wire
<1>1. CASE decoder = "dns"
  <2>1. m \in [kind : {"request", "answer"}, client : Clients, id : TxIds, port : BOOLEAN,
          named : BOOLEAN, status : {0, 3}, soap : {"none"}, at : {wire}]
    BY <1>1, Zenon DEF Carried
  <2> QED BY <1>1, <2>1 DEF Sane, Key, Keys
<1>2. CASE decoder = "http1"
  <2>1. m \in [kind : {"request", "answer"}, client : Clients, status : {200, 500},
          soap : {"none", "soap", "other"}, envelope : BOOLEAN, fault : BOOLEAN, at : {wire}]
    BY <1>2, Zenon DEF Carried
  <2> QED BY <1>2, <2>1 DEF Sane, Key, Keys
<1>3. CASE decoder = "ajp"
  <2>1. m \in [kind : {"request", "headers", "end"}, client : Clients, status : {200, 500},
          soap : {"none"}, at : {wire}]
    BY <1>3, Zenon DEF Carried
  <2> QED BY <1>3, <2>1 DEF Sane, Key, Keys
<1> QED BY <1>1, <1>2, <1>3, Zenon DEF TableTypes

LEMMA ExchangeInitInv ==
  ASSUME ExchangeInit
  PROVE  ExchangeInv
<1>1. /\ pend = [k \in Keys |-> NoRequest] /\ done = << >> /\ requested = {} /\ replaced = {}
      /\ wire = 0 /\ copy = NoMessage
  BY Zenon DEF ExchangeInit, Keys
<1>2. pend \in [Keys -> {NoRequest} \cup Transactions] /\ \A k \in Keys : ~IsOpen(k)
  BY <1>1, Zenon DEF IsOpen
<1>3. wire \in Nat /\ done \in Seq(Transactions) /\ \A i \in 1..Len(done) : FALSE
  BY <1>1
<1>4. TableTypes
  BY <1>1, <1>2, <1>3, Zenon DEF TableTypes, ExchangeInit
<1>5. OnceInv
  BY <1>1, <1>2, <1>3, Zenon DEF OnceInv, OpenOnce, OpenApart, DoneBefore, DoneApart, Accounted
<1>6. JoinInv /\ CopyInv
  BY <1>1, <1>2, <1>3, Zenon DEF JoinInv, CopyInv
<1> QED BY <1>4, <1>5, <1>6, Zenon DEF ExchangeInv

LEMMA ExchangeStep ==
  ASSUME ExchangeInv, [ExchangeNext]_exchangeVars
  PROVE  ExchangeInv'
<1>1. TableTypes /\ OnceInv /\ JoinInv /\ CopyInv /\ wire \in Nat
  BY Zenon DEF ExchangeInv, TableTypes
<1>2. CASE RawSegment
  <2>1. PICK m \in Carried : Handle(m) /\ copy' = IF assembled THEN m ELSE NoMessage
    BY <1>2, Zenon DEF RawSegment
  <2>2. wire' = wire + 1 /\ decoder' = decoder /\ assembled' = assembled
    BY <1>2, Zenon DEF RawSegment
  <2>3. Sane(m) /\ m.at = wire
    BY <1>1, <2>1, CarriedSane, Zenon
  <2>4. m.at \in Nat /\ wire' \in Nat /\ m.at < wire' /\ wire <= wire' /\ m.at + 1 = wire'
    BY <1>1, <2>2, <2>3
  <2>5. \A r \in requested : r < m.at
    BY <1>1, <2>3, Zenon DEF TableTypes
  <2>6. Due(m)
    BY <2>3, <2>4, <2>5, Zenon DEF Due
  <2>7. /\ TableTypes' /\ OnceInv' /\ JoinInv'
        /\ m.kind = "request" /\ decoder # "dns" =>
             m.at \in requested' /\ pend'[Key(m)] # NoRequest /\ pend'[Key(m)].begun = m.at
        /\ m.kind # "request" => requested' = requested
    BY <1>1, <2>1, <2>2, <2>6, HandleStep, Zenon
  <2>8. CopyInv'
    <3> SUFFICES ASSUME copy' # NoMessage
                 PROVE  CopyInv'
      BY Zenon DEF CopyInv
    <3>1. copy' = m /\ decoder # "dns"
      BY <1>1, <2>1, Zenon DEF TableTypes
    <3>2. Key(copy)' = Key(m) /\ Sane(copy)'
      BY <2>2, <2>3, <3>1, Zenon DEF Key, Sane, Keys
    <3>3. m.kind # "request" => \A r \in requested' : r < m.at
      BY <2>5, <2>7, Zenon
    <3> QED BY <2>2, <2>4, <2>7, <3>1, <3>2, <3>3, Zenon DEF CopyInv, IsOpen
  <2> QED BY <2>7, <2>8, Zenon DEF ExchangeInv
<1>3. CASE Reassembled
  <2>1. /\ copy # NoMessage /\ Handle(copy) /\ copy' = NoMessage
        /\ decoder' = decoder /\ assembled' = assembled /\ wire' = wire
    BY <1>3, Zenon DEF Reassembled
  <2>2. PICK m : m = copy
    BY Zenon
  <2>3. m.at \in Nat /\ m.at + 1 = wire
    BY <1>1, <2>1, <2>2, Zenon DEF CopyInv
  <2>4. m.at < wire' /\ wire <= wire' /\ wire' \in Nat
    BY <1>1, <2>1, <2>3
  <2>5. Due(m)
    BY <1>1, <2>1, <2>2, <2>3, <2>4, Zenon DEF CopyInv, Due
  <2>6. TableTypes' /\ OnceInv' /\ JoinInv'
    BY <1>1, <2>1, <2>2, <2>5, HandleStep, Zenon
  <2> QED BY <2>1, <2>6, Zenon DEF ExchangeInv, CopyInv
<1>4. CASE UNCHANGED exchangeVars
  <2>1. /\ decoder' = decoder /\ assembled' = assembled /\ copy' = copy /\ pend' = pend
        /\ done' = done /\ wire' = wire /\ requested' = requested /\ replaced' = replaced
    BY <1>4, Zenon DEF exchangeVars
  <2>2. Keys' = Keys
    BY <2>1, Zenon DEF Keys
  <2>3. TableTypes'
    BY <1>1, <2>1, <2>2, Zenon DEF TableTypes
  <2>4. OnceInv'
    BY <1>1, <2>1, <2>2 DEF OnceInv, OpenOnce, OpenApart, DoneBefore, DoneApart, Accounted, IsOpen
  <2>5. JoinInv'
    BY <1>1, <2>1, <2>2, Zenon DEF JoinInv, Joining, Joined, IsOpen
  <2>6. CopyInv'
    BY <1>1, <2>1, <2>2, Zenon DEF CopyInv, Sane, Key, IsOpen
  <2> QED BY <2>3, <2>4, <2>5, <2>6, Zenon DEF ExchangeInv
<1> QED BY <1>2, <1>3, <1>4, Zenon DEF ExchangeNext

----------------------------------------------------------------------------
(* The flows. *)

\* A finite set in some order has each element once.
LEMMA Listed ==
  ASSUME NEW S, IsFiniteSet(S)
  PROVE  /\ Cardinality(S) \in Nat /\ InSomeOrder(S) \in [1..Cardinality(S) -> S]
         /\ \A i, j \in 1..Cardinality(S) : InSomeOrder(S)[i] = InSomeOrder(S)[j] => i = j
         /\ \A x \in S : \E i \in 1..Cardinality(S) : InSomeOrder(S)[i] = x
<1> DEFINE n == Cardinality(S)
           o == InSomeOrder(S)
<1>1. n \in Nat /\ ExistsBijection(1..n, S)
  BY FS_CardinalityType, Zenon
<1>2. o \in Bijection(1..n, S)
  BY <1>1, Zenon DEF ExistsBijection, InSomeOrder
<1> HIDE DEF o
<1>3. o \in [1..n -> S] /\ IsInjective(o)
  BY <1>2, Zenon DEF Bijection, Injection
<1>4. \A x \in S : \E i \in 1..n : o[i] = x
  BY <1>2, Zenon DEF Bijection, Surjection
<1>5. \A i, j \in 1..n : o[i] = o[j] => i = j
  BY <1>3, Zenon DEF IsInjective
<1> QED BY <1>1, <1>3, <1>4, <1>5, Zenon DEF o

\* In dns, the flows are the completed exchanges and the open ones, each once.
LEMMA FlushDNS ==
  ASSUME TableTypes, decoder = "dns"
  PROVE  \E n \in Nat : \E o \in [1..n -> Keys] :
           /\ \A i \in 1..n : IsOpen(o[i])
           /\ \A i, j \in 1..n : o[i] = o[j] => i = j
           /\ \A k \in Keys : IsOpen(k) => \E i \in 1..n : o[i] = k
           /\ DOMAIN FlushPending = 1..(Len(done) + n)
           /\ \A i \in 1..Len(done) : FlushPending[i] = done[i]
           /\ \A i \in 1..n : FlushPending[Len(done) + i] = [pend[o[i]] EXCEPT !.error = TRUE]
<1> DEFINE S == {k \in DOMAIN pend : pend[k] # NoRequest}
           n == Cardinality(S)
           o == InSomeOrder(S)
           tail == [i \in DOMAIN o |-> [pend[o[i]] EXCEPT !.error = TRUE]]
<1>1. DOMAIN pend = Keys /\ Keys = TxIds
  BY Zenon DEF TableTypes, Keys
<1>2. IsFiniteSet(S)
  BY <1>1, TxIdsAssumption, FS_Subset, Zenon
<1>3. FlushPending = done \o tail
  BY Zenon DEF FlushPending
<1>4. \A k \in Keys : k \in S <=> IsOpen(k)
  BY <1>1, Zenon DEF IsOpen
<1>5. S \subseteq Keys
  BY <1>1, Zenon
<1> HIDE DEF S
<1>6. /\ n \in Nat /\ o \in [1..n -> S]
      /\ \A i, j \in 1..n : o[i] = o[j] => i = j
      /\ \A x \in S : \E i \in 1..n : o[i] = x
  BY <1>2, Listed, Zenon
<1> HIDE DEF o, n
<1>7. DOMAIN tail = 1..n /\ \A i \in 1..n : tail[i] = [pend[o[i]] EXCEPT !.error = TRUE]
  BY <1>6, Zenon
<1>8. ASSUME NEW i \in 1..n
      PROVE  tail[i] \in Transactions
  <2>1. o[i] \in Keys /\ IsOpen(o[i])
    BY <1>4, <1>5, <1>6, Zenon
  <2>2. pend[o[i]] \in Transactions
    BY <2>1, OpenTyped, Zenon
  <2>3. \A t \in Transactions : [t EXCEPT !.error = TRUE] \in Transactions
    BY Zenon DEF Transactions
  <2> QED BY <1>7, <2>2, <2>3, Zenon
<1>9. tail \in Seq(Transactions) /\ Len(tail) = n
  <2>1. tail \in [1..n -> Transactions]
    BY <1>6, <1>7, <1>8, Zenon
  <2> HIDE DEF tail
  <2> QED BY <1>6, <2>1
<1> HIDE DEF tail
<1>10. done \in Seq(Transactions) /\ Len(done) \in Nat
  BY DEF TableTypes
<1>11. DOMAIN FlushPending = 1..(Len(done) + n)
  BY <1>3, <1>6, <1>9, <1>10
<1>12. \A i \in 1..Len(done) : FlushPending[i] = done[i]
  BY <1>3, <1>6, <1>9, <1>10
<1>13. \A i \in 1..n : FlushPending[Len(done) + i] = tail[i]
  BY <1>3, <1>6, <1>9, <1>10
<1>14. \A i \in 1..n : FlushPending[Len(done) + i] = [pend[o[i]] EXCEPT !.error = TRUE]
  BY <1>7, <1>13, Zenon
<1>15. o \in [1..n -> Keys] /\ \A i \in 1..n : IsOpen(o[i])
  BY <1>4, <1>5, <1>6, Zenon
<1>16. \A k \in Keys : IsOpen(k) => \E i \in 1..n : o[i] = k
  BY <1>4, <1>6, Zenon
<1> QED BY <1>6, <1>11, <1>12, <1>14, <1>15, <1>16, Zenon

\* The flows of a request, as the invariant has them.
LEMMA FlowsDNS ==
  ASSUME TableTypes, OnceInv, decoder = "dns", NEW r \in requested
  PROVE  IF r \in replaced THEN FlowsOf(r) = {} ELSE \E i : FlowsOf(r) = {i}
<1>1. PICK n \in Nat : \E o \in [1..n -> Keys] :
           /\ \A i \in 1..n : IsOpen(o[i])
           /\ \A i, j \in 1..n : o[i] = o[j] => i = j
           /\ \A k \in Keys : IsOpen(k) => \E i \in 1..n : o[i] = k
           /\ DOMAIN FlushPending = 1..(Len(done) + n)
           /\ \A i \in 1..Len(done) : FlushPending[i] = done[i]
           /\ \A i \in 1..n : FlushPending[Len(done) + i] = [pend[o[i]] EXCEPT !.error = TRUE]
  BY FlushDNS, Zenon
<1>2. PICK o \in [1..n -> Keys] :
           /\ \A i \in 1..n : IsOpen(o[i])
           /\ \A i, j \in 1..n : o[i] = o[j] => i = j
           /\ \A k \in Keys : IsOpen(k) => \E i \in 1..n : o[i] = k
           /\ DOMAIN FlushPending = 1..(Len(done) + n)
           /\ \A i \in 1..Len(done) : FlushPending[i] = done[i]
           /\ \A i \in 1..n : FlushPending[Len(done) + i] = [pend[o[i]] EXCEPT !.error = TRUE]
  BY <1>1, Zenon
<1> DEFINE len == Len(done)
<1>3. len \in Nat
  BY DEF TableTypes
<1> HIDE DEF len
<1>4. \A i \in 1..(len + n) : i \in 1..len \/ \E j \in 1..n : i = len + j
  <2> SUFFICES ASSUME NEW i \in 1..(len + n), i \notin 1..len
               PROVE  i - len \in 1..n /\ i = len + (i - len)
    BY Zenon
  <2> QED BY <1>3
<1>5. /\ \A i \in 1..len : i \in 1..(len + n)
      /\ \A j \in 1..n : len + j \in 1..(len + n) /\ len + j \notin 1..len
  BY <1>3
<1>6. ASSUME NEW j \in 1..n
      PROVE  FlushPending[len + j].begun = pend[o[j]].begun
  <2>1. o[j] \in Keys /\ IsOpen(o[j])
    BY <1>2, Zenon
  <2>2. pend[o[j]] \in Transactions
    BY <2>1, OpenTyped, Zenon
  <2>3. \A t \in Transactions : [t EXCEPT !.error = TRUE].begun = t.begun
    BY Zenon DEF Transactions
  <2>4. FlushPending[len + j] = [pend[o[j]] EXCEPT !.error = TRUE]
    BY <1>2, Zenon DEF len
  <2> QED BY <2>2, <2>3, <2>4, Zenon
<1>7. DOMAIN FlushPending = 1..(len + n) /\ \A i \in 1..len : FlushPending[i] = done[i]
  BY <1>2, Zenon DEF len
<1>8. \A i : i \in FlowsOf(r) <=>
         \/ i \in 1..len /\ done[i].begun = r
         \/ \E j \in 1..n : i = len + j /\ pend[o[j]].begun = r
  <2> SUFFICES ASSUME NEW i
               PROVE  i \in FlowsOf(r) <=>
                        \/ i \in 1..len /\ done[i].begun = r
                        \/ \E j \in 1..n : i = len + j /\ pend[o[j]].begun = r
    BY Zenon
  <2>1. i \in FlowsOf(r) <=> i \in 1..(len + n) /\ FlushPending[i].begun = r
    BY <1>7, Zenon DEF FlowsOf
  <2>2. CASE i \in 1..len
    BY <1>5, <1>7, <2>1, <2>2, Zenon
  <2>3. CASE i \notin 1..len
    BY <1>4, <1>5, <1>6, <2>1, <2>3, Zenon
  <2> QED BY <2>2, <2>3, Zenon
<1>9. \A j \in 1..n : /\ o[j] \in Keys /\ IsOpen(o[j]) /\ pend[o[j]].begun \notin replaced
                      /\ \A i \in 1..len : done[i].begun # pend[o[j]].begun
  BY <1>2, Zenon DEF OnceInv, OpenOnce, len
<1>10. CASE r \in replaced
  <2>1. \A i : i \notin FlowsOf(r)
    <3>1. \A i \in 1..len : done[i].begun # r
      BY <1>10, Zenon DEF OnceInv, DoneBefore, len
    <3>2. \A j \in 1..n : pend[o[j]].begun # r
      BY <1>9, <1>10, Zenon
    <3> QED BY <1>8, <3>1, <3>2, Zenon
  <2> QED BY <1>10, <2>1, Zenon
<1>11. CASE r \notin replaced
  <2>1. ASSUME NEW k \in Keys, IsOpen(k), pend[k].begun = r
        PROVE  \E i : FlowsOf(r) = {i}
    <3>1. PICK j \in 1..n : o[j] = k
      BY <1>2, <2>1, Zenon
    <3>2. \A i \in 1..n : pend[o[i]].begun = r => i = j
      <4> SUFFICES ASSUME NEW i \in 1..n, i # j
                   PROVE  pend[o[i]].begun # r
        BY Zenon
      <4>1. o[i] # k /\ o[i] \in Keys /\ IsOpen(o[i])
        BY <1>2, <1>9, <3>1, Zenon
      <4> QED BY <2>1, <4>1, Zenon DEF OnceInv, OpenApart
    <3>3. \A i \in 1..len : done[i].begun # r
      BY <2>1, Zenon DEF OnceInv, OpenOnce, len
    <3>4. \A i : i \in FlowsOf(r) <=> i = len + j
      BY <1>8, <2>1, <3>1, <3>2, <3>3, Zenon
    <3>5. FlowsOf(r) = {len + j}
      BY <3>4, Zenon
    <3> QED BY <3>5, Zenon
  <2>2. ASSUME NEW i \in 1..len, done[i].begun = r
        PROVE  \E x : FlowsOf(r) = {x}
    <3>1. \A j \in 1..len : done[j].begun = r => j = i
      BY <2>2, Zenon DEF OnceInv, DoneApart, len
    <3>2. \A j \in 1..n : pend[o[j]].begun # r
      BY <1>9, <2>2, Zenon
    <3>3. \A x : x \in FlowsOf(r) <=> x = i
      BY <1>8, <2>2, <3>1, <3>2, Zenon
    <3>4. FlowsOf(r) = {i}
      BY <3>3, Zenon
    <3> QED BY <3>4, Zenon
  <2> QED BY <1>11, <2>1, <2>2, Zenon DEF OnceInv, Accounted, len
<1> QED BY <1>10, <1>11, Zenon

LEMMA FlowsByConnection ==
  ASSUME TableTypes, OnceInv, decoder # "dns", NEW r \in requested
  PROVE  IF r \in replaced \cup StillOpen THEN FlowsOf(r) = {} ELSE \E i : FlowsOf(r) = {i}
<1>1. FlushPending = done /\ DOMAIN done = 1..Len(done) /\ DOMAIN pend = Keys
  <2>1. FlushPending = done /\ DOMAIN pend = Keys
    BY Zenon DEF FlushPending, TableTypes
  <2> QED BY <2>1 DEF TableTypes
<1>2. \A i : i \in FlowsOf(r) <=> i \in 1..Len(done) /\ done[i].begun = r
  BY <1>1, Zenon DEF FlowsOf
<1>3. r \in StillOpen <=> \E k \in Keys : IsOpen(k) /\ pend[k].begun = r
  BY <1>1, Zenon DEF StillOpen, IsOpen
<1>4. CASE r \in replaced
  <2>1. \A i : i \notin FlowsOf(r)
    BY <1>2, <1>4, Zenon DEF OnceInv, DoneBefore
  <2> QED BY <1>4, <2>1, Zenon
<1>5. CASE r \in StillOpen
  <2>1. \A i : i \notin FlowsOf(r)
    BY <1>2, <1>3, <1>5, Zenon DEF OnceInv, OpenOnce
  <2> QED BY <1>5, <2>1, Zenon
<1>6. CASE r \notin replaced /\ r \notin StillOpen
  <2>1. PICK i \in 1..Len(done) : done[i].begun = r
    BY <1>3, <1>6, Zenon DEF OnceInv, Accounted
  <2>2. \A j \in 1..Len(done) : j # i => done[j].begun # done[i].begun
    BY <2>1, Zenon DEF OnceInv, DoneApart
  <2>3. \A x : x \in FlowsOf(r) <=> x = i
    BY <1>2, <2>1, <2>2, Zenon
  <2>4. FlowsOf(r) = {i}
    BY <2>3, Zenon
  <2> QED BY <1>6, <2>4, Zenon
<1> QED BY <1>4, <1>5, <1>6, Zenon

LEMMA PairedFromInv ==
  ASSUME ExchangeInv
  PROVE  ExchangesPaired
<1>1. TableTypes /\ OnceInv /\ JoinInv
  BY Zenon DEF ExchangeInv
<1>2. Cardinality({}) = 0 /\ \A i : Cardinality({i}) = 1
  BY FS_EmptySet, FS_Singleton, Zenon
<1>3. RequestOnce
  <2> SUFFICES ASSUME NEW r \in requested
               PROVE  Cardinality(FlowsOf(r)) =
                        IF r \in replaced \/ (r \in StillOpen /\ decoder # "dns") THEN 0 ELSE 1
    BY Zenon DEF RequestOnce
  <2>1. CASE decoder = "dns"
    <3>1. IF r \in replaced THEN FlowsOf(r) = {} ELSE \E i : FlowsOf(r) = {i}
      BY <1>1, <2>1, FlowsDNS, Zenon
    <3>2. CASE FlowsOf(r) = {}
      BY <1>2, <2>1, <3>1, <3>2, Zenon
    <3>3. CASE FlowsOf(r) # {}
      BY <1>2, <2>1, <3>1, <3>3, Zenon
    <3> QED BY <3>2, <3>3, Zenon
  <2>2. CASE decoder # "dns"
    <3>1. IF r \in replaced \cup StillOpen THEN FlowsOf(r) = {} ELSE \E i : FlowsOf(r) = {i}
      BY <1>1, <2>2, FlowsByConnection, Zenon
    <3>2. CASE FlowsOf(r) = {}
      BY <1>2, <2>2, <3>1, <3>2, Zenon
    <3>3. CASE FlowsOf(r) # {}
      BY <1>2, <2>2, <3>1, <3>3, Zenon
    <3> QED BY <3>2, <3>3, Zenon
  <2> QED BY <2>1, <2>2, Zenon
<1>4. DOMAIN done = 1..Len(done)
  BY <1>1 DEF TableTypes
<1>5. AnswerOfRequest
  BY <1>1, <1>4, Zenon DEF AnswerOfRequest, JoinInv, Joined
<1>6. UnansweredReported
  <2> SUFFICES ASSUME NEW x \in DOMAIN FlushPending, ~Answered(FlushPending[x])
               PROVE  IF decoder = "dns" THEN FlushPending[x].error
                      ELSE decoder = "ajp" /\ ~FlushPending[x].error
    BY Zenon DEF UnansweredReported
  <2>1. CASE decoder # "dns"
    <3>1. FlushPending = done
      BY <2>1, Zenon DEF FlushPending
    <3> QED BY <1>1, <1>4, <2>1, <3>1, Zenon DEF JoinInv, Joined
  <2>2. CASE decoder = "dns"
    <3>1. PICK n \in Nat : \E o \in [1..n -> Keys] :
            /\ \A i \in 1..n : IsOpen(o[i])
            /\ DOMAIN FlushPending = 1..(Len(done) + n)
            /\ \A i \in 1..Len(done) : FlushPending[i] = done[i]
            /\ \A i \in 1..n : FlushPending[Len(done) + i] = [pend[o[i]] EXCEPT !.error = TRUE]
      BY <1>1, <2>2, FlushDNS, Zenon
    <3>2. PICK o \in [1..n -> Keys] :
            /\ \A i \in 1..n : IsOpen(o[i])
            /\ DOMAIN FlushPending = 1..(Len(done) + n)
            /\ \A i \in 1..Len(done) : FlushPending[i] = done[i]
            /\ \A i \in 1..n : FlushPending[Len(done) + i] = [pend[o[i]] EXCEPT !.error = TRUE]
      BY <3>1, Zenon
    <3>3. x \notin 1..Len(done)
      BY <1>1, <2>2, <3>2, Zenon DEF JoinInv, Joined
    <3>4. Len(done) \in Nat /\ x \in 1..(Len(done) + n)
      BY <1>1, <3>2 DEF TableTypes
    <3>5. x - Len(done) \in 1..n /\ x = Len(done) + (x - Len(done))
      BY <3>3, <3>4
    <3>6. PICK j \in 1..n : x = Len(done) + j
      BY <3>5, Zenon
    <3>7. FlushPending[x] = [pend[o[j]] EXCEPT !.error = TRUE] /\ o[j] \in Keys /\ IsOpen(o[j])
      BY <3>2, <3>6, Zenon
    <3>8. pend[o[j]] \in Transactions
      BY <1>1, <3>7, OpenTyped, Zenon
    <3>9. \A t \in Transactions : [t EXCEPT !.error = TRUE].error = TRUE
      BY Zenon DEF Transactions
    <3> QED BY <2>2, <3>7, <3>8, <3>9, Zenon
  <2> QED BY <2>1, <2>2, Zenon
<1> QED BY <1>3, <1>5, <1>6, Zenon DEF ExchangesPaired

\* For any clients and any finite set of transaction ids: each request is listed once or
\* replaced by a later one under its key, and an exchange over a connection joins a request
\* with a later answer to the same client (Exchanges: HandleMessage, FlushPending).
THEOREM ExchangesPairedAlways == ExchangeSpec => []ExchangesPaired
<1>1. ExchangeInit => ExchangeInv
  BY ExchangeInitInv, Zenon
<1>2. ExchangeInv /\ [ExchangeNext]_exchangeVars => ExchangeInv'
  BY ExchangeStep, Zenon
<1>3. ExchangeInv => ExchangesPaired
  BY PairedFromInv, Zenon
<1> QED BY <1>1, <1>2, <1>3, PTL DEF ExchangeSpec
=============================================================================

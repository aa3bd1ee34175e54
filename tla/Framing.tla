------------------------------ MODULE Framing ------------------------------
(***************************************************************************)
(* TCP reassembly above gopacket's assembler: a tcpStream feeds the bytes  *)
(* of a connection, as they come in order, to the framer its ports select, *)
(* and reports every message the framer cuts off.                          *)
(* A byte is a number.  A header that fills several bytes in the code (a   *)
(* record type and version, a magic number, a length field) is one byte    *)
(* for what identifies it and one for the length; a line of a SIP or HTTP  *)
(* header is one byte.                                                     *)
(***************************************************************************)
EXTENDS Naturals, Sequences, FiniteSets, SequencesExt

CONSTANTS
  Ports,      \* the server's ports considered
  MaxBody,    \* bound on the length of a body
  MaxSegment  \* bound on the bytes the assembler delivers at once

Length == 0..MaxBody
Mark == MaxBody + 1        \* what every header of a binary protocol begins with
Blank == MaxBody + 2       \* the empty line that ends a text header
Line == MaxBody + 3        \* a header line without a length

VARIABLES
  framer,     \* the framer of the stream (never changes)
  sends,      \* the messages each side sends (never changes)
  sent,       \* the bytes of each side already delivered
  buf,        \* the framer's buffer
  reported,   \* the messages reported for each side
  owner,      \* the side whose bytes came last (history)
  orderly,    \* no side spoke within a message of the other, nothing was lost (history)
  ended       \* ReassemblyComplete

streamVars == <<framer, sends, sent, buf, reported, owner, orderly, ended>>

Sides == {"client", "server"}

ClientPort == 50000

\* SelectFramer.
SelectFramer(ports) ==
  IF ports \cap {5060, 5061} # {} THEN "sip"
  ELSE IF ports \cap {80, 8080, 8000, 8888, 3000} # {} THEN "http"
  ELSE IF ports \cap {443, 8443, 993, 995, 465, 636} # {} THEN "tls"
  ELSE IF 3868 \in ports THEN "diameter"
  ELSE IF 8009 \in ports THEN "ajp" ELSE "none"

----------------------------------------------------------------------------
(* The framers: what the head of the buffer is.  0 means wait for more bytes, *)
(* a number n a message of n bytes; Skip means drop one byte.                  *)

Skip == 1000
Framers == {"sip", "http", "tls", "diameter", "ajp"}

FirstAt(b, x) == CHOOSE i \in 1..Len(b) : b[i] = x /\ \A j \in 1..i - 1 : b[j] # x

\* extractContentLength: the first length in the header, 0 without one.
ContentLength(header) ==
  LET at == {i \in 1..Len(header) : header[i] \in Length} IN
  IF at = {} THEN 0 ELSE header[CHOOSE i \in at : \A j \in at : i <= j]

\* SIPFramer and HTTPFramer.
TextHead(b) ==
  IF \A i \in 1..Len(b) : b[i] # Blank THEN 0
  ELSE LET end == FirstAt(b, Blank)
           total == end + ContentLength(SubSeq(b, 1, end - 1))
       IN  IF Len(b) < total THEN 0 ELSE total

\* Mutant: a record whose body is not complete is reported at once.
RecordHeadEager(b, min) ==
  IF Len(b) < 2 THEN 0
  ELSE IF b[1] # Mark \/ b[2] < min THEN Skip
  ELSE IF Len(b) < 2 + b[2] THEN Len(b) ELSE 2 + b[2]

\* TLSFramer, DiameterFramer and AJPFramer: mark, length, body.
RecordHead(b, min) ==
  IF Len(b) < 2 THEN 0
  ELSE IF b[1] # Mark \/ b[2] < min THEN Skip
  ELSE IF Len(b) < 2 + b[2] THEN 0 ELSE 2 + b[2]

Head1(f, b) ==
  CASE f \in {"sip", "http"} -> TextHead(b)
    [] f \in {"tls", "ajp"} -> RecordHead(b, 0)
    [] f = "diameter" -> RecordHead(b, 1)

Drop(b, n) == SubSeq(b, n + 1, Len(b))

\* Feed: messages are cut off until the head of the buffer has to wait.
Cut[f \in Framers, b \in Seq(0..Line), msgs \in Seq(Seq(0..Line))] ==
  LET n == Head1(f, b) IN
  IF n = 0 THEN [rest |-> b, msgs |-> msgs]
  ELSE IF n = Skip THEN Cut[f, Drop(b, 1), msgs]
  ELSE Cut[f, Drop(b, n), Append(msgs, SubSeq(b, 1, n))]

\* Mutant: the bytes of a message stay in the buffer after it was cut off.
FeedKeeping(b, bytes) == [Cut[framer, b \o bytes, << >>] EXCEPT !.rest = b \o bytes]

Feed(b, bytes) == Cut[framer, b \o bytes, << >>]

----------------------------------------------------------------------------
(* The stream. *)

Bodies(n, bytes) == [1..n -> bytes]

\* The messages of a protocol; a body may contain what a header begins with.
Messages(f) ==
  CASE f \in {"sip", "http"} ->
         {<<Line, Blank>>} \cup UNION {{<<Line, n, Blank>> \o b : b \in Bodies(n, {0, Blank})} : n \in Length}
    [] f \in {"tls", "ajp"} -> UNION {{<<Mark, n>> \o b : b \in Bodies(n, {0, Mark})} : n \in Length}
    [] f = "diameter" -> UNION {{<<Mark, n>> \o b : b \in Bodies(n, {0, Mark})} : n \in Length \ {0}}

Bytes(msgs) == FlattenSeq(msgs)
Remaining(side) == Drop(Bytes(sends[side]), sent[side])

StreamInit ==
  /\ \E port \in Ports : framer = SelectFramer({port, ClientPort})
  /\ framer # "none"
  /\ \E a, b, c \in Messages(framer) : sends = [s \in Sides |-> IF s = "client" THEN <<a, b>> ELSE <<c>>]
  /\ sent = [s \in Sides |-> 0] /\ buf = << >> /\ reported = [s \in Sides |-> << >>]
  /\ owner = "client" /\ orderly = TRUE /\ ended = FALSE

\* ReassembledSG without a gap: the bytes of either side go to the same framer, and
\* the messages are reported for the side that sent these bytes.
Deliver(side, n) ==
  LET fed == Feed(buf, SubSeq(Remaining(side), 1, n)) IN
  /\ ~ended /\ n <= Len(Remaining(side))
  /\ sent' = [sent EXCEPT ![side] = @ + n]
  /\ buf' = fed.rest
  /\ reported' = [reported EXCEPT ![side] = @ \o fed.msgs]
  /\ orderly' = (orderly /\ (buf = << >> \/ owner = side)) /\ owner' = side
  /\ UNCHANGED <<framer, sends, ended>>

\* ReassembledSG after a gap: the buffer is flushed, the bytes after the gap are
\* dropped too.  The gap and those bytes are n bytes.
Gap(side, n) ==
  /\ ~ended /\ n <= Len(Remaining(side))
  /\ sent' = [sent EXCEPT ![side] = @ + n]
  /\ buf' = << >> /\ owner' = side /\ orderly' = FALSE
  /\ UNCHANGED <<framer, sends, reported, ended>>

\* ReassemblyComplete: the rest is reported, always for the client.
ReassemblyComplete ==
  /\ ~ended /\ ended' = TRUE
  /\ reported' = IF buf = << >> THEN reported ELSE [reported EXCEPT !["client"] = Append(@, buf)]
  /\ buf' = << >>
  /\ UNCHANGED <<framer, sends, sent, owner, orderly>>

StreamNext ==
  \/ \E side \in Sides, n \in 1..MaxSegment : Deliver(side, n) \/ Gap(side, n)
  \/ ReassemblyComplete

----------------------------------------------------------------------------
(* Properties. *)

\* The messages of a side that lie wholly in what was delivered.
Whole(side) == {k \in 1..Len(sends[side]) : Len(Bytes(SubSeq(sends[side], 1, k))) <= sent[side]}

\* However the bytes of a connection are cut into segments, exactly the messages
\* delivered whole are reported, in order, and what is buffered is the beginning
\* of the next: as long as the sides take turns and nothing is lost.
WholeMessages ==
  orderly /\ ~ended =>
    /\ \A s \in Sides : reported[s] = SubSeq(sends[s], 1, Cardinality(Whole(s)))
    /\ Len(buf) = sent[owner] - Len(Bytes(reported[owner]))

\* No byte is reported twice, whatever is lost and however the sides interleave.
BytesOnce ==
  Len(Bytes(reported["client"])) + Len(Bytes(reported["server"])) + Len(buf)
    <= sent["client"] + sent["server"]

\* What the framers report of a stream is what was sent: exactly the whole messages of an
\* orderly one, and of any other at least no byte twice.
FramingExact == WholeMessages /\ BytesOnce
=============================================================================

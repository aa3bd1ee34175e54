------------------------------ MODULE Elements ------------------------------
(***************************************************************************)
(* The walks over lists of information elements: Diameter AVPs, GTP and    *)
(* PFCP elements, TLS extensions, BER values, labels, HTTP/2 frames and    *)
(* SCTP chunks; and the records made of the elements where their order     *)
(* matters.  The bytes of a list arrive one by one: a walk must do the     *)
(* right thing wherever the capture cut the packet.                        *)
(***************************************************************************)
EXTENDS Integers, Sequences, FiniteSets, SequencesExt

CONSTANTS
  MaxElements,  \* bound on elements of a list
  MaxValue      \* bound on the bytes of a value

VARIABLES
  format,    \* which walk: it never changes
  elements,  \* the list that was sent: it never changes
  captured   \* how many of its bytes are there

elementVars == <<format, elements, captured>>

----------------------------------------------------------------------------
(* The walk. *)

\* head: bytes before the value; lenAt: where the length is; whole: the length counts
\* the head too; pad: elements begin at multiples of it; clip: a value that is cut
\* short is taken as far as it goes.
Format(head, lenAt, whole, pad, clip) ==
  [head |-> head, lenAt |-> lenAt, whole |-> whole, pad |-> pad, clip |-> clip]

Padded(f, size) == ((size + f.pad - 1) \div f.pad) * f.pad
Least(a, b) == IF a < b THEN a ELSE b

\* Mutant: an element that ends with the data is taken for a truncated one.
FitsBefore(f, end, data) == end < Len(data) \/ f.clip

Fits(f, end, data) == end <= Len(data) \/ f.clip

Walk(f, data) ==
  LET from[o \in Nat] ==
        IF o + f.head > Len(data) THEN << >>
        ELSE LET len == data[o + f.lenAt]
                 size == IF f.whole THEN len ELSE f.head + len
             IN  IF size < f.head \/ ~Fits(f, o + size, data) THEN << >>
                 ELSE <<[type |-> data[o + 1],
                         value |-> SubSeq(data, o + f.head + 1, Least(o + size, Len(data)))]>>
                      \o from[o + Padded(f, size)]
  IN  from[0]

\* ParseAVPs.
AVPs == Format(8, 8, TRUE, 4, FALSE)
\* ParseGTPv2IEs, and parseBearerContext inside it.
GtpV2IEs == Format(4, 3, FALSE, 1, FALSE)
\* parsePFCPIEs, and parseGroupedIE inside it.
PfcpIEs == Format(4, 4, FALSE, 1, TRUE)
\* parseExtensions; parseServerExtensions is the same walk.
TlsExtensions == Format(4, 4, FALSE, 1, FALSE)
\* readTLV with a length below 128, as parseVarBindList repeats it.
BerValues == Format(2, 2, FALSE, 1, FALSE)
\* The frames of parseHTTP2.
Http2Frames == Format(9, 3, FALSE, 1, TRUE)
\* The chunks of extractDataFromSCTP.
SctpChunks == Format(4, 4, TRUE, 4, TRUE)

Formats == [avp |-> AVPs, gtp |-> GtpV2IEs, pfcp |-> PfcpIEs, tls |-> TlsExtensions,
            ber |-> BerValues, http2 |-> Http2Frames, sctp |-> SctpChunks]

----------------------------------------------------------------------------
(* Walks of their own. *)

\* Labels: decodeAPN, decodeFQDN, the question of a DNS packet.  A label of length
\* zero ends the name.
Labels(data) ==
  LET from[o \in Nat] ==
        IF o >= Len(data) \/ data[o + 1] = 0 \/ o + 1 + data[o + 1] > Len(data) THEN << >>
        ELSE <<SubSeq(data, o + 2, o + 1 + data[o + 1])>> \o from[o + 1 + data[o + 1]]
  IN  from[0]

\* extractSubscriberIEsV1: elements below 128 have a size of their own, here of the
\* cause and of the TLLI; the walk ends at one it does not know.
FixedSize == [t \in {1, 4} |-> IF t = 1 THEN 2 ELSE 5]

V1IEs(data) ==
  LET from[o \in Nat] ==
        IF o >= Len(data) THEN << >>
        ELSE LET t == data[o + 1] IN
             IF t \in DOMAIN FixedSize
             THEN IF o + FixedSize[t] > Len(data) THEN << >>
                  ELSE <<[type |-> t, value |-> SubSeq(data, o + 2, o + FixedSize[t])]>>
                       \o from[o + FixedSize[t]]
             ELSE IF t < 128 \/ o + 3 > Len(data) \/ o + 3 + data[o + 3] > Len(data) THEN << >>
             ELSE <<[type |-> t, value |-> SubSeq(data, o + 4, o + 3 + data[o + 3])]>>
                  \o from[o + 3 + data[o + 3]]
  IN  from[0]

----------------------------------------------------------------------------
(* What a sender writes. *)

Zeros(n) == [i \in 1..n |-> 0]

Write(e) ==
  LET n == Len(e.value) IN
  IF format = "labels" THEN <<n>> \o e.value
  ELSE IF format = "v1"
  THEN IF e.type \in DOMAIN FixedSize THEN <<e.type>> \o e.value ELSE <<e.type, 0, n>> \o e.value
  ELSE LET f == Formats[format]
           len == IF f.whole THEN f.head + n ELSE n
       IN  [i \in 1..f.head |-> IF i = 1 THEN e.type ELSE IF i = f.lenAt THEN len ELSE 0]
           \o e.value \o Zeros(Padded(f, f.head + n) - f.head - n)

Written == FlattenSeq([i \in DOMAIN elements |-> Write(elements[i])])
Captured == SubSeq(Written, 1, captured)

Types == IF format = "v1" THEN {1, 4, 132} ELSE {1, 2}
Values(t) ==
  IF format = "v1" /\ t # 132 THEN {[i \in 1..FixedSize[t] - 1 |-> 7]}
  ELSE {[i \in 1..n |-> 7] : n \in (IF format = "labels" THEN 1 ELSE 0)..MaxValue}

ElementInit ==
  /\ format \in DOMAIN Formats \cup {"labels", "v1"}
  /\ elements \in SeqOf(UNION {[type : {t}, value : Values(t)] : t \in Types}, MaxElements)
  /\ captured = 0

Byte == captured < Len(Written) /\ captured' = captured + 1 /\ UNCHANGED <<format, elements>>

ElementNext == Byte

----------------------------------------------------------------------------
(* Properties. *)

Parsed ==
  IF format = "labels" THEN Labels(Captured)
  ELSE IF format = "v1" THEN V1IEs(Captured) ELSE Walk(Formats[format], Captured)

\* The bytes before element i, and the bytes to the end of its value.
StartOf(i) == Len(FlattenSeq([j \in 1..i - 1 |-> Write(elements[j])]))
HeadOf(i) == IF format = "labels" THEN 1
             ELSE IF format = "v1" THEN (IF elements[i].type = 132 THEN 3 ELSE 1)
             ELSE Formats[format].head
EndOfValue(i) == StartOf(i) + HeadOf(i) + Len(elements[i].value)

\* Every walk finds exactly the elements that were captured whole, in their order; one
\* that clips finds also the element that the capture cut, with the bytes that are there,
\* once its head is whole.
WalkExact ==
  LET whole == {i \in DOMAIN elements : EndOfValue(i) <= captured}
      clips == format \in DOMAIN Formats /\ Formats[format].clip
      cut == {i \in DOMAIN elements \ whole : clips /\ StartOf(i) + HeadOf(i) <= captured}
      found(i) == [elements[i] EXCEPT !.value = SubSeq(@, 1, captured - StartOf(i) - HeadOf(i))]
  IN  /\ Len(Parsed) = Cardinality(whole) + Cardinality(cut)
      /\ \A i \in DOMAIN Parsed :
           Parsed[i] = IF format = "labels" THEN elements[i].value
                       ELSE IF i \in whole THEN elements[i] ELSE found(i)
=============================================================================

----------------------------- MODULE Exchanges -----------------------------
(***************************************************************************)
(* The decoders that match requests with answers: dns (by transaction      *)
(* number), http1 and ajp (by connection).  Each has a table of open       *)
(* requests and a list of completed exchanges; Flush turns them            *)
(* into flows.  The timestamp of a packet is its number on the wire.       *)
(***************************************************************************)
EXTENDS Integers, Sequences, FiniteSets, Functions

CONSTANTS
  Clients,  \* connections to one server, named by their client
  TxIds,    \* 16-bit DNS transaction numbers
  MaxWire   \* bound on packets

ASSUME TxIdsAssumption == IsFiniteSet(TxIds)

Open(at, client, soap) ==
  [begun |-> at, client |-> client, soap |-> soap, reply |-> -1, status |-> 0, from |-> "none",
   error |-> FALSE]
NoRequest == [begun |-> -1]
NoMessage == [kind |-> "none"]
Answered(tx) == tx.reply # -1

VARIABLES
  decoder,   \* which of the decoders this is: it never changes
  assembled, \* its worker reassembles TCP, as the pool's workers do: it never changes
  copy,      \* the message of the last segment, about to come from the assembler
  pend,      \* transactions: the open request under each key
  done,      \* completed
  wire,      \* packets so far
  requested,      \* requests the decoder took (history)
  replaced   \* requests replaced by a later one while open (history)

exchangeVars == <<decoder, assembled, copy, pend, done, wire, requested, replaced>>

----------------------------------------------------------------------------
(* The table. *)

\* Mutant: requests of all connections share one entry.
KeyShared(m) == IF decoder = "dns" THEN m.id ELSE CHOOSE c \in Clients : TRUE

\* dns: transactions[txID]; http1 and ajp: the client's end first, for both directions.
Key(m) == IF decoder = "dns" THEN m.id ELSE m.client

\* A request takes its entry, whatever was there.
Take(m) ==
  LET old == pend[Key(m)] IN
  /\ pend' = [pend EXCEPT ![Key(m)] = Open(m.at, m.client, m.soap)]
  /\ requested' = requested \cup {m.at}
  /\ replaced' = IF old.begun \in {-1, m.at} THEN replaced ELSE replaced \cup {old.begun}
  /\ UNCHANGED <<done>>

\* The request of an answer, or a transaction that begins with the answer.
Matching(m) ==
  LET tx == pend[Key(m)] IN
  IF tx # NoRequest THEN tx ELSE Open(-1, m.client, "none")

\* Mutant: the entry stays open.
CompleteKeeping(m, tx) == done' = Append(done, tx) /\ UNCHANGED pend

Complete(m, tx) ==
  /\ pend' = [pend EXCEPT ![Key(m)] = NoRequest]
  /\ done' = Append(done, tx)

Ignore == UNCHANGED <<pend, done, requested, replaced>>

----------------------------------------------------------------------------
(* dns. *)

\* parseDNS: off the DNS ports, a payload without a name is not DNS, unless it answers
\* an open query.
ParseDNS(m) ==
  LET tx == Matching(m) IN
  IF ~m.port /\ ~m.named /\ (m.kind = "request" \/ tx.begun = -1) THEN Ignore
  ELSE IF m.kind = "request" THEN Take(m)
  ELSE /\ Complete(m, [tx EXCEPT !.begun = IF @ = -1 THEN m.at ELSE @, !.reply = m.at,
                         !.status = m.status, !.from = m.client, !.error = (m.status # 0)])
       /\ UNCHANGED <<requested, replaced>>

----------------------------------------------------------------------------
(* http1. *)

\* A fault counts whatever the status is, when the body is taken for SOAP: by the
\* content type, the answer's or else the request's, or by its envelope.
IsError(tx, m) ==
  LET type == IF m.soap # "none" THEN m.soap ELSE tx.soap IN
  m.status >= 400 \/ (m.fault /\ (type = "soap" \/ m.envelope))

ParseHTTP(m) ==
  IF m.kind = "request" THEN Take(m)
  ELSE LET tx == Matching(m) IN
       /\ Complete(m, [tx EXCEPT !.reply = m.at, !.status = m.status, !.from = m.client,
                         !.error = IsError(tx, m)])
       /\ UNCHANGED <<requested, replaced>>

----------------------------------------------------------------------------
(* ajp: the headers of an answer and its end are two packets. *)

\* Headers without a request make a transaction that is kept nowhere, and an end
\* without a request is ignored.
ParseAJP(m) ==
  LET tx == pend[Key(m)] IN
  IF m.kind = "request" THEN Take(m)
  ELSE IF tx = NoRequest THEN Ignore
  ELSE IF m.kind = "headers"
  THEN /\ pend' = [pend EXCEPT ![Key(m)] = [tx EXCEPT !.reply = m.at, !.status = m.status,
                                              !.from = m.client, !.error = (m.status >= 400)]]
       /\ UNCHANGED <<done, requested, replaced>>
  ELSE /\ Complete(m, tx)
       /\ UNCHANGED <<requested, replaced>>

----------------------------------------------------------------------------
(* The flows. *)

\* The order of a loop over a map.
InSomeOrder(S) == CHOOSE s \in Bijection(1..Cardinality(S), S) : TRUE

\* Mutant: an open query is reported as it stands.
FlushPendingPlain ==
  LET open == InSomeOrder({k \in DOMAIN pend : pend[k] # NoRequest}) IN
  IF decoder # "dns" THEN done ELSE done \o [i \in DOMAIN open |-> pend[open[i]]]

\* FlushPending.  Only dns reports the open requests, as timeouts.
FlushPending ==
  LET open == InSomeOrder({k \in DOMAIN pend : pend[k] # NoRequest}) IN
  IF decoder # "dns" THEN done
  ELSE done \o [i \in DOMAIN open |-> [pend[open[i]] EXCEPT !.error = TRUE]]

----------------------------------------------------------------------------
ExchangeInit ==
  /\ decoder \in {"dns", "http1", "ajp"} /\ assembled \in BOOLEAN
  /\ decoder = "dns" => ~assembled
  /\ copy = NoMessage
  /\ pend = [k \in IF decoder = "dns" THEN TxIds ELSE Clients |-> NoRequest]
  /\ done = << >> /\ wire = 0 /\ requested = {} /\ replaced = {}

Carried ==
  CASE decoder = "dns" ->
         [kind : {"request", "answer"}, client : Clients, id : TxIds, port : BOOLEAN,
          named : BOOLEAN, status : {0, 3}, soap : {"none"}, at : {wire}]
    [] decoder = "http1" ->
         [kind : {"request", "answer"}, client : Clients, status : {200, 500},
          soap : {"none", "soap", "other"}, envelope : BOOLEAN, fault : BOOLEAN, at : {wire}]
    [] decoder = "ajp" ->
         [kind : {"request", "headers", "end"}, client : Clients, status : {200, 500},
          soap : {"none"}, at : {wire}]

Handle(m) ==
  \/ decoder = "dns" /\ ParseDNS(m)
  \/ decoder = "http1" /\ ParseHTTP(m)
  \/ decoder = "ajp" /\ ParseAJP(m)

\* DecodeWorker.Run: the segment goes to the decoders ...
RawSegment ==
  /\ copy = NoMessage
  /\ wire < MaxWire /\ wire' = wire + 1
  /\ \E m \in Carried : Handle(m) /\ copy' = IF assembled THEN m ELSE NoMessage
  /\ UNCHANGED <<decoder, assembled>>

\* ... and to the assembler, which sends the message it completes to the same decoders.
Reassembled ==
  /\ copy # NoMessage /\ Handle(copy) /\ copy' = NoMessage
  /\ UNCHANGED <<decoder, assembled, wire>>

ExchangeNext == RawSegment \/ Reassembled

----------------------------------------------------------------------------
(* Properties. *)

FlowsOf(begun) == {i \in DOMAIN FlushPending : FlushPending[i].begun = begun}
StillOpen == {pend[k].begun : k \in {k \in DOMAIN pend : pend[k] # NoRequest}}

\* Every request the decoder took is in exactly one flow, with two exceptions: one that
\* a later request replaced while it was open is in none, and neither is one that
\* http1 or ajp still holds open.
RequestOnce ==
  \A r \in requested :
    Cardinality(FlowsOf(r)) =
      IF r \in replaced \/ (r \in StillOpen /\ decoder # "dns") THEN 0 ELSE 1

\* http1 and ajp, which match by connection, join an answer only with an earlier request
\* of its own connection.
AnswerOfRequest ==
  decoder # "dns" =>
    \A i \in DOMAIN done :
      /\ Answered(done[i]) => done[i].from = done[i].client /\ done[i].begun < done[i].reply
      /\ done[i].begun # -1 => done[i].begun \in requested

\* A flow without an answer is a dns query, reported as an error, or an ajp exchange
\* that ended without headers, which is not one.
UnansweredReported ==
  \A i \in DOMAIN FlushPending : ~Answered(FlushPending[i]) =>
    IF decoder = "dns" THEN FlushPending[i].error ELSE decoder = "ajp" /\ ~FlushPending[i].error

\* Though every message comes as a segment and again reassembled, each request is in one
\* flow, with an answer to it or, where the decoder promises it, reported as unanswered.
ExchangesPaired == RequestOnce /\ AnswerOfRequest /\ UnansweredReported

=============================================================================

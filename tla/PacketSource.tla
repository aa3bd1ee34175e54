--------------------------- MODULE PacketSource ---------------------------
(***************************************************************************)
(* What a capture source promises the worker that calls ReadPacket: of the *)
(* frames the kernel has accepted, each is returned at most once, intact   *)
(* and in the order of arrival, unless the filter rejects it or the kernel *)
(* has lost track of it.                                                   *)
(***************************************************************************)
EXTENDS Naturals, Sequences

CONSTANTS Arrivals,  \* the frames on the wire, numbered
          Matches    \* those that the filter lets through

VARIABLES queue,     \* accepted and not yet read; 0 for a frame the kernel lost track of
          out        \* returned by ReadPacket, in order

Init == queue = << >> /\ out = << >>

\* The kernel accepts a frame that arrives after all those accepted so far.
Accept ==
  \E p \in Arrivals :
    /\ \A i \in 1..Len(queue) : queue[i] < p
    /\ \A i \in 1..Len(out) : out[i] < p
    /\ queue' = Append(queue, p)
    /\ UNCHANGED out

\* The kernel announces a frame that is nowhere in its memory.
Misplace == queue' = Append(queue, 0) /\ UNCHANGED out

\* ReadPacket takes the oldest frame, and returns it if it matches.
Return ==
  /\ queue # << >>
  /\ queue' = Tail(queue)
  /\ out' = IF Head(queue) \in Matches THEN Append(out, Head(queue)) ELSE out

Next == Accept \/ Misplace \/ Return

Spec == Init /\ [][Next]_<<queue, out>>
=============================================================================

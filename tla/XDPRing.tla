------------------------------ MODULE XDPRing ------------------------------
(***************************************************************************)
(* The AF_XDP source of one receive queue: the fill ring and the rx ring   *)
(* it shares with the kernel, their 32-bit counters, the UMEM frames, and  *)
(* ReadPacket, interleaved with the kernel at every access to shared       *)
(* memory.  The kernel is external, modelled by what ReadPacket relies on. *)
(***************************************************************************)
EXTENDS Integers, Sequences, FiniteSets

CONSTANTS
  FillSize,    \* xdpFillRing, a power of two
  RxSize,      \* xdpRxRing, a power of two
  Width,       \* 2^32: the counters wrap
  FrameSize,   \* xdpFrameSize
  MaxArrivals, \* bound on frames on the wire
  Unmatched,   \* those that the BPF filter rejects
  MaxCorrupt   \* bound on corrupt descriptors

ASSUME RingConstants ==
  /\ {FillSize, RxSize, FrameSize, Width} \subseteq Nat \ {0} /\ MaxArrivals \in Nat
  /\ Width % FillSize = 0 /\ Width % RxSize = 0 /\ Width > FillSize /\ Width > RxSize

VARIABLES
  fill, fillProd, fillCons,  \* the fill ring: frame addresses
  rx, rxProd, rxCons,        \* the rx ring: descriptors
  umem,                      \* the packet in each frame, by frame address
  kernel,                    \* address of the frame the kernel writes, -1 for none
  arrived, corrupt,          \* frames and corrupt descriptors so far
  rpc, desc, data,           \* the step of ReadPacket, and its locals
  returned,                  \* the packets it has returned
  closed, mapped             \* Close has begun; the rings and the UMEM are mapped

fillRing == <<fill, fillProd, fillCons>>
rxRing == <<rx, rxProd, rxCons>>
kernelVars == <<kernel, arrived, corrupt>>
ringVars == <<fill, fillProd, fillCons, rx, rxProd, rxCons, umem, kernel, arrived, corrupt,
              rpc, desc, data, returned, closed, mapped>>

Frames == {i * FrameSize : i \in 0..FillSize - 1}
UmemLen == FillSize * FrameSize
Used(prod, cons) == (prod - cons) % Width
Bump(counter) == (counter + 1) % Width
FrameBase(addr) == addr - (addr % FrameSize)

\* newXDPSource: the fill ring holds every frame, the rx ring is empty.
RingInit ==
  /\ fill = [i \in 0..FillSize - 1 |-> i * FrameSize]
  /\ fillProd = FillSize /\ fillCons = 0
  /\ rx = [i \in 0..RxSize - 1 |-> [addr |-> 0, length |-> 0]]
  /\ rxProd = 0 /\ rxCons = 0
  /\ umem = [f \in Frames |-> 0]
  /\ kernel = -1 /\ arrived = 0 /\ corrupt = 0
  /\ rpc = "idle" /\ desc = [addr |-> 0, length |-> 0] /\ data = 0
  /\ returned = << >> /\ closed = FALSE /\ mapped = TRUE

----------------------------------------------------------------------------
(* The kernel. *)

\* A frame arrives.  It is lost when the fill ring is empty or the rx ring full;
\* otherwise it is written into the next frame of the fill ring.
KernelWrite ==
  /\ kernel = -1 /\ arrived < MaxArrivals /\ mapped
  /\ arrived' = arrived + 1
  /\ \/ /\ fillProd # fillCons /\ Used(rxProd, rxCons) < RxSize
        /\ kernel' = fill[fillCons % FillSize]
        /\ umem' = [umem EXCEPT ![fill[fillCons % FillSize]] = arrived + 1]
        /\ fillCons' = Bump(fillCons)
     \/ /\ fillProd = fillCons \/ Used(rxProd, rxCons) >= RxSize
        /\ UNCHANGED <<kernel, umem, fillCons>>
  /\ UNCHANGED <<fill, fillProd, rxRing, corrupt, rpc, desc, data, returned, closed, mapped>>

\* The descriptor is posted; the packet starts anywhere in its frame.
KernelPost ==
  /\ kernel # -1 /\ mapped
  /\ \E d \in {[addr |-> kernel + off, length |-> FrameSize - off] : off \in 0..FrameSize - 1}
              \cup {[addr |-> UmemLen, length |-> 1]} :
       /\ rx' = [rx EXCEPT ![rxProd % RxSize] = d]
       /\ corrupt' = IF d.addr = UmemLen THEN corrupt + 1 ELSE corrupt
       /\ corrupt' <= MaxCorrupt
  /\ rxProd' = Bump(rxProd)
  /\ kernel' = -1
  /\ UNCHANGED <<fillRing, rxCons, umem, arrived, rpc, desc, data, returned, closed, mapped>>

----------------------------------------------------------------------------
(* ReadPacket. *)

\* A step that touches the rings or the UMEM: once they are unmapped the process
\* faults, and there is no further step.
Touching == {"load", "copy", "advance", "recycle", "publish"}

Goto(from, to) ==
  /\ rpc = from /\ (from \in Touching => mapped)
  /\ rpc' = to
  /\ UNCHANGED <<umem, kernelVars, closed, mapped>>

\* The worker calls ReadPacket again.
Call ==
  /\ rpc = "idle" /\ rpc' = "check"
  /\ UNCHANGED <<fillRing, rxRing, umem, kernelVars, desc, data, returned, closed, mapped>>

\* The head of the loop: EOF after Close.
CheckClosed ==
  /\ rpc = "check" /\ rpc' = IF closed THEN "eof" ELSE "load"
  /\ UNCHANGED <<fillRing, rxRing, umem, kernelVars, desc, data, returned, closed, mapped>>

\* Mutant: the counters are compared as if they never wrapped.
LoadUnwrapped ==
  LET d == rx[rxCons % RxSize] IN
  /\ \/ rxProd <= rxCons /\ Goto("load", "check") /\ UNCHANGED <<desc, rxCons>>
     \/ /\ rxProd > rxCons /\ d.addr + d.length > UmemLen
        /\ Goto("load", "check") /\ desc' = d /\ rxCons' = Bump(rxCons)
     \/ /\ rxProd > rxCons /\ d.addr + d.length <= UmemLen
        /\ Goto("load", "copy") /\ desc' = d /\ UNCHANGED rxCons
  /\ UNCHANGED <<fillRing, rx, rxProd, data, returned>>

\* With nothing in the rx ring the loop polls and starts again.  A descriptor
\* that points out of the UMEM is skipped.
Load ==
  LET d == rx[rxCons % RxSize] IN
  /\ \/ rxProd = rxCons /\ Goto("load", "check") /\ UNCHANGED <<desc, rxCons>>
     \/ /\ rxProd # rxCons /\ d.addr + d.length > UmemLen
        /\ Goto("load", "check") /\ desc' = d /\ rxCons' = Bump(rxCons)
     \/ /\ rxProd # rxCons /\ d.addr + d.length <= UmemLen
        /\ Goto("load", "copy") /\ desc' = d /\ UNCHANGED rxCons
  /\ UNCHANGED <<fillRing, rx, rxProd, data, returned>>

\* poll fails: ReadPacket returns the error.
PollFails ==
  /\ rxProd = rxCons /\ Goto("load", "idle")
  /\ UNCHANGED <<fillRing, rxRing, desc, data, returned>>

Copy ==
  /\ Goto("copy", "advance")
  /\ data' = umem[FrameBase(desc.addr)]
  /\ UNCHANGED <<fillRing, rxRing, desc, returned>>

\* Mutant: a packet that the filter rejects is skipped before its frame is recycled.
AdvanceUnrecycled ==
  /\ Goto("advance", IF data \in Unmatched THEN "return" ELSE "recycle")
  /\ rxCons' = Bump(rxCons)
  /\ UNCHANGED <<fillRing, rx, rxProd, desc, data, returned>>

\* The slot of the rx ring is given back.
Advance ==
  /\ Goto("advance", "recycle")
  /\ rxCons' = Bump(rxCons)
  /\ UNCHANGED <<fillRing, rx, rxProd, desc, data, returned>>

\* The address of the frame goes into the fill ring if there is room.
Recycle ==
  /\ IF FillSize - Used(fillProd, fillCons) > 0
     THEN /\ Goto("recycle", "publish")
          /\ fill' = [fill EXCEPT ![fillProd % FillSize] = FrameBase(desc.addr)]
     ELSE Goto("recycle", "return") /\ UNCHANGED fill
  /\ UNCHANGED <<fillProd, fillCons, rxRing, desc, data, returned>>

\* The producer counter makes it visible to the kernel.
Publish ==
  /\ Goto("publish", "return")
  /\ fillProd' = Bump(fillProd)
  /\ UNCHANGED <<fill, fillCons, rxRing, desc, data, returned>>

\* Mutant: the slice returned is that of the UMEM, not a copy.
ReturnAliased ==
  /\ \/ data \in Unmatched /\ Goto("return", "check") /\ UNCHANGED returned
     \/ /\ data \notin Unmatched /\ Goto("return", "idle")
        /\ returned' = Append(returned, umem[FrameBase(desc.addr)])
  /\ UNCHANGED <<fillRing, rxRing, desc, data>>

\* Mutant: a rejected packet falls through to the second recycling.
ReturnFallsThrough ==
  /\ \/ data \in Unmatched /\ Goto("return", "recycle") /\ data' = 0 /\ UNCHANGED returned
     \/ data \notin Unmatched /\ Goto("return", "idle") /\ UNCHANGED data
        /\ returned' = Append(returned, data)
  /\ UNCHANGED <<fillRing, rxRing, desc>>

\* The packet is returned; one that the filter rejects is not, and the loop goes on.
Return ==
  /\ \/ data \in Unmatched /\ Goto("return", "check") /\ UNCHANGED returned
     \/ /\ data \notin Unmatched /\ Goto("return", "idle")
        /\ returned' = Append(returned, data)
  /\ UNCHANGED <<fillRing, rxRing, desc, data>>

\* Close: closed is set first, then the rings and the UMEM are unmapped.
RingClose ==
  /\ \/ ~closed /\ closed' = TRUE /\ UNCHANGED mapped
     \/ closed /\ mapped /\ mapped' = FALSE /\ UNCHANGED closed
  /\ UNCHANGED <<fillRing, rxRing, umem, kernelVars, rpc, desc, data, returned>>

----------------------------------------------------------------------------
ReadPacket ==
  \/ Call \/ CheckClosed \/ Load \/ PollFails \/ Copy \/ Advance \/ Recycle \/ Publish
  \/ Return

RingNext == KernelWrite \/ KernelPost \/ ReadPacket \/ RingClose

\* The worker that reads is scheduled; poll does not fail forever.
RingFair ==
  /\ WF_ringVars(Call \/ CheckClosed \/ Copy \/ Advance \/ Recycle \/ Publish \/ Return)
  /\ SF_ringVars(Load)

RingSpec == RingInit /\ [][RingNext]_ringVars

----------------------------------------------------------------------------
(* Properties. *)

\* The slots of a ring between its consumer and its producer.
Window(prod, cons, size) == {(cons + k) % size : k \in 0..Used(prod, cons) - 1}

InUmem(d) == d.addr + d.length <= UmemLen
FillSlots == Window(fillProd, fillCons, FillSize)
RxSlots == {s \in Window(rxProd, rxCons, RxSize) : InUmem(rx[s])}

\* ReadPacket has given back the slot of a packet and not yet recycled its frame.
Recycling == rpc \in {"recycle", "publish"}

\* The places that hold a frame: slots of the fill ring and of the rx ring, the
\* kernel, and ReadPacket; and the frame that each holds.
Places ==
  ({"fill"} \X FillSlots) \cup ({"rx"} \X RxSlots)
  \cup (IF kernel = -1 THEN {} ELSE {<<"kernel", 0>>})
  \cup (IF Recycling THEN {<<"reader", 0>>} ELSE {})
FrameAt(p) ==
  CASE p[1] = "fill" -> fill[p[2]]
    [] p[1] = "rx" -> FrameBase(rx[p[2]].addr)
    [] p[1] = "kernel" -> kernel
    [] p[1] = "reader" -> FrameBase(desc.addr)

\* No frame is in two places: the kernel never writes into a frame whose packet is
\* unread or being copied, also when the counters wrap.
FramesDistinct == \A p, q \in Places : p # q => FrameAt(p) # FrameAt(q)

\* A frame leaves the circulation only with a corrupt descriptor: neither a full
\* fill ring nor a packet that the filter rejects costs a frame.
FramesKept ==
  Used(fillProd, fillCons) + Cardinality(RxSlots) + (IF kernel = -1 THEN 0 ELSE 1)
    + (IF Recycling THEN 1 ELSE 0) = FillSize - corrupt

\* Every frame in circulation is in exactly one place, a ring, the kernel or the
\* reader, and no producer overruns its consumer.
FramesInOnePlace ==
  /\ FramesDistinct /\ FramesKept
  /\ Used(fillProd, fillCons) <= FillSize /\ Used(rxProd, rxCons) <= RxSize

\* The packet of the k-th descriptor in the rx ring, 0 if it points out of the UMEM.
PacketAt(k) ==
  LET d == rx[(rxCons + k) % RxSize] IN IF InUmem(d) THEN umem[FrameBase(d.addr)] ELSE 0

\* The queue of the abstract source: the packet in the reader's hands and those in the
\* rx ring.
InHand == IF rpc \in {"recycle", "publish", "return"} THEN 1 ELSE 0
Pending ==
  [k \in 1..InHand + Used(rxProd, rxCons) |-> IF k <= InHand THEN data ELSE PacketAt(k - InHand - 1)]

Source == INSTANCE PacketSource WITH
  Arrivals <- 1..MaxArrivals,
  Matches <- 1..MaxArrivals \ Unmatched,
  queue <- Pending,
  out <- returned

\* ReadPacket implements PacketSource, though it copies a packet while the kernel
\* fills other frames.
XDPIsSource == Source!Spec

\* The rx ring is emptied again and again unless the source is closed: no wrap of
\* the counters and no corrupt descriptor stops the reader.
RxDrains == []<>(rxProd = rxCons \/ closed)

=============================================================================

---------------------------- MODULE AFPacketRing ----------------------------
(***************************************************************************)
(* The AF_PACKET source (TPACKET_V3): a ring of blocks that the kernel     *)
(* fills and hands over one by one, and ReadPacket, which walks through    *)
(* the frames of a block and gives it back.  A frame is the number of its  *)
(* arrival.  The kernel is external, modelled by what ReadPacket uses.     *)
(***************************************************************************)
EXTENDS Naturals, Sequences, FiniteSets

CONSTANTS
  BlockNr,     \* blocks of the ring
  BlockFrames, \* frames that fit into a block
  MaxFrames,   \* bound on frames on the wire
  RetireEmpty, \* a block may be handed over with no frame in it
  Corrupt      \* frames whose length is not positive or runs beyond the ring

ASSUME BlockConstants == BlockNr \in Nat \ {0} /\ BlockFrames \in Nat \ {0} /\ MaxFrames \in Nat
                         /\ RetireEmpty \in BOOLEAN

Blocks == 0..BlockNr - 1

VARIABLES
  status,      \* blockStatus: who owns a block
  numPkts,     \* frames in a block
  slot,        \* the memory of a block: the frame in each place, 0 if never written
  kcur,        \* the block the kernel fills
  wire,        \* frames that have arrived
  kept,        \* those that the kernel has put into the ring (history)
  bpc,         \* the step of ReadPacket
  curBlock, framesLeft, frameOff,
  copying,     \* block and place of the frame being copied, and its number
  seen,        \* the frames whose header was read, in order (history)
  read,        \* the packets returned, in order
  shut         \* closed

kernelSide == <<kcur, wire, kept>>
blockVars == <<status, numPkts, slot, kcur, wire, kept, bpc, curBlock, framesLeft, frameOff,
               copying, seen, read, shut>>

Following(b) == (b + 1) % BlockNr

BlockInit ==
  /\ status = [b \in Blocks |-> "kernel"] /\ numPkts = [b \in Blocks |-> 0]
  /\ slot = [b \in Blocks |-> [i \in 1..BlockFrames |-> 0]]
  /\ kcur = 0 /\ wire = 0 /\ kept = << >>
  /\ bpc = "loop" /\ curBlock = 0 /\ framesLeft = 0 /\ frameOff = 0
  /\ copying = [block |-> 0, place |-> 0, frame |-> 0]
  /\ seen = << >> /\ read = << >> /\ shut = FALSE

----------------------------------------------------------------------------
(* The kernel. *)

\* A frame arrives; it is lost while the next block still belongs to the reader.
Arrive ==
  /\ wire < MaxFrames /\ wire' = wire + 1
  /\ \/ /\ status[kcur] = "kernel" /\ numPkts[kcur] < BlockFrames
        /\ slot' = [slot EXCEPT ![kcur][numPkts[kcur] + 1] = wire + 1]
        /\ numPkts' = [numPkts EXCEPT ![kcur] = @ + 1]
        /\ kept' = Append(kept, wire + 1)
     \/ /\ status[kcur] = "user" /\ UNCHANGED <<slot, numPkts, kept>>
  /\ UNCHANGED <<status, kcur, bpc, curBlock, framesLeft, frameOff, copying, seen, read, shut>>

\* A block that is full, or whose timeout has expired, is handed over.
Retire ==
  /\ status[kcur] = "kernel" /\ (RetireEmpty \/ numPkts[kcur] > 0)
  /\ status' = [status EXCEPT ![kcur] = "user"]
  /\ kcur' = Following(kcur)
  /\ UNCHANGED <<numPkts, slot, wire, kept, bpc, curBlock, framesLeft, frameOff, copying, seen,
                 read, shut>>

----------------------------------------------------------------------------
(* ReadPacket. *)

\* The block goes back to the kernel, which will fill it from its beginning.
Release(b) ==
  /\ status' = [status EXCEPT ![b] = "kernel"]
  /\ numPkts' = [numPkts EXCEPT ![b] = 0]
  /\ curBlock' = Following(b)

\* closed is seen only at the head of the loop.
EndOfFile ==
  /\ bpc = "loop" /\ shut /\ bpc' = "eof"
  /\ UNCHANGED <<status, numPkts, slot, kernelSide, curBlock, framesLeft, frameOff, copying, seen,
                 read, shut>>

\* Mutant: the block is taken without a look at its status.
NextBlockUnchecked ==
  /\ bpc = "loop" /\ ~shut /\ framesLeft = 0
  /\ \/ numPkts[curBlock] = 0 /\ Release(curBlock) /\ UNCHANGED <<framesLeft, frameOff>>
     \/ /\ numPkts[curBlock] # 0 /\ framesLeft' = numPkts[curBlock] /\ frameOff' = 1
        /\ UNCHANGED <<status, numPkts, curBlock>>
  /\ UNCHANGED <<slot, kernelSide, bpc, copying, seen, read, shut>>

\* Mutant: an empty block is not given back.
NextBlockKept ==
  /\ bpc = "loop" /\ ~shut /\ framesLeft = 0 /\ status[curBlock] = "user"
  /\ numPkts[curBlock] # 0 /\ framesLeft' = numPkts[curBlock] /\ frameOff' = 1
  /\ UNCHANGED <<status, numPkts, curBlock, slot, kernelSide, bpc, copying, seen, read, shut>>

\* The next block is ready: an empty one is released at once, otherwise its
\* frames are the next ones.  While it is not, ReadPacket polls.
NextBlock ==
  /\ bpc = "loop" /\ ~shut /\ framesLeft = 0 /\ status[curBlock] = "user"
  /\ \/ numPkts[curBlock] = 0 /\ Release(curBlock) /\ UNCHANGED <<framesLeft, frameOff>>
     \/ /\ numPkts[curBlock] # 0 /\ framesLeft' = numPkts[curBlock] /\ frameOff' = 1
        /\ UNCHANGED <<status, numPkts, curBlock>>
  /\ UNCHANGED <<slot, kernelSide, bpc, copying, seen, read, shut>>

\* extractFrame up to the copy: the header is read, the cursor advances, and
\* with the last frame the block is given back.  A corrupt frame is skipped.
Extract ==
  /\ bpc = "loop" /\ ~shut /\ framesLeft > 0
  /\ LET frame == slot[curBlock][frameOff] IN
     /\ copying' = [block |-> curBlock, place |-> frameOff, frame |-> frame]
     /\ seen' = Append(seen, frame)
     /\ framesLeft' = framesLeft - 1
     /\ \/ framesLeft = 1 /\ Release(curBlock) /\ UNCHANGED frameOff
        \/ framesLeft > 1 /\ frameOff' = frameOff + 1 /\ UNCHANGED <<status, numPkts, curBlock>>
     /\ bpc' = IF frame \in Corrupt THEN "loop" ELSE "copy"
  /\ UNCHANGED <<slot, kernelSide, read, shut>>

\* The rest of extractFrame: the packet is copied out of the ring and returned.
CopyFrame ==
  /\ bpc = "copy" /\ bpc' = "loop"
  /\ read' = Append(read, slot[copying.block][copying.place])
  /\ UNCHANGED <<status, numPkts, slot, kernelSide, curBlock, framesLeft, frameOff, copying, seen,
                 shut>>

CloseSource ==
  /\ ~shut /\ shut' = TRUE
  /\ UNCHANGED <<status, numPkts, slot, kernelSide, bpc, curBlock, framesLeft, frameOff, copying,
                 seen, read>>

----------------------------------------------------------------------------
BlockRead == EndOfFile \/ NextBlock \/ Extract \/ CopyFrame
BlockNext == Arrive \/ Retire \/ BlockRead \/ CloseSource

\* The worker that reads is scheduled.
BlockFair == WF_blockVars(BlockRead)

----------------------------------------------------------------------------
(* Properties. *)

\* The frames in blocks that the kernel has handed over.
HandedOver == Len(kept) - (IF status[kcur] = "kernel" THEN numPkts[kcur] ELSE 0)

\* Every frame handed over is eventually seen, in its place: ReadPacket skips none, sees
\* none twice and waits for no empty block, unless the source is closed.
HandedOverIsSeen ==
  \A n \in 1..MaxFrames :
    (HandedOver >= n) ~> (shut \/ (Len(seen) >= n /\ SubSeq(seen, 1, n) = SubSeq(kept, 1, n)))

=============================================================================

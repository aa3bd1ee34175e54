-------------------------- MODULE MCCaptureSession --------------------------
(* Small instances of CaptureSession for TLC.                               *)
EXTENDS CaptureSession, TLC

CONSTANTS r1, r2, w1, w2, http, main, bad

OneReader  == {r1}
TwoReaders == {r1, r2}
Workers    == {w1, w2}
OneStopper == {http}

\* Frames 1 and 2 belong to flows of different workers, frame 3 is not
\* decodable (neither TCP, UDP nor SCTP).
MCFlowOf  == [f \in Frames |-> IF f = 3 THEN bad ELSE f]
MCRouteOf == [x \in Frames |-> IF x = 1 THEN w1 ELSE w2]
AllToR1   == [f \in Frames |-> r1]
SplitR    == [f \in Frames |-> IF f = 2 THEN r2 ELSE r1]
=============================================================================

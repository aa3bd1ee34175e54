----------------------------- MODULE XDPShared -----------------------------
(***************************************************************************)
(* The XDP program of an interface and the sources that share it:          *)
(* XDPSourceFactory.CreateSources opens one source per queue, each holds a *)
(* reference to the program, and the last Close detaches it.               *)
(***************************************************************************)
EXTENDS Integers, FiniteSets

CONSTANTS Queues,   \* number of sources asked for
          Closers   \* callers of Close: the engine's clean-up, a deferred Close

ASSUME SharedConstants == Queues \in Nat \ {0}

VARIABLES
  fpc,       \* the step of CreateSources
  attached,  \* the program is attached, the map exists
  refs,      \* sharedXDPState.refs
  opened,    \* queues with an open source
  closing    \* closing[c]: the source whose reference c is about to drop, 0 for none

sharedVars == <<fpc, attached, refs, opened, closing>>

SharedInit ==
  /\ fpc = "program" /\ attached = FALSE /\ refs = 0 /\ opened = {}
  /\ closing = [c \in Closers |-> 0]

\* decRef.
DecRef ==
  /\ refs' = refs - 1
  /\ attached' = (attached /\ refs' # 0)

\* newSharedXDPState: the map, the program and the link, or none of them.
NewShared ==
  /\ fpc = "program"
  /\ \/ fpc' = "open" /\ attached' = TRUE
     \/ fpc' = "failed" /\ UNCHANGED attached
  /\ UNCHANGED <<refs, opened, closing>>

\* The interface is gone.
ResolveFails ==
  /\ fpc = "open" /\ opened = {} /\ refs = 0
  /\ fpc' = "failed" /\ DecRef
  /\ UNCHANGED <<opened, closing>>

NextQueue == Cardinality(opened) + 1

\* newXDPSource for the next queue; the last step takes the reference.
OpenQueue ==
  /\ fpc = "open" /\ NextQueue <= Queues
  /\ opened' = opened \cup {NextQueue}
  /\ refs' = refs + 1
  /\ fpc' = IF NextQueue = Queues THEN "created" ELSE "open"
  /\ UNCHANGED <<attached, closing>>

\* newXDPSource fails and undoes what it has done; CreateSources closes the
\* sources of the queues before, or drops a reference itself if there are none.
OpenQueueFails ==
  /\ fpc = "open"
  /\ \/ opened = {} /\ fpc' = "failed" /\ DecRef /\ UNCHANGED opened
     \/ /\ opened # {} /\ fpc' = "failed"
        /\ refs' = refs - Cardinality(opened)
        /\ attached' = (attached /\ refs' # 0)
        /\ opened' = {}
  /\ UNCHANGED closing

\* Mutant: closed is tested and set in two steps, so two callers close one source.
CloseTwice(c) ==
  /\ fpc = "created" /\ closing[c] = 0
  /\ \E q \in opened \cup ({closing[d] : d \in Closers} \ {0}) :
       closing' = [closing EXCEPT ![c] = q] /\ opened' = opened \ {q}
  /\ UNCHANGED <<fpc, attached, refs>>

\* Close: the first caller for a source gets past the compare-and-swap.
CloseOne(c) ==
  /\ fpc = "created" /\ closing[c] = 0
  /\ \E q \in opened : closing' = [closing EXCEPT ![c] = q] /\ opened' = opened \ {q}
  /\ UNCHANGED <<fpc, attached, refs>>

\* It unmaps and closes the socket, then drops the reference.
CloseDrops(c) ==
  /\ closing[c] # 0
  /\ closing' = [closing EXCEPT ![c] = 0]
  /\ DecRef
  /\ UNCHANGED <<fpc, opened>>

SharedNext ==
  \/ NewShared \/ ResolveFails \/ OpenQueue \/ OpenQueueFails
  \/ \E c \in Closers : CloseOne(c) \/ CloseDrops(c)

SharedSpec == SharedInit /\ [][SharedNext]_sharedVars

\* The program stays attached while a source is open, and is detached once the
\* last source of a successful CreateSources is closed, in whatever order the
\* closes of several callers fall.
DetachedByLast ==
  /\ opened # {} => attached
  /\ fpc = "created" /\ opened = {} /\ (\A c \in Closers : closing[c] = 0) => ~attached
=============================================================================

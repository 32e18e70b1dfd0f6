------------------------------ MODULE FrameQueue ------------------------------
(***************************************************************************)
(* What the transmit path promises lwIP: the frames it accepts leave in    *)
(* the order they were accepted and unchanged, except for one that a       *)
(* transmit underflow spoils.  Capacity is the number of descriptors.      *)
(***************************************************************************)
EXTENDS Naturals, Sequences

CONSTANTS Capacity, Frames

VARIABLES queue,  \* the frames accepted and not yet gone
          wire    \* the last frame that went out; <<>> before the first

Init == queue = <<>> /\ wire = <<>>

Accept(f) == Len(queue) < Capacity /\ queue' = Append(queue, f) /\ UNCHANGED wire

Leave == queue # <<>> /\ queue' = Tail(queue) /\ wire' = <<Head(queue)>>

Spoil == queue # <<>> /\ queue' = Tail(queue) /\ UNCHANGED wire

Next == Leave \/ Spoil \/ \E f \in Frames : Accept(f)

Spec == Init /\ [][Next]_<<queue, wire>>

===============================================================================

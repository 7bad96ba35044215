------------------------------ MODULE ByteQueue ------------------------------
(***************************************************************************)
(* What a byte buffer of the client promises (spec.md section 8, property  *)
(* 1): a bounded FIFO queue of bytes.  Bytes join at the tail as long as   *)
(* the queue stays within its capacity, and leave from the head; what     *)
(* leaves is appended to delivered.  Put and Take are stated by how the    *)
(* queue changes, so that the detailed ring can be checked against them.   *)
(***************************************************************************)
EXTENDS Naturals, Sequences, SequencesExt

CONSTANT Capacity

VARIABLES
    queue,      \* bytes held, oldest first
    delivered   \* every byte that left the queue, in order

Init ==
    /\ queue = << >>
    /\ delivered = << >>

(* Some bytes join at the tail.                                            *)
Put ==
    /\ IsStrictPrefix(queue, queue')
    /\ Len(queue') <= Capacity
    /\ UNCHANGED delivered

(* The k oldest bytes leave, in order.                                     *)
Take ==
    \E k \in 1 .. Len(queue) :
        /\ queue' = SubSeq(queue, k + 1, Len(queue))
        /\ delivered' = delivered \o SubSeq(queue, 1, k)

Next == Put \/ Take

Spec == Init /\ [][Next]_<< queue, delivered >>

=============================================================================

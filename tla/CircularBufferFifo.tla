-------------------------- MODULE CircularBufferFifo --------------------------
(***************************************************************************)
(* The ring of raiot-buffers driven the way the packetizer drives it.  A   *)
(* producer puts numbered bytes 1, 2, ... into a socket; the ring takes    *)
(* them with append_all_bytes (all or nothing) or append_from_reader, and  *)
(* a consumer removes them with read_bytes, recording what it read.  The   *)
(* ring is shown to implement the bounded FIFO ByteQueue.                  *)
(***************************************************************************)
EXTENDS CircularBuffer

(***************************************************************************)
(* Standalone specification: the ring as the packetizer drives it.  A      *)
(* producer puts numbered bytes 1, 2, ... into a socket; the ring takes    *)
(* them with append_all_bytes (all or nothing) or append_from_reader, and  *)
(* a consumer removes them with read_bytes, recording what it read.        *)
(***************************************************************************)
CONSTANT MaxBytes       \* bytes the producer ever produces

VARIABLES
    buf,        \* the ring
    source,     \* bytes waiting in the socket
    produced,   \* how many bytes were produced so far
    taken       \* every byte read_bytes returned, in order

vars == << buf, source, produced, taken >>

SpecInit ==
    /\ buf = New
    /\ source = << >>
    /\ produced = 0
    /\ taken = << >>

Produce ==
    /\ produced < MaxBytes
    /\ produced' = produced + 1
    /\ source' = Append(source, produced + 1)
    /\ UNCHANGED << buf, taken >>

AppendAll(k) ==
    /\ k <= Len(source)
    /\ CanAppendAll(buf, SubSeq(source, 1, k))
    /\ buf' = AppendAllBytes(buf, SubSeq(source, 1, k))
    /\ source' = SubSeq(source, k + 1, Len(source))
    /\ UNCHANGED << produced, taken >>

AppendFromSource ==
    LET r == AppendFromReader(buf, [bytes |-> source, end |-> "WouldBlock"])
    IN  /\ r.total > 0
        /\ buf' = r.ring
        /\ source' = r.rest
        /\ UNCHANGED << produced, taken >>

Take(k) ==
    /\ CanReadBytes(buf, k)
    /\ taken' = taken \o FlattenSeq(Peek(buf, k))
    /\ buf' = ReadBytes(buf, k)
    /\ UNCHANGED << produced, source >>

SpecNext ==
    \/ Produce
    \/ \E k \in 1 .. Size : AppendAll(k)
    \/ AppendFromSource
    \/ \E k \in 1 .. Size : Take(k)

Spec == SpecInit /\ [][SpecNext]_vars

TypeOK ==
    /\ buf \in Ring
    /\ source \in Seq(Octet)
    /\ produced \in 0 .. MaxBytes
    /\ taken \in Seq(Octet)

(* The ring implements a bounded FIFO queue: what it holds is the queue,   *)
(* and what read_bytes hands out is what the queue delivers.  This is the  *)
(* wraparound bookkeeping of append_all_bytes, append_from_reader and      *)
(* read_bytes (the full bit, the split copy, the split slice) taken        *)
(* together over every interleaving of the three.                          *)
Queue == INSTANCE ByteQueue WITH Capacity <- Size, queue <- Contents(buf), delivered <- taken

RingImplementsQueue == Queue!Spec

=============================================================================

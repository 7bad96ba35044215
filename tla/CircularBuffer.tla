--------------------------- MODULE CircularBuffer ---------------------------
(***************************************************************************)
(* The fixed-capacity byte ring of raiot-buffers/src/lib.rs.               *)
(*                                                                         *)
(* A ring is a record [data, read, write, full]: the storage, the read and *)
(* write indices and the bit that tells a full ring from an empty one when *)
(* read = write.  The operations are pure operators from a ring (and the   *)
(* operation's inputs) to the new ring, so that the packetizer (RX) and    *)
(* the streamer (TX) can each own one.  CircularBufferFifo drives the     *)
(* ring on its own and shows it implements the FIFO ByteQueue.            *)
(***************************************************************************)
EXTENDS Naturals, Sequences, SequencesExt

CONSTANTS
    Size,       \* CircularBuffer::new(size): capacity in bytes
    Octet,      \* the byte values a slot may hold
    Zero        \* the value every slot starts with (vec![0; size])

ASSUME Size \in Nat \ {0} /\ Zero \in Octet

Index == 0 .. Size - 1

Ring == [data : [Index -> Octet], read : Index, write : Index, full : BOOLEAN]

New == [data |-> [i \in Index |-> Zero], read |-> 0, write |-> 0, full |-> FALSE]

IsFull(b) == b.full

(* is_empty comparing the indices only: a full ring reads as empty.       *)
IsEmptyNoFull(b) == b.read = b.write

IsEmpty(b) == b.read = b.write /\ ~b.full

ValidLength(b) ==
    CASE IsFull(b)           -> Size
      [] IsEmpty(b)          -> 0
      [] b.write >= b.read   -> b.write - b.read
      [] OTHER               -> Size + b.write - b.read

AvailableSpace(b) ==
    CASE IsEmpty(b)          -> Size
      [] IsFull(b)           -> 0
      [] b.write >= b.read   -> Size - (b.write - b.read)
      [] OTHER               -> Size - (b.write + Size - b.read)

(* The bytes of storage cells lo .. hi-1.                                  *)
Cells(b, lo, hi) == [i \in 1 .. hi - lo |-> b.data[lo + i - 1]]

(* get_buffer_slice: a BufferSlice is one consecutive part, or two parts   *)
(* when the range runs past the end of the storage.                        *)
GetBufferSlice(b, from, length) ==
    IF from + length <= Size
    THEN << Cells(b, from, from + length) >>
    ELSE << Cells(b, from, Size), Cells(b, 0, (from + length) % Size) >>

(* peek and peek_remaining; peek panics when length > ValidLength.         *)
CanPeek(b, length) == length <= ValidLength(b)
Peek(b, length) == GetBufferSlice(b, b.read, length)
PeekRemaining(b) == GetBufferSlice(b, b.read, ValidLength(b))

(* The bytes the ring holds, in the order a reader of the slice sees them. *)
Contents(b) == FlattenSeq(PeekRemaining(b))

(* read_bytes: panics on length 0 or length > ValidLength; the slice it    *)
(* returns is Peek(b, length) taken before the indices move.               *)
CanReadBytes(b, length) == length > 0 /\ length <= ValidLength(b)
(* read_bytes without the wrap of the read index at the end of storage.    *)
ReadBytesNoWrap(b, length) == [b EXCEPT !.read = @ + length, !.full = FALSE]
ReadBytes(b, length) == [b EXCEPT !.read = (@ + length) % Size, !.full = FALSE]

(* The storage after copying bytes in at the write index, wrapping at the  *)
(* end of the storage (the two copy_from_slice halves).                    *)
Store(b, bytes) ==
    [i \in Index |->
        LET off == (i + Size - b.write) % Size
        IN  IF off < Len(bytes) THEN bytes[off + 1] ELSE b.data[i]]

(* append_all_bytes with the will_be_full step left out: a ring filled to  *)
(* the last byte keeps full = FALSE and reads as empty.                   *)
AppendAllBytesNoFull(b, bytes) ==
    [data  |-> Store(b, bytes),
     read  |-> b.read,
     write |-> (b.write + Len(bytes)) % Size,
     full  |-> b.full]

(* append_all_bytes: WriteZero, and no change, unless every byte fits.     *)
CanAppendAll(b, bytes) == Len(bytes) <= AvailableSpace(b)
AppendAllBytes(b, bytes) ==
    [data  |-> Store(b, bytes),
     read  |-> b.read,
     write |-> (b.write + Len(bytes)) % Size,
     full  |-> IF Len(bytes) = AvailableSpace(b) THEN TRUE ELSE b.full]

(* impl Write for CircularBuffer: append as many bytes as fit.             *)
WriteCount(b, bytes) == Min({AvailableSpace(b), Len(bytes)})
Write(b, bytes) == AppendAllBytes(b, SubSeq(bytes, 1, WriteCount(b, bytes)))

(* get_next_consecutive_free_space, as a length.                           *)
ConsecutiveFree(b) == IF b.write < b.read THEN b.read - b.write ELSE Size - b.write

(***************************************************************************)
(* append_from_reader.  The reader is a socket: src.bytes are the bytes it *)
(* holds, src.end what read() returns once they are exhausted: "Eof"       *)
(* (Ok(0)), "WouldBlock" or "Reset" (an error).  Each pass of the loop     *)
(* reads into the next consecutive free region, advances the write index  *)
(* and stops as full when it meets the read index.  The result is          *)
(* [ring, rest, total, result]: rest the bytes left in the socket, result  *)
(* "Ok" for Ok(total), otherwise the error returned (the bytes already     *)
(* appended stay in the ring).                                             *)
(***************************************************************************)
RECURSIVE FillFrom(_, _, _, _)
FillFrom(b, bytes, end, total) ==
    IF bytes = << >>
    THEN [ring |-> b, rest |-> bytes, total |-> total,
          result |-> IF end = "Eof" THEN "Ok" ELSE end]
    ELSE LET k    == Min({ConsecutiveFree(b), Len(bytes)})
             nb   == [b EXCEPT !.data = Store(b, SubSeq(bytes, 1, k)),
                               !.write = (@ + k) % Size]
             rest == SubSeq(bytes, k + 1, Len(bytes))
         IN  IF nb.write = nb.read
             THEN [ring |-> [nb EXCEPT !.full = TRUE], rest |-> rest,
                   total |-> total + k, result |-> "Ok"]
             ELSE FillFrom(nb, rest, end, total + k)

AppendFromReader(b, src) ==
    IF AvailableSpace(b) = 0
    THEN [ring |-> b, rest |-> src.bytes, total |-> 0, result |-> "WriteZero"]
    ELSE FillFrom(b, src.bytes, src.end, 0)

(***************************************************************************)
(* write_into.  w1 and w2 are what the writer's two write() calls return:  *)
(* [kind |-> "Ok", n |-> n] accepts the first n bytes offered (n may be 0),*)
(* other kinds are errors.  The second call is made only for a split       *)
(* slice.  Result [ring, sent, result]: sent is the byte sequence the      *)
(* writer accepted, in the order it accepted it.                           *)
(***************************************************************************)
Accepted(w, part) == IF w.kind = "Ok" THEN SubSeq(part, 1, Min({w.n, Len(part)})) ELSE << >>

(* write_into advancing the read index by the first write() only, the     *)
(* second call's count never added to size_written.                        *)
WriteIntoFirstCountOnly(b, w1, w2) ==
    LET parts == PeekRemaining(b)
        s1    == Accepted(w1, parts[1])
        s2    == IF Len(parts) = 2 THEN Accepted(w2, parts[2]) ELSE << >>
        moved == [b EXCEPT !.read = (@ + Len(s1)) % Size, !.full = FALSE]
    IN  IF w1.kind # "Ok" THEN [ring |-> b, sent |-> << >>, result |-> w1.kind]
        ELSE [ring |-> moved, sent |-> s1 \o s2, result |-> "Ok"]

(* write_into without the wrap of the read index at the end of storage.    *)
WriteIntoNoWrap(b, w1, w2) ==
    LET parts == PeekRemaining(b)
        s1    == Accepted(w1, parts[1])
        s2    == IF Len(parts) = 2 THEN Accepted(w2, parts[2]) ELSE << >>
    IN  IF w1.kind # "Ok" THEN [ring |-> b, sent |-> << >>, result |-> w1.kind]
        ELSE [ring |-> [b EXCEPT !.read = @ + Len(s1) + Len(s2), !.full = FALSE],
              sent |-> s1 \o s2, result |-> "Ok"]

WriteInto(b, w1, w2) ==
    LET parts == PeekRemaining(b)
        s1    == Accepted(w1, parts[1])
        s2    == IF Len(parts) = 2 THEN Accepted(w2, parts[2]) ELSE << >>
        moved == [b EXCEPT !.read = (@ + Len(s1) + Len(s2)) % Size, !.full = FALSE]
    IN  CASE w1.kind # "Ok"
                -> [ring |-> b, sent |-> << >>, result |-> w1.kind]
          [] Len(parts) = 1
                -> [ring |-> moved, sent |-> s1, result |-> "Ok"]
          [] w2.kind \in {"Ok", "WouldBlock", "Interrupted"}
                -> [ring |-> moved, sent |-> s1 \o s2, result |-> "Ok"]
          [] OTHER
                -> [ring |-> moved, sent |-> s1 \o s2, result |-> w2.kind]

=============================================================================

------------------------------- MODULE Streamer -------------------------------
(***************************************************************************)
(* The TX path of raiot-mqtt: MqttStreamer::write_packet puts an encoded   *)
(* packet into a CircularBuffer, and MqttConnection::send_task drains the  *)
(* ring into a nonblocking socket with CircularBuffer::write_into.          *)
(*                                                                         *)
(* Bytes are numbered 1, 2, ... in the order write_packet accepts them,   *)
(* so the bytes the socket accepted (wire) show any loss, doubling or      *)
(* reordering.  What one write() call of the socket does is an input:      *)
(* [kind |-> "Ok", n |-> n] accepts the first n bytes offered (all of them *)
(* when n >= their number); other kinds are the errors it returns.         *)
(* WriteOutcome is the set of what the socket may do.                      *)
(***************************************************************************)
EXTENDS CircularBuffer

CONSTANTS
    PacketLength,   \* encoded lengths of the packets the client writes
    WriteOutcome,   \* what a write() call of the socket may return
    MaxBytes        \* bytes the client writes at most

ASSUME PacketLength \subseteq 1 .. Size

VARIABLES
    tx,         \* the streamer's ring
    queued,     \* every byte write_packet accepted, in order
    wire,       \* every byte the socket accepted, in order
    status      \* "Running", or "Failed" once send_task returned an error

vars == << tx, queued, wire, status >>

Init ==
    /\ tx = New
    /\ queued = << >>
    /\ wire = << >>
    /\ status = "Running"

(* write_packet of a packet of len bytes: InvalidInput when it is longer  *)
(* than the ring, WriteZero when it does not fit now; both leave the ring  *)
(* as it is.  Otherwise packet.encode writes it through Write for          *)
(* CircularBuffer, which takes every byte since they fit.                  *)
WritePacket(len) ==
    LET bytes == [i \in 1 .. len |-> Len(queued) + i]
    IN  /\ status = "Running"
        /\ Len(queued) + len <= MaxBytes
        /\ len <= AvailableSpace(tx)
        /\ tx' = Write(tx, bytes)
        /\ queued' = queued \o bytes
        /\ UNCHANGED << wire, status >>

(* One pass of the send_task loop on a ring that is not empty: write_into  *)
(* with the socket answering w1 to the first write() and w2 to the second.*)
(* Interrupted on the first call loops again and WouldBlock ends the task, *)
(* both leaving the ring as it was (a stuttering step); any other error    *)
(* ends the task with Err, which IotClient::process unwraps.               *)
SendStep(w1, w2) ==
    LET r == WriteInto(tx, w1, w2)
    IN  /\ status = "Running"
        /\ ~IsEmpty(tx)
        /\ tx' = r.ring
        /\ wire' = wire \o r.sent
        /\ status' = IF r.result \in {"Ok", "WouldBlock", "Interrupted"} THEN status ELSE "Failed"
        /\ UNCHANGED queued

Next ==
    \/ \E len \in PacketLength : WritePacket(len)
    \/ \E w1, w2 \in WriteOutcome : SendStep(w1, w2)

(* process() runs send_task again and again, and the peer drains its end   *)
(* of the connection: while bytes are pending, some write() eventually     *)
(* takes bytes or fails.                                                   *)
Spec == Init /\ [][Next]_vars /\ WF_vars(\E w1, w2 \in WriteOutcome : SendStep(w1, w2))

-----------------------------------------------------------------------------
TypeOK ==
    /\ tx \in Ring
    /\ queued \in Seq(Octet)
    /\ wire \in Seq(Octet)
    /\ status \in {"Running", "Failed"}

(* The socket receives the bytes in the order write_packet queued them,   *)
(* none skipped or sent twice, across every wraparound of the ring and     *)
(* every partial write: the wire is a prefix of what was queued.  The      *)
(* peer then decodes the packets the client meant to send.                 *)
WireIsPrefix == IsPrefix(wire, queued)

(* Everything queued is eventually on the wire, unless send_task failed:   *)
(* send_task never returns for good with bytes still in the ring.          *)
AllQueuedSent == <>[](status = "Failed" \/ wire = queued)

=============================================================================

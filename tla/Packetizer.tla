------------------------------ MODULE Packetizer ------------------------------
(***************************************************************************)
(* MqttPacketizer (raiot-mqtt/src/packets/packetizer.rs): the RX ring that *)
(* turns the byte stream of a nonblocking socket into MQTT packets.        *)
(*                                                                         *)
(* A peer sends whole packets; the socket hands the client any prefix of  *)
(* the bytes in flight, so a packet may arrive in pieces and a read may   *)
(* end in the middle of a fixed header.  The client alternates            *)
(* append_from_reader (Receive) and get_next_packet (Decode, whose        *)
(* decisions are the operators of MqttFraming).                            *)
(***************************************************************************)
EXTENDS MqttFraming

CONSTANTS
    BadPacket,      \* the names whose packet the client must reject
    MaxPackets      \* packets the peer sends at most

ASSUME BadPacket \subseteq Packet

-----------------------------------------------------------------------------
VARIABLES
    rx,         \* the packetizer's ring
    wire,       \* bytes sent by the peer and not yet read by the client
    sent,       \* packets the peer sent, in order
    decoded,    \* packets get_next_packet returned, in order
    status      \* "Running", or "InvalidData" once get_next_packet failed

vars == << rx, wire, sent, decoded, status >>

Init ==
    /\ rx = New
    /\ wire = << >>
    /\ sent = << >>
    /\ decoded = << >>
    /\ status = "Running"

(* The peer writes a whole packet to its end of the connection.            *)
PeerSend(p) ==
    /\ Len(sent) < MaxPackets
    /\ sent' = Append(sent, p)
    /\ wire' = wire \o Encoding[p]
    /\ UNCHANGED << rx, decoded, status >>

(* append_from_reader while the first k bytes in flight are readable: the  *)
(* socket returns them and then WouldBlock.  A call that appends nothing  *)
(* (a full ring's WriteZero, or WouldBlock at once) changes nothing.       *)
Receive(k) ==
    LET r == AppendFromReader(rx, [bytes |-> SubSeq(wire, 1, k), end |-> "WouldBlock"])
    IN  /\ status = "Running"
        /\ r.total > 0
        /\ rx' = r.ring
        /\ wire' = r.rest \o SubSeq(wire, k + 1, Len(wire))
        /\ UNCHANGED << sent, decoded, status >>

(* get_next_packet returning a packet or InvalidData.  After InvalidData   *)
(* every caller gives the connection up (complete() returns               *)
(* ProtocolViolation, the socket thread panics).                           *)
Decode ==
    LET r == GetNextPacket(rx)
    IN  /\ status = "Running"
        /\ r.result # "None"
        /\ rx' = r.ring
        /\ decoded' = IF r.result = "Packet" THEN Append(decoded, r.packet) ELSE decoded
        /\ status' = IF r.result = "Packet" THEN "Running" ELSE "InvalidData"
        /\ UNCHANGED << wire, sent >>

Next ==
    \/ \E p \in Packet : PeerSend(p)
    \/ \E k \in 1 .. Len(wire) : Receive(k)
    \/ Decode

(* Decode is enabled exactly when get_next_packet has something to say.   *)
DecodeEnabled == status = "Running" /\ GetNextPacket(rx).result # "None"

(* The client's loops (recv_task then read() in IotClient::process, or     *)
(* recv_next in the socket thread) call both operations again and again:   *)
(* weak fairness of each.  WF_vars(Decode) is written out with its        *)
(* enabling condition, []<>~ENABLED \/ []<><<Decode>>_vars, which TLC      *)
(* evaluates far faster than ENABLED of the CASE in GetNextPacket.         *)
Fairness ==
    /\ WF_vars(\E k \in 1 .. Len(wire) : Receive(k))
    /\ ([]<>~DecodeEnabled \/ []<><<Decode>>_vars)

Spec == Init /\ [][Next]_vars /\ Fairness

-----------------------------------------------------------------------------
TypeOK ==
    /\ rx \in Ring
    /\ wire \in Seq(Octet)
    /\ sent \in Seq(Packet)
    /\ decoded \in Seq(Packet)
    /\ status \in {"Running", "InvalidData"}

(* Packets come out of the packetizer in the order the peer sent them,     *)
(* none lost, doubled or invented, however the socket split the bytes and *)
(* wherever the ring wrapped: what get_next_packet returned is a prefix of *)
(* what was sent.                                                          *)
DecodedInOrder == IsPrefix(decoded, sent)

(* get_next_packet fails only on a packet that deserves it: when it       *)
(* returns InvalidData, the next packet the peer sent is a bad one (a     *)
(* reserved type, or longer than the ring).  An incomplete good packet     *)
(* waits for more bytes instead.                                           *)
InvalidDataOnlyForBadPacket ==
    status = "InvalidData" =>
        /\ Len(decoded) < Len(sent)
        /\ sent[Len(decoded) + 1] \in BadPacket

(* Every packet sent is eventually returned, unless the connection was    *)
(* given up on a bad packet: the packetizer never waits for bytes that    *)
(* have already arrived.                                                   *)
EveryPacketDecoded == <>[](status = "InvalidData" \/ decoded = sent)

=============================================================================

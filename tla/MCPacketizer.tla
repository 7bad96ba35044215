----------------------------- MODULE MCPacketizer -----------------------------
(* A six-byte ring, the smallest the packetizer allows plus one, so that   *)
(* a four-byte CONNACK or PUBACK wraps around its end, a six-byte PUBLISH  *)
(* fills it exactly and a PUBLISH announcing 130 bytes can never fit.      *)
(* Packets are byte-exact MQTT 3.1.1 encodings.                            *)
EXTENDS Packetizer

MCSize == 6
MCMaxPackets == 3

MCEncoding ==
    [CONNACK  |-> << 32, 2, 0, 0 >>,        \* session present 0, accepted
     PUBACK   |-> << 64, 2, 0, 1 >>,        \* packet id 1
     PINGRESP |-> << 208, 0 >>,
     PUBLISH  |-> << 48, 4, 0, 1, 65, 66 >>, \* QoS 0, topic "A", payload "B"
     HUGE     |-> << 48, 130, 1 >>,         \* remaining length 130 (header only)
     RESERVED |-> << 0, 0 >>]               \* packet type 0 is reserved

MCBadPacket == {"HUGE", "RESERVED"}

MCOctet == {0, 1, 2, 4, 32, 48, 64, 65, 66, 130, 208}

=============================================================================

------------------------------ MODULE MqttFraming ------------------------------
(***************************************************************************)
(* MqttPacketizer::get_next_packet (raiot-mqtt/src/packets/packetizer.rs) *)
(* as an operator over the RX ring.  A packet is a name; Encoding gives    *)
(* its bytes.  The fixed header is decoded the way the mqtt crate's        *)
(* FixedHeader::decode reads it: a type byte, then a variable-length       *)
(* remaining length of at most four bytes.                                 *)
(***************************************************************************)
EXTENDS CircularBuffer

CONSTANT Encoding       \* packet name -> its bytes on the wire

Packet == DOMAIN Encoding

(* MqttPacketizer::with_buffer_size asserts size >= MIN_BUFFER_SIZE (5).   *)
ASSUME Size >= 5

(***************************************************************************)
(* FixedHeader::decode over the bytes peeked: the remaining length is a    *)
(* base-128 number, low digits first, a set top bit meaning "more".  It    *)
(* runs out of bytes (Eof), is longer than four digits (Malformed), or     *)
(* gives the header length and the remaining length.  A type nibble of 0  *)
(* or 15 is reserved.                                                      *)
(***************************************************************************)
RECURSIVE RemainingLength(_, _, _)
RemainingLength(bytes, i, acc) ==
    IF Len(bytes) < i + 2
    THEN [kind |-> "Eof"]
    ELSE LET byte == bytes[i + 2]
             cur  == acc + (byte % 128) * 128^i
         IN  CASE i >= 4      -> [kind |-> "Malformed"]
               [] byte < 128  -> [kind |-> "Ok", hdr |-> i + 2, rem |-> cur]
               [] OTHER       -> RemainingLength(bytes, i + 1, cur)

ReservedType(byte) == byte \div 16 \in {0, 15}

DecodeFixedHeader(bytes) ==
    LET r == RemainingLength(bytes, 0, 0)
    IN  IF r.kind = "Ok" /\ ReservedType(bytes[1]) THEN [kind |-> "Reserved"] ELSE r

(* VariablePacket::decode: the bytes are a packet only if they are exactly *)
(* the encoding of one.                                                    *)
DecodePacket(bytes) ==
    IF \E p \in Packet : Encoding[p] = bytes
    THEN [kind |-> "Ok", packet |-> CHOOSE p \in Packet : Encoding[p] = bytes]
    ELSE [kind |-> "Invalid"]

(***************************************************************************)
(* get_next_packet, split at its decisions.  NeedsHeader: fewer than the   *)
(* two bytes of the shortest fixed header.  NeverFits: an incomplete       *)
(* packet longer than the whole ring.  TakePacket: read_bytes of the      *)
(* packet, which moves the read index before the packet is decoded.       *)
(***************************************************************************)
NeedsHeaderOffByOne(b) == ValidLength(b) <= 2
NeedsHeader(b) == ValidLength(b) <= 1

NeverFitsAlways(b, plen) == TRUE
NeverFits(b, plen) == Size < plen

TakePacketPeek(b, plen) == b
TakePacket(b, plen) == ReadBytes(b, plen)

(* The result is [ring, result, packet]; result is "None", "Packet" or     *)
(* "InvalidData", and packet is "none" unless a packet was decoded.        *)
GetNextPacket(b) ==
    LET valid == ValidLength(b)
        hdr   == DecodeFixedHeader(FlattenSeq(Peek(b, Min({valid, 5}))))
        plen  == hdr.hdr + hdr.rem
        none  == [ring |-> b, result |-> "None", packet |-> "none"]
        bad   == [ring |-> b, result |-> "InvalidData", packet |-> "none"]
    IN  CASE NeedsHeader(b)                 -> none
          [] hdr.kind = "Eof"               -> none
          [] hdr.kind # "Ok"                -> bad
          [] valid < plen /\ NeverFits(b, plen) -> bad
          [] valid < plen                   -> none
          [] OTHER ->
               LET d == DecodePacket(FlattenSeq(Peek(b, plen)))
               IN  [ring   |-> TakePacket(b, plen),
                    result |-> IF d.kind = "Ok" THEN "Packet" ELSE "InvalidData",
                    packet |-> IF d.kind = "Ok" THEN d.packet ELSE "none"]

=============================================================================

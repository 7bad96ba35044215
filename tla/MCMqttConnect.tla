----------------------------- MODULE MCMqttConnect -----------------------------
(* A six-byte RX ring, a CONNECT the socket may take in two pieces, and a  *)
(* deadline one tick away.  The broker accepts, accepts and at once sends  *)
(* a queued PUBLISH (a session that was present), refuses and closes as    *)
(* MQTT 3.1.1 requires of it, closes without a word, or misbehaves.        *)
EXTENDS MqttConnect

MCSize == 6
MCConnectLength == 2
MCTimeout == 1

MCEncoding ==
    [CONNACK_OK      |-> << 32, 2, 0, 0 >>,        \* return code 0, Accepted
     CONNACK_REFUSED |-> << 32, 2, 0, 5 >>,        \* return code 5, NotAuthorized
     PUBLISH         |-> << 48, 4, 0, 1, 65, 66 >>] \* QoS 0, topic "A", payload "B"

MCOctet == {0, 1, 2, 4, 5, 32, 48, 65, 66}

MCResponses ==
    { [packets |-> << "CONNACK_OK" >>, close |-> FALSE],
      [packets |-> << "CONNACK_OK", "PUBLISH" >>, close |-> FALSE],
      [packets |-> << "CONNACK_REFUSED" >>, close |-> TRUE],
      [packets |-> << >>, close |-> TRUE],
      [packets |-> << "PUBLISH" >>, close |-> FALSE] }

=============================================================================

------------------------------ MODULE MqttConnect ------------------------------
(***************************************************************************)
(* The nonblocking MQTT handshake of raiot-mqtt/src/connection.rs:         *)
(* MqttConnector::connect puts the CONNECT packet in the TX ring, and the  *)
(* caller polls MqttConnectionInProgress::complete until it stops          *)
(* returning WouldBlock (IotConnectionInProgress::complete in stclient).   *)
(*                                                                         *)
(* The CONNECT packet is the only packet of a fresh TX ring, so it never   *)
(* wraps: the TX ring is the count of its bytes the socket has taken.  The *)
(* RX ring is the packetizer's ring with its real framing.  The broker     *)
(* answers once it has the whole CONNECT, with one of Responses: packets   *)
(* to send and whether it then closes the connection.  Time is a tick     *)
(* counter; complete() compares the time elapsed with the timeout.         *)
(***************************************************************************)
EXTENDS MqttFraming

CONSTANTS
    ConnectLength,  \* encoded length of the CONNECT packet
    Responses,      \* what the broker may answer: [packets, close]
    ConnackAccepted,       \* the CONNACK packet with return code Accepted
    ConnackRefused,        \* CONNACK packets with another return code
    Timeout         \* connect_timeout, in ticks

ASSUME ConnackAccepted \in Packet /\ ConnackRefused \subseteq Packet /\ ConnackAccepted \notin ConnackRefused

Connack == {ConnackAccepted} \cup ConnackRefused

(* The values of MqttConnectError that end the handshake, and the result   *)
(* of a successful one.                                                    *)
Verdict == {"Connected", "ConnectFailed", "ProtocolViolation",
            "TimedOut", "ConnectionAborted", "WriteZero"}

VARIABLES
    txSent,     \* bytes of CONNECT the socket has taken
    rx,         \* the packetizer's ring
    toClient,   \* bytes the broker sent that the client has not read
    closed,     \* the broker closed its end after those bytes
    answer,     \* << >> until the broker answers, then << its response >>
    clock,      \* ticks since connect()
    result      \* "Connecting" while complete() returns WouldBlock, then a Verdict

vars == << txSent, rx, toClient, closed, answer, clock, result >>

Init ==
    /\ txSent = 0
    /\ rx = New
    /\ toClient = << >>
    /\ closed = FALSE
    /\ answer = << >>
    /\ clock = 0
    /\ result = "Connecting"

(***************************************************************************)
(* The read loop of complete(): append_from_reader until it fails.  The    *)
(* socket holds bytes and then returns end ("WouldBlock", or "Eof" when    *)
(* the broker closed).  Ok(0) ends the handshake as ConnectionAborted,     *)
(* WouldBlock leaves the loop, any other error (WriteZero from a full      *)
(* ring) ends the handshake with that error; Ok(n) loops.  The result is   *)
(* [ring, outcome]: outcome "Break" or the error.                          *)
(***************************************************************************)
(* The read loop without its WouldBlock arm: the error is returned as it   *)
(* is, instead of leaving the loop.                                        *)
RECURSIVE ReadLoopNoBreak(_, _, _)
ReadLoopNoBreak(b, bytes, end) ==
    LET r == AppendFromReader(b, [bytes |-> bytes, end |-> end])
    IN  CASE r.result = "Ok" /\ r.total = 0     -> [ring |-> r.ring, outcome |-> "ConnectionAborted"]
          [] r.result = "Ok"                    -> ReadLoopNoBreak(r.ring, r.rest, end)
          [] OTHER                              -> [ring |-> r.ring, outcome |-> r.result]

(* The read loop returning WouldBlock(self) on WouldBlock, so that         *)
(* get_next_packet is never reached.                                       *)
RECURSIVE ReadLoopBlockReturns(_, _, _)
ReadLoopBlockReturns(b, bytes, end) ==
    LET r == AppendFromReader(b, [bytes |-> bytes, end |-> end])
    IN  CASE r.result = "WouldBlock"            -> [ring |-> r.ring, outcome |-> "Connecting"]
          [] r.result = "Ok" /\ r.total = 0     -> [ring |-> r.ring, outcome |-> "ConnectionAborted"]
          [] r.result = "Ok"                    -> ReadLoopBlockReturns(r.ring, r.rest, end)
          [] OTHER                              -> [ring |-> r.ring, outcome |-> r.result]

RECURSIVE ReadLoop(_, _, _)
ReadLoop(b, bytes, end) ==
    LET r == AppendFromReader(b, [bytes |-> bytes, end |-> end])
    IN  CASE r.result = "WouldBlock"            -> [ring |-> r.ring, outcome |-> "Break"]
          [] r.result = "Ok" /\ r.total = 0     -> [ring |-> r.ring, outcome |-> "ConnectionAborted"]
          [] r.result = "Ok"                    -> ReadLoop(r.ring, r.rest, end)
          [] OTHER                              -> [ring |-> r.ring, outcome |-> r.result]

(* process_connack and the match on get_next_packet's result.              *)
ProcessConnackIgnoringCode(p) == "Connected"
ProcessConnack(p) == IF p = ConnackAccepted THEN "Connected" ELSE "ConnectFailed"

PacketVerdict(g) ==
    CASE g.result = "None"                      -> "Connecting"
      [] g.result = "Packet" /\ g.packet \in Connack -> ProcessConnack(g.packet)
      [] OTHER                                  -> "ProtocolViolation"

(***************************************************************************)
(* One call of complete(), as the state it leaves: [txSent, rx, toClient,  *)
(* result].  The socket takes n more bytes of CONNECT in send_next and     *)
(* then blocks, unless n finishes the packet; k bytes of what the broker   *)
(* sent have reached the client's socket.  The deadline is checked first,  *)
(* then send_next, then the read loop, then get_next_packet.               *)
(***************************************************************************)
CompleteCall(n, k) ==
    LET sent    == txSent + n
        end     == IF k = Len(toClient) /\ closed THEN "Eof" ELSE "WouldBlock"
        loop    == ReadLoop(rx, SubSeq(toClient, 1, k), end)
        g       == GetNextPacket(loop.ring)
        unread  == SubSeq(toClient, k + 1, Len(toClient))
    IN  CASE clock > Timeout ->
                [txSent |-> txSent, rx |-> rx, toClient |-> toClient, result |-> "TimedOut"]
          [] sent < ConnectLength ->
                [txSent |-> sent, rx |-> rx, toClient |-> toClient, result |-> result]
          [] loop.outcome # "Break" ->
                [txSent |-> sent, rx |-> loop.ring, toClient |-> unread, result |-> loop.outcome]
          [] OTHER ->
                [txSent |-> sent, rx |-> g.ring, toClient |-> unread, result |-> PacketVerdict(g)]

Complete(n, k) ==
    LET o == CompleteCall(n, k)
    IN  /\ result = "Connecting"
        /\ n \in 0 .. ConnectLength - txSent
        /\ k \in 0 .. Len(toClient)
        /\ txSent' = o.txSent
        /\ rx' = o.rx
        /\ toClient' = o.toClient
        /\ result' = o.result
        /\ UNCHANGED << closed, answer, clock >>

(* The broker, having read the whole CONNECT, answers.                     *)
BrokerAnswer(resp) ==
    /\ answer = << >>
    /\ txSent = ConnectLength
    /\ answer' = << resp >>
    /\ toClient' = FlattenSeq([i \in 1 .. Len(resp.packets) |-> Encoding[resp.packets[i]]])
    /\ UNCHANGED << txSent, rx, clock, result, closed >>

(* A broker whose answer ends the connection closes it.  The FIN may reach *)
(* the client with the answer's last bytes or after the client read them.  *)
BrokerClose ==
    /\ answer # << >>
    /\ answer[1].close
    /\ ~closed
    /\ closed' = TRUE
    /\ UNCHANGED << txSent, rx, toClient, answer, clock, result >>

(* Time passes; complete() only tells clock > Timeout from the rest.       *)
Tick ==
    /\ clock <= Timeout
    /\ clock' = clock + 1
    /\ UNCHANGED << txSent, rx, toClient, closed, answer, result >>

CompleteAny == \E n \in 0 .. ConnectLength, k \in 0 .. Len(toClient) : Complete(n, k)

Next ==
    \/ CompleteAny
    \/ \E resp \in Responses : BrokerAnswer(resp)
    \/ BrokerClose
    \/ Tick

(* Complete is enabled, as a step that changes something, exactly when     *)
(* some call of complete() would leave another state.                      *)
CompleteEnabled ==
    /\ result = "Connecting"
    /\ \E n \in 0 .. ConnectLength - txSent, k \in 0 .. Len(toClient) :
           CompleteCall(n, k) # [txSent |-> txSent, rx |-> rx, toClient |-> toClient, result |-> result]

(* The caller polls complete() as long as it returns WouldBlock, the       *)
(* socket eventually takes bytes and delivers them, and the broker answers *)
(* a CONNECT: weak fairness of Complete (written out with its enabling     *)
(* condition, which TLC evaluates far faster than ENABLED) and of           *)
(* BrokerAnswer.  Time need not pass.                                      *)
Spec ==
    /\ Init /\ [][Next]_vars
    /\ ([]<>~CompleteEnabled \/ []<><<CompleteAny>>_vars)
    /\ WF_vars(\E resp \in Responses : BrokerAnswer(resp))

-----------------------------------------------------------------------------
TypeOK ==
    /\ txSent \in 0 .. ConnectLength
    /\ rx \in Ring
    /\ toClient \in Seq(Octet)
    /\ closed \in BOOLEAN
    /\ answer \in {<< >>} \cup {<< r >> : r \in Responses}
    /\ clock \in 0 .. Timeout + 1
    /\ result \in Verdict \cup {"Connecting"}

(* The broker's first packet, if it sent one.                              *)
FirstPacket == IF answer # << >> /\ answer[1].packets # << >> THEN answer[1].packets[1] ELSE "none"

(* The handshake's verdict is the broker's: complete() returns a           *)
(* connection only on a CONNACK that accepted, ConnectFailed only on one  *)
(* that refused, and ProtocolViolation only when the broker's first packet *)
(* was not a CONNACK.  This is process_connack and the match on            *)
(* get_next_packet's result, after any split of the CONNACK across reads.  *)
VerdictMatchesBroker ==
    /\ result = "Connected" => FirstPacket = ConnackAccepted
    /\ result = "ConnectFailed" => FirstPacket \in ConnackRefused
    /\ result = "ProtocolViolation" => FirstPacket \notin Connack

(* A broker that sent a CONNACK is never reported as having closed the     *)
(* connection without an answer: ConnectionAborted only when no CONNACK    *)
(* came (spec.md S3: a CONNACK(NotAuthorized) gives                        *)
(* ConnectFailed(NotAuthorized)).                                          *)
AbortedOnlyWithoutConnack == result = "ConnectionAborted" => FirstPacket \notin Connack

(* The number of bytes the broker answered with.                           *)
AnswerLength == IF answer = << >> THEN 0
                ELSE Len(FlattenSeq([i \in 1 .. Len(answer[1].packets) |-> Encoding[answer[1].packets[i]]]))

(* A broker that accepts and keeps the connection open leads to a          *)
(* connection, unless the deadline passes first, or unless its answer is   *)
(* at least as long as the RX ring: then the read loop can fill the ring,  *)
(* and its next append_from_reader fails with WriteZero before the         *)
(* CONNACK is decoded (connection.rs:186-196).  complete() never keeps     *)
(* returning WouldBlock with the CONNACK in reach, and never reports       *)
(* WriteZero for an answer that cannot fill the ring.                      *)
AcceptLeadsToConnected ==
    (answer # << >> /\ FirstPacket = ConnackAccepted /\ ~closed)
        ~> \/ result \in {"Connected", "TimedOut"}
           \/ result = "WriteZero" /\ AnswerLength >= Size

=============================================================================

------------------------------ MODULE IotSocket ------------------------------
(***************************************************************************)
(* The threaded IoT Hub client of raiot-client: DeviceClient (lib.rs) on   *)
(* top of IotSocket (iot_socket.rs).                                       *)
(*                                                                         *)
(* Threads and their steps:                                                *)
(*  - the application, which calls DeviceClient's methods and polls the    *)
(*    future it awaits (one call at a time, as an async fn does);          *)
(*  - the socket thread, IotSocketCtl::socket_loop: send_next until it     *)
(*    returns false, then recv_next until it returns false;               *)
(*  - the read loop that DeviceClient::new spawns, which dispatches the   *)
(*    messages the socket thread forwards;                                 *)
(*  - the threads the read loop spawns to run a C2D or DMI handler;        *)
(*  - the hub.                                                             *)
(* A step is one body under its mutex or one channel operation.  Packets  *)
(* are records; the bytes underneath are the Packetizer's, and writes are  *)
(* whole here (try_send's write_all).  Topics are IotCodec's strings: the  *)
(* socket thread encodes a message's topic, the hub reads the request id   *)
(* and the headers from it, and recv_next decodes the hub's answer.        *)
(***************************************************************************)
EXTENDS Naturals, Sequences, SequencesExt, IotCodec

CONSTANTS
    Width,          \* bits of the packet id counter (16 in the code)
    MaxOps,         \* application calls at most
    MaxPushes,      \* C2D and DMI messages the hub sends at most
    SubModes,       \* DeliveryGuarantees (QoS 0, 1) the application subscribes with
    HubPids,        \* packet ids the hub gives its QoS 1 C2D messages
    WriteFails,     \* whether try_send may fail with an error other than WouldBlock
    C2DProps,       \* the property bags the hub's C2D messages carry
    C2DBodies,      \* the JSON kinds of the hub's C2D message bodies
    DmiMethods,     \* the method names the hub invokes
    DmiStatuses     \* the status codes the DMI handler returns

(* DeliveryGuarantees as the QoS level encode_subscription asks for:      *)
(* AtMostOnce is 0, AtLeastOnce is 1.                                      *)
DeliveryGuarantees == {0, 1}

ASSUME SubModes \subseteq DeliveryGuarantees

Id == 0 .. 2^Width - 1
NoId == -1                      \* Option<PacketId>::None: a QoS 0 publish

(* MsgStatus *)
MsgStatus == {"Pending", "Sent", "SendFailed", "Acknowledged", "Rejected", "TimedOut"}

(* impl From<SubRes> for MsgStatus *)
FromSubRes(ok) == IF ok THEN "Acknowledged" ELSE "Rejected"

(* The MsgToHub kinds DeviceClient sends. *)
Kind == {"telemetry", "twin_sub", "twin_get", "c2d_sub", "dmi_sub", "dmi_res", "c2d_ack"}

(* A MessageInFlight with its shared MessageState.  A publish's QoS is    *)
(* whether it has a packet id (packet_id_to_qos).                          *)
(* arg is the subscription's DeliveryGuarantees (QoS 0 or 1), or the      *)
(* request_id of a twin GET.  A telemetry message carries its headers     *)
(* (an Option<HashMap>) and the order the HashMap iterates its keys in.    *)
(* A DirectMethodRes carries its status in arg and the invocation's        *)
(* request_id string.                                                      *)
NewMsg(kind, pid, arg) ==
    [kind |-> kind, pid |-> pid, arg |-> arg, st |-> "Pending", waker |-> FALSE,
     headers |-> None, order |-> << >>, requestId |-> ""]

(* What the application is doing: idle, awaiting one of its futures, or   *)
(* stopped by an unwrap() of an Err.                                       *)
AppPc == {"idle", "telemetry", "twin_sub", "twin_get", "twin_res", "panicked"}
Awaiting == AppPc \ {"idle", "panicked"}

VARIABLES
    numerator,      \* DeviceClient.packet_id: PacketsNumerator.value
    msgs,           \* every MessageInFlight ever sent; an index is its handle
    queue,          \* the mpsc channel IotSocketTx -> IotSocketCtl, as indices
    txBuf,          \* IotSocketCtl.tx_buf: a held index, or 0
    phase,          \* where socket_loop is: the send loop or the recv loop
    awaitingAcks,   \* IotSocketCtl.awaiting_acks: Id -> index, 0 = no entry
    wire,           \* packets try_send wrote, not yet read by the hub
    toClient,       \* packets the hub sent, not yet read by recv_next
    incoming,       \* the mpsc channel IotSocketCtl -> read loop
    workers,        \* handler threads the read loop spawned, not yet done
    app,            \* [pc, fut]: the application and the future it awaits
    runnable,       \* the application's task is not parked on a waker
    c2dHandler,     \* DeviceClient.c2d_handler is Some
    dmiHandler,     \* DeviceClient.dmi_handler is Some
    subscribedToTwin,   \* DeviceClient.subscribed_to_twin
    awaitingResponse,   \* DeviceClient.awaiting_response: request ids
    twinResult,     \* [rid, status, version] of each RequestState.result that is Some
    twinWaker,      \* the TwinFuture's RequestState.waker is Some
    rid,            \* request ids handed out (Uuid::new_v4)
    ops,            \* application calls so far
    pushes,         \* C2D and DMI messages the hub sent so far
    hubSubs,        \* topic -> QoS the hub holds a subscription for
    \* history, for the properties
    hubAcked,       \* indices of messages the hub acknowledged
    hubRefused,     \* indices of SUBSCRIBEs the hub refused
    hubAnswers,     \* [rid, code, version] of each twin response the hub sent
    hubC2DSent,     \* [pid, props] of each C2D message the hub sent
    hubDmiSent,     \* [rid, method] of each direct method the hub invoked
    hubDmiAnswers,  \* [rid, status] of each direct method response the hub read
    okCalls         \* indices of futures that returned Ready(Ok)

vars == << numerator, msgs, queue, txBuf, phase, awaitingAcks, wire, toClient,
           incoming, workers, app, runnable, c2dHandler, dmiHandler,
           subscribedToTwin, awaitingResponse, twinResult, twinWaker, rid,
           ops, pushes, hubSubs, hubAcked, hubRefused, hubAnswers, hubC2DSent, hubDmiSent,
           hubDmiAnswers, okCalls >>

(* IotSocket::connect, once connect() returned the stream, and            *)
(* DeviceClient::new.                                                      *)
Init ==
    /\ numerator = 0
    /\ msgs = << >>
    /\ queue = << >>
    /\ txBuf = 0
    /\ phase = "send"
    /\ awaitingAcks = [p \in Id |-> 0]
    /\ wire = << >>
    /\ toClient = << >>
    /\ incoming = << >>
    /\ workers = << >>
    /\ app = [pc |-> "idle", fut |-> 0]
    /\ runnable = TRUE
    /\ c2dHandler = FALSE
    /\ dmiHandler = FALSE
    /\ subscribedToTwin = FALSE
    /\ awaitingResponse = {}
    /\ twinResult = {}
    /\ twinWaker = FALSE
    /\ rid = 0
    /\ ops = 0
    /\ pushes = 0
    /\ hubSubs = [t \in {"c2d", "dmi", "twin_res"} |-> NoId]
    /\ hubAcked = {}
    /\ hubRefused = {}
    /\ hubAnswers = {}
    /\ hubC2DSent = {}
    /\ hubDmiSent = {}
    /\ hubDmiAnswers = {}
    /\ okCalls = {}

(* PacketsNumerator::next, release build: the u16 add wraps. *)
NextId == (numerator + 1) % 2^Width

(* IotSocketTx::send: the message joins the channel with a fresh state.   *)
(* The new handle is Len(msgs) + 1.                                        *)
Enqueue(msg) ==
    /\ msgs' = Append(msgs, msg)
    /\ queue' = Append(queue, Len(msgs) + 1)

SendMsg(kind, pid, arg) == Enqueue(NewMsg(kind, pid, arg))

(* Mutant: poll takes Sent for done whether or not an ack is required. *)
FuturePollNoAck(m) ==
    CASE m.st = "Pending"                  -> "pending"
      [] m.st \in {"Sent", "Acknowledged"} -> "ok"
      [] OTHER                             -> "err"

(* ack_required: MsgToHub::packet_id() is Some. *)
AckRequired(m) == m.pid # NoId

(* MessageFuture::poll on the message state m: "pending" (the waker is    *)
(* stored), "ok" or "err".                                                 *)
FuturePoll(m) ==
    CASE m.st = "Pending"                    -> "pending"
      [] m.st = "Sent" /\ AckRequired(m)     -> "pending"
      [] m.st \in {"Sent", "Acknowledged"}   -> "ok"
      [] OTHER                               -> "err"

AppCall == app.pc = "idle" /\ ops < MaxOps /\ ops' = ops + 1

HubLogUnchanged == UNCHANGED << hubRefused, hubAnswers, hubC2DSent, hubDmiSent, hubDmiAnswers >>
HubUnchanged == UNCHANGED << wire, toClient, pushes, hubSubs, hubAcked >> /\ HubLogUnchanged
SocketUnchanged == UNCHANGED << txBuf, phase, awaitingAcks, incoming, workers >>
TwinUnchanged == UNCHANGED << subscribedToTwin, awaitingResponse, twinResult,
                              twinWaker, rid >>

(* The orders a HashMap may iterate an Option<HashMap>'s keys in. *)
KeyOrders(headers) ==
    IF headers = None THEN {<< >>} ELSE SetToSeqs(DOMAIN headers[1])

(* send_telemetry: the TelemetryMsg, with the caller's headers, takes the *)
(* next packet id; the call awaits its future.                             *)
SendTelemetry ==
    /\ AppCall
    /\ numerator' = NextId
    /\ \E h \in Headers : \E order \in KeyOrders(h) :
          Enqueue([NewMsg("telemetry", NextId, 1) EXCEPT !.headers = h, !.order = order])
    /\ app' = [pc |-> "telemetry", fut |-> Len(msgs) + 1]
    /\ runnable' = TRUE
    /\ UNCHANGED << c2dHandler, dmiHandler, okCalls >>
    /\ SocketUnchanged /\ TwinUnchanged /\ HubUnchanged

(* set_c2d_handler and set_dmi_handler: the first handler set sends the   *)
(* subscription with the given DeliveryGuarantees (0 or 1), and drops its  *)
(* future; a later one only replaces the handler.  A module identity      *)
(* panics in set_c2d_handler: the model is a device.                      *)
SetHandler(kind, handler, mode) ==
    /\ AppCall
    /\ handler' = TRUE
    /\ IF handler THEN UNCHANGED << numerator, msgs, queue >>
                  ELSE /\ numerator' = NextId
                       /\ SendMsg(kind, NextId, mode)
    /\ UNCHANGED << app, runnable, okCalls >>
    /\ SocketUnchanged /\ TwinUnchanged /\ HubUnchanged

SetC2DHandler(mode) ==
    SetHandler("c2d_sub", c2dHandler, mode) /\ UNCHANGED dmiHandler

SetDmiHandler(mode) ==
    SetHandler("dmi_sub", dmiHandler, mode) /\ UNCHANGED c2dHandler

(* Mutant: the request is registered under another id than the GET's. *)
RequestTwinStaleRid ==
    /\ rid' = rid + 1
    /\ awaitingResponse' = awaitingResponse \cup {rid}
    /\ numerator' = NextId
    /\ SendMsg("twin_get", NextId, rid + 1)
    /\ app' = [pc |-> "twin_get", fut |-> Len(msgs) + 1]

(* read_twin, after the twin subscription: a fresh request id is          *)
(* registered in awaiting_response before the GET is sent, and the call   *)
(* awaits the GET's future.                                                *)
RequestTwin ==
    /\ rid' = rid + 1
    /\ awaitingResponse' = awaitingResponse \cup {rid + 1}
    /\ numerator' = NextId
    /\ SendMsg("twin_get", NextId, rid + 1)
    /\ app' = [pc |-> "twin_get", fut |-> Len(msgs) + 1]

(* read_twin: the first call subscribes to twin reads with QoS 1 and      *)
(* awaits the SUBACK before it requests the twin.                         *)
ReadTwin ==
    /\ AppCall
    /\ IF subscribedToTwin
          THEN RequestTwin
          ELSE /\ numerator' = NextId
               /\ SendMsg("twin_sub", NextId, 1)
               /\ app' = [pc |-> "twin_sub", fut |-> Len(msgs) + 1]
               /\ UNCHANGED << awaitingResponse, rid >>
    /\ runnable' = TRUE
    /\ UNCHANGED << c2dHandler, dmiHandler, subscribedToTwin, twinResult,
                    twinWaker, okCalls >>
    /\ SocketUnchanged /\ HubUnchanged

(* The application polls the MessageFuture it awaits.  Pending stores the *)
(* waker and parks the task.  Ready resumes the async fn: send_telemetry  *)
(* returns; read_twin unwraps the result (an Err panics) and goes on to   *)
(* the GET, then to the TwinFuture.                                        *)
PollMsgFuture ==
    /\ app.pc \in {"telemetry", "twin_sub", "twin_get"}
    /\ runnable
    /\ LET r == FuturePoll(msgs[app.fut]) IN
       IF r = "pending"
       THEN /\ msgs' = [msgs EXCEPT ![app.fut].waker = TRUE]
            /\ runnable' = FALSE
            /\ UNCHANGED << numerator, queue, app, subscribedToTwin,
                            awaitingResponse, rid, okCalls >>
       ELSE /\ okCalls' = IF r = "ok" THEN okCalls \cup {app.fut} ELSE okCalls
            /\ runnable' = TRUE
            /\ CASE r = "err" /\ app.pc # "telemetry" ->
                      /\ app' = [pc |-> "panicked", fut |-> app.fut]
                      /\ UNCHANGED << numerator, msgs, queue, subscribedToTwin,
                                      awaitingResponse, rid >>
                 [] app.pc = "twin_sub" ->
                      subscribedToTwin' = TRUE /\ RequestTwin
                 [] app.pc = "twin_get" ->
                      /\ app' = [pc |-> "twin_res", fut |-> 0]
                      /\ UNCHANGED << numerator, msgs, queue, subscribedToTwin,
                                      awaitingResponse, rid >>
                 [] OTHER ->
                      /\ app' = [pc |-> "idle", fut |-> 0]
                      /\ UNCHANGED << numerator, msgs, queue, subscribedToTwin,
                                      awaitingResponse, rid >>
    /\ UNCHANGED << ops, c2dHandler, dmiHandler, twinResult, twinWaker >>
    /\ SocketUnchanged /\ HubUnchanged

(* TwinFuture::poll: take the result if the read loop stored it, else     *)
(* store the waker and park.                                               *)
PollTwinFuture ==
    /\ app.pc = "twin_res"
    /\ runnable
    /\ LET mine == {res \in twinResult : res.rid = rid} IN
       IF mine # {}
          THEN /\ twinResult' = twinResult \ mine
               /\ app' = [pc |-> "idle", fut |-> 0]
               /\ UNCHANGED << runnable, twinWaker >>
          ELSE /\ twinWaker' = TRUE
               /\ runnable' = FALSE
               /\ UNCHANGED << twinResult, app >>
    /\ UNCHANGED << numerator, msgs, queue, ops, c2dHandler, dmiHandler,
                    subscribedToTwin, awaitingResponse, rid, okCalls >>
    /\ SocketUnchanged /\ HubUnchanged

(***************************************************************************)
(* The socket thread.                                                      *)
(***************************************************************************)

AppUnchanged == UNCHANGED << numerator, app, ops, c2dHandler, dmiHandler,
                             okCalls >> /\ TwinUnchanged

(* take_next_outgoing_msg: the held message, else the channel's head.     *)
NextOutgoing == IF txBuf # 0 THEN txBuf
                ELSE IF queue # << >> THEN Head(queue) ELSE 0
QueueAfterTake == IF txBuf = 0 /\ queue # << >> THEN Tail(queue) ELSE queue

(* How try_send ends: write_all wrote everything, or stopped at WouldBlock *)
(* or at another error.  try_send retries write_all on Interrupted, so     *)
(* send_next never sees Interrupted.                                       *)
SendOutcome == {"ok", "wouldblock"}
                   \cup (IF WriteFails THEN {"error"} ELSE {})

(* The awaiting_acks entry send_next makes before try_send: only when the *)
(* message has a packet id and the id has no entry yet.                    *)
RegisterAck(m) ==
    LET pid == msgs[m].pid IN
    IF AckRequired(msgs[m]) /\ awaitingAcks[pid] = 0
    THEN [awaitingAcks EXCEPT ![pid] = m]
    ELSE awaitingAcks

(* Uuid::new_v4().to_string() in read_twin: a distinct string for each    *)
(* request id.                                                             *)
Uuid(n) == "7c9e6679-" \o Decimal(n)

(* IotCodec::encode_message, as far as the topic: a telemetry message's    *)
(* topic carries the headers, a twin GET's the request id.  The other      *)
(* packets' topics or filters are constants the hub is not told apart by.  *)
Encode(m) ==
    CASE m.kind = "telemetry" -> TelemetryTopic(Client, m.headers, m.order)
      [] m.kind = "twin_get"  -> ReadTwinTopic(Uuid(m.arg))
      [] m.kind = "dmi_res"   -> DmiResponseTopic(m.arg, m.requestId)
      [] OTHER                -> ""

(* try_send of the encoded packet, and what send_next does with each      *)
(* outcome: Ok marks the message Sent (no wake); WouldBlock holds it in    *)
(* tx_buf and ends the send loop; another error marks it SendFailed (no    *)
(* wake) and leaves its awaiting_acks entry in place.                      *)
SendEncoded(m, topic, outcome) ==
    CASE outcome = "ok" ->
              /\ wire' = Append(wire, [idx |-> m, topic |-> topic])
              /\ msgs' = [msgs EXCEPT ![m].st = "Sent"]
              /\ txBuf' = 0
              /\ UNCHANGED phase
      [] outcome = "error" ->
              /\ msgs' = [msgs EXCEPT ![m].st = "SendFailed"]
              /\ txBuf' = 0
              /\ UNCHANGED << wire, phase >>
      [] outcome = "wouldblock" ->
              /\ txBuf' = m
              /\ phase' = "recv"
              /\ UNCHANGED << msgs, wire >>

(* send_next with a message at hand: IotCodec::encode comes first, and   *)
(* the expect() ends the socket thread on a topic TopicName rejects; then *)
(* the awaiting_acks entry, then try_send.                                 *)
SendNext(outcome) ==
    LET m == NextOutgoing
        topic == Encode(msgs[m]) IN
    /\ phase = "send"
    /\ m # 0
    /\ outcome \in SendOutcome
    /\ queue' = QueueAfterTake
    /\ IF topic = "panic"
       THEN /\ phase' = "panicked"
            /\ UNCHANGED << awaitingAcks, msgs, txBuf, wire >>
       ELSE /\ awaitingAcks' = RegisterAck(m)
            /\ SendEncoded(m, topic, outcome)
    /\ UNCHANGED << toClient, incoming, workers, runnable, pushes, hubSubs,
                    hubAcked >>
    /\ HubLogUnchanged /\ AppUnchanged

(* send_next with nothing to send returns false: on to the recv loop.     *)
SendIdle ==
    /\ phase = "send"
    /\ NextOutgoing = 0
    /\ phase' = "recv"
    /\ UNCHANGED << msgs, queue, txBuf, awaitingAcks, wire, toClient,
                    incoming, workers, runnable, pushes, hubSubs, hubAcked >>
    /\ HubLogUnchanged /\ AppUnchanged

HandleAckNoWake(pid, result) ==
    LET m == awaitingAcks[pid] IN
    IF m # 0
    THEN /\ awaitingAcks' = [awaitingAcks EXCEPT ![pid] = 0]
         /\ msgs' = [msgs EXCEPT ![m].st = result, ![m].waker = FALSE]
         /\ UNCHANGED runnable
    ELSE UNCHANGED << awaitingAcks, msgs, runnable >>

(* handle_ack: remove the id's entry, set its status, and wake its waker. *)
(* Only the application stores wakers.  An id with no entry is ignored.   *)
HandleAck(pid, result) ==
    LET m == awaitingAcks[pid] IN
    IF m # 0
    THEN /\ awaitingAcks' = [awaitingAcks EXCEPT ![pid] = 0]
         /\ msgs' = [msgs EXCEPT ![m].st = result, ![m].waker = FALSE]
         /\ runnable' = (runnable \/ msgs[m].waker)
    ELSE UNCHANGED << awaitingAcks, msgs, runnable >>

(* SubscribeReturnCode::Failure, 0x80 on the wire. *)
Failure == 128

(* Mutant: only a grant of QoS 1 is taken for success. *)
SubackOkExact(code) == code = 1

(* decode_suback_packet: every return code but Failure is Ok(()), a grant *)
(* of a lower QoS than asked for included.                                 *)
SubackOk(code) == code # Failure

(* handle_incoming_msg: SUBACK and PUBACK go to handle_ack, the rest to   *)
(* the read loop.                                                          *)
HandleIncomingMsg(pkt) ==
    CASE pkt.type = "suback" ->
              HandleAck(pkt.pid, FromSubRes(SubackOk(pkt.code))) /\ UNCHANGED incoming
      [] pkt.type = "puback" ->
              HandleAck(pkt.pid, "Acknowledged") /\ UNCHANGED incoming
      [] OTHER ->
              /\ incoming' = Append(incoming, pkt)
              /\ UNCHANGED << awaitingAcks, msgs, runnable >>

(* IotCodec::decode_packet: a PUBLISH is decoded from its topic; the other *)
(* packets are records already.                                           *)
DecodePacket(pkt) ==
    IF pkt.type = "publish" THEN DecodePublish(pkt.topic, pkt.payload, pkt.pid) ELSE pkt

(* recv_next with a whole packet in the packetizer: decode it and handle  *)
(* it.  A decoding error, or a panic in the decoder, ends the socket      *)
(* thread.                                                                 *)
RecvNext ==
    LET msg == DecodePacket(Head(toClient)) IN
    /\ phase = "recv"
    /\ toClient # << >>
    /\ toClient' = Tail(toClient)
    /\ IF msg.type \in {"err", "panic"}
          THEN /\ phase' = "panicked"
               /\ UNCHANGED << awaitingAcks, msgs, runnable, incoming >>
          ELSE HandleIncomingMsg(msg) /\ UNCHANGED phase
    /\ UNCHANGED << queue, txBuf, wire, workers, pushes, hubSubs, hubAcked >>
    /\ HubLogUnchanged /\ AppUnchanged

(* recv_next when the socket has nothing more (WouldBlock): back to the   *)
(* send loop after the 1 ms sleep.                                         *)
RecvIdle ==
    /\ phase = "recv"
    /\ toClient = << >>
    /\ phase' = "send"
    /\ UNCHANGED << msgs, queue, txBuf, awaitingAcks, wire, toClient,
                    incoming, workers, runnable, pushes, hubSubs, hubAcked >>
    /\ HubLogUnchanged /\ AppUnchanged

(***************************************************************************)
(* The read loop DeviceClient::new spawns, and the handler threads.        *)
(***************************************************************************)

(* One iteration: rx.recv() and the dispatch.  A twin response fills the  *)
(* RequestState whose request id string it carries and wakes it.  A DMI   *)
(* goes to a new handler thread, or, with no handler, is answered 501     *)
(* from here under its request_id.  A C2D goes to a new handler thread,   *)
(* which acks it if it was QoS 1; with no handler it is dropped.  A       *)
(* handler thread is the request it serves: the DMI's request_id and      *)
(* method name, or the C2D's device id, properties and packet id.         *)
Handler(kind, msg) ==
    [kind |-> kind, pid |-> msg.pid,
     rid |-> IF kind = "dmi_res" THEN msg.rid ELSE "",
     method |-> IF kind = "dmi_res" THEN msg.method ELSE "",
     device |-> IF kind = "c2d_ack" THEN msg.device ELSE "",
     props |-> IF kind = "c2d_ack" THEN msg.props ELSE None]

(* A DirectMethodRes: QoS 0, the status, and the invocation's request_id. *)
DmiRes(status, requestId) == [NewMsg("dmi_res", NoId, status) EXCEPT !.requestId = requestId]

ReadLoop ==
    LET msg == Head(incoming) IN
    /\ incoming # << >>
    /\ incoming' = Tail(incoming)
    /\ CASE msg.type = "twin_res" /\ \E r \in awaitingResponse : Uuid(r) = msg.rid ->
              LET r == CHOOSE r \in awaitingResponse : Uuid(r) = msg.rid IN
              /\ awaitingResponse' = awaitingResponse \ {r}
              /\ twinResult' = twinResult \cup
                    {[rid |-> r, status |-> msg.status, version |-> msg.version]}
              /\ twinWaker' = FALSE
              /\ runnable' = (runnable \/ twinWaker)
              /\ UNCHANGED << msgs, queue, workers >>
         [] msg.type = "dmi" /\ ~dmiHandler ->
              /\ Enqueue(DmiRes(501, msg.rid))
              /\ UNCHANGED << workers, runnable, awaitingResponse, twinResult,
                              twinWaker >>
         [] msg.type = "dmi" \/ (msg.type = "c2d" /\ c2dHandler) ->
              /\ workers' = Append(workers,
                    Handler(IF msg.type = "dmi" THEN "dmi_res" ELSE "c2d_ack", msg))
              /\ UNCHANGED << msgs, queue, runnable, awaitingResponse,
                              twinResult, twinWaker >>
         [] OTHER ->
              UNCHANGED << msgs, queue, workers, runnable, awaitingResponse,
                           twinResult, twinWaker >>
    /\ UNCHANGED << numerator, app, ops, c2dHandler, dmiHandler,
                    subscribedToTwin, rid, okCalls, txBuf, phase, awaitingAcks >>
    /\ HubUnchanged

(* Mutant: the handler thread sends only what carries a packet id, as for *)
(* a C2D ack, and drops the QoS 0 DirectMethodRes.                        *)
WorkerDropsDmiRes(i) ==
    LET w == workers[i] IN
    /\ workers' = RemoveAt(workers, i)
    /\ IF w.pid # NoId
          THEN SendMsg(w.kind, w.pid, 0)
          ELSE UNCHANGED << msgs, queue >>
    /\ UNCHANGED << txBuf, phase, awaitingAcks, incoming, runnable >>
    /\ AppUnchanged /\ HubUnchanged

(* A handler thread runs the handler and sends its answer: the            *)
(* DirectMethodRes with the status the handler returns, or an AckMsg for  *)
(* a C2D message that had a packet id.  Its future is dropped.            *)
Worker(i) ==
    LET w == workers[i] IN
    /\ workers' = RemoveAt(workers, i)
    /\ CASE w.kind = "dmi_res" -> \E s \in DmiStatuses : Enqueue(DmiRes(s, w.rid))
         [] w.pid # NoId      -> SendMsg(w.kind, w.pid, 0)
         [] OTHER             -> UNCHANGED << msgs, queue >>
    /\ UNCHANGED << txBuf, phase, awaitingAcks, incoming, runnable >>
    /\ AppUnchanged /\ HubUnchanged

(***************************************************************************)
(* The hub.                                                                *)
(***************************************************************************)

(* A SUBACK with its SubscribeReturnCode: Failure, or the QoS granted,   *)
(* at most the one asked for.                                              *)
Suback(pid, code) == [type |-> "suback", pid |-> pid, code |-> code]
Puback(pid) == [type |-> "puback", pid |-> pid]
Publish(topic, payload, pid) == [type |-> "publish", topic |-> topic, payload |-> payload, pid |-> pid]
TwinPub(topic) == Publish(topic, "object", NoId)

(* The topic filter each subscription opens (encode_*_subscription). *)
SubTopic == [twin_sub |-> "twin_res", c2d_sub |-> "c2d", dmi_sub |-> "dmi"]

HubOnly == UNCHANGED << numerator, msgs, queue, txBuf, phase, awaitingAcks,
                        incoming, workers, runnable >> /\ AppUnchanged

(* The hub reads the next packet.  It grants a SUBSCRIBE at a QoS up to   *)
(* the one asked for, or refuses it,                                      *)
(* PUBACKs a QoS 1 publish, and answers a twin GET, before or after its   *)
(* PUBACK, when the device subscribed to twin responses: with a status     *)
(* and a version of its choice, and the $rid it reads from the GET's       *)
(* topic.  It reads the $rid and the status of a direct method response    *)
(* from its topic.                                                         *)
HubReceive ==
    LET i == Head(wire).idx
        m == msgs[i]
        hubRid == Lookup(QueryPairs(Head(wire).topic), "$rid") IN
    /\ wire # << >>
    /\ wire' = Tail(wire)
    /\ CASE m.kind \in DOMAIN SubTopic ->
              \E code \in {Failure} \cup 0 .. m.arg :
                 LET ok == code # Failure IN
                 /\ toClient' = Append(toClient, Suback(m.pid, code))
                 /\ hubSubs' = IF ok THEN [hubSubs EXCEPT ![SubTopic[m.kind]] = code]
                                     ELSE hubSubs
                 /\ hubAcked' = IF ok THEN hubAcked \cup {i} ELSE hubAcked
                 /\ hubRefused' = IF ok THEN hubRefused ELSE hubRefused \cup {i}
                 /\ UNCHANGED << hubAnswers, hubDmiAnswers >>
         [] m.kind = "twin_get" /\ hubSubs["twin_res"] # NoId ->
              /\ \E code \in HubStatuses, version \in Versions, answerFirst \in BOOLEAN :
                    LET res == TwinPub(HubTwinResTopic(code, hubRid[1], version)) IN
                    /\ toClient' = toClient \o
                          IF answerFirst THEN << res, Puback(m.pid) >>
                                         ELSE << Puback(m.pid), res >>
                    /\ hubAnswers' = hubAnswers \cup
                          {[rid |-> hubRid[1], code |-> code, version |-> version]}
              /\ hubAcked' = hubAcked \cup {i}
              /\ UNCHANGED << hubSubs, hubRefused, hubDmiAnswers >>
         [] m.kind = "dmi_res" ->
              /\ hubDmiAnswers' = hubDmiAnswers \cup {HubDmiResponse(Head(wire).topic)}
              /\ UNCHANGED << toClient, hubSubs, hubAcked, hubRefused, hubAnswers >>
         [] m.pid # NoId /\ m.kind # "c2d_ack" ->
              /\ toClient' = Append(toClient, Puback(m.pid))
              /\ hubAcked' = hubAcked \cup {i}
              /\ UNCHANGED << hubSubs, hubRefused, hubAnswers, hubDmiAnswers >>
         [] OTHER ->
              UNCHANGED << toClient, hubSubs, hubAcked, hubRefused, hubAnswers, hubDmiAnswers >>
    /\ UNCHANGED << pushes, hubC2DSent, hubDmiSent >>
    /\ HubOnly

(* The packet id the hub gives a message on a subscription: one of its    *)
(* own for QoS 1, none for QoS 0.                                          *)
HubPid(sub) == IF hubSubs[sub] = 1 THEN HubPids ELSE {NoId}

(* The hub sends a C2D message on a granted C2D subscription, to this     *)
(* device, with a property bag and a body.                                 *)
HubPushC2D ==
    /\ pushes < MaxPushes
    /\ hubSubs["c2d"] # NoId
    /\ pushes' = pushes + 1
    /\ \E p \in HubPid("c2d"), props \in C2DProps, body \in C2DBodies :
          /\ toClient' = Append(toClient, Publish(HubC2DTopic(Client.device, props), body, p))
          /\ hubC2DSent' = hubC2DSent \cup {[pid |-> p, props |-> props]}
    /\ UNCHANGED << wire, hubSubs, hubAcked, hubRefused, hubAnswers, hubDmiSent, hubDmiAnswers >>
    /\ HubOnly

(* The hub invokes a direct method on a granted DMI subscription, under a *)
(* $rid it has not used before, with a JSON object body.                   *)
HubPushDmi ==
    /\ pushes < MaxPushes
    /\ hubSubs["dmi"] # NoId
    /\ pushes' = pushes + 1
    /\ \E p \in HubPid("dmi"), method \in DmiMethods :
          LET r == Decimal(pushes + 1) IN
          /\ toClient' = Append(toClient, Publish(HubDmiTopic(method, r), "object", p))
          /\ hubDmiSent' = hubDmiSent \cup {[rid |-> r, method |-> method]}
    /\ UNCHANGED << wire, hubSubs, hubAcked, hubRefused, hubAnswers, hubC2DSent, hubDmiAnswers >>
    /\ HubOnly

Next ==
    \/ SendTelemetry
    \/ ReadTwin
    \/ \E mode \in SubModes : SetC2DHandler(mode)
    \/ \E mode \in SubModes : SetDmiHandler(mode)
    \/ PollMsgFuture
    \/ PollTwinFuture
    \/ \E outcome \in SendOutcome : SendNext(outcome)
    \/ SendIdle
    \/ RecvNext
    \/ RecvIdle
    \/ ReadLoop
    \/ \E i \in 1 .. Len(workers) : Worker(i)
    \/ HubReceive
    \/ HubPushC2D
    \/ HubPushDmi

(* The socket thread loops for ever, and a write it retries is taken      *)
(* eventually (the hub drains the connection), so a successful SendNext   *)
(* is strongly fair.  The read loop, the handler threads and the          *)
(* application's executor run whenever they can; the hub reads what it   *)
(* is sent.  The application's calls and the hub's own messages are not   *)
(* forced.                                                                 *)
(* The actions that reach the codec's recursive operators have their      *)
(* fairness written out, WF as []<>~enabled \/ []<><<A>>_vars and SF as    *)
(* <>[]~enabled \/ []<><<A>>_vars, with the state predicate on which each   *)
(* is enabled: the socket thread steps until it panics, a successful       *)
(* write needs a message at hand, and the read loop and the hub need a     *)
(* message to read.                                                        *)
SocketStep == SendIdle \/ RecvNext \/ RecvIdle \/ \E o \in SendOutcome : SendNext(o)
SocketStepEnabled == phase # "panicked"
SendOkEnabled == phase = "send" /\ NextOutgoing # 0
ReadLoopEnabled == incoming # << >>
HubReceiveEnabled == wire # << >>

Fairness ==
    /\ []<>~SocketStepEnabled \/ []<><<SocketStep>>_vars
    /\ <>[]~SendOkEnabled \/ []<><<SendNext("ok")>>_vars
    /\ WF_vars(PollMsgFuture)
    /\ WF_vars(PollTwinFuture)
    /\ []<>~ReadLoopEnabled \/ []<><<ReadLoop>>_vars
    /\ WF_vars(\E i \in 1 .. Len(workers) : Worker(i))
    /\ []<>~HubReceiveEnabled \/ []<><<HubReceive>>_vars

Spec == Init /\ [][Next]_vars /\ Fairness

(***************************************************************************)
(* Properties                                                              *)
(***************************************************************************)

HeaderKeys == UNION {DOMAIN h[1] : h \in Headers \ {None}}
Msg == [kind : Kind, pid : Id \cup {NoId}, arg : Nat, st : MsgStatus,
        waker : BOOLEAN, headers : Headers \cup {None}, order : Seq(HeaderKeys),
        requestId : STRING]
RequestIds == {Uuid(r) : r \in 1 .. rid}

(* StatusCode: a tag, and the u16 of ServerError and UnknownStatusCode.   *)
Statuses == [tag : {"OK", "NoContent", "TooManyRequests", "BadRequest",
                    "ServerError", "UnknownStatusCode"}, code : 0 .. U16Max]
Packet == {Suback(p, c) : p \in Id, c \in {Failure} \cup DeliveryGuarantees} \cup {Puback(p) : p \in Id}
          \cup [type : {"publish"}, topic : STRING, payload : Payloads, pid : Id \cup {NoId}]
(* An Option<HashMap<String, String>>. *)
IsStringMap(o) == o = None \/ (Len(o) = 1 /\ \A k \in DOMAIN o[1] : k \in STRING /\ o[1][k] \in STRING)
(* DirectMethodReq and C2DMessage as the read loop receives them. *)
DmiMsg == [type : {"dmi"}, rid : STRING, method : STRING, body : {<< "object" >>, None},
           pid : Id \cup {NoId}]
IsC2DMsg(x) == x.type = "c2d" /\ x.device \in STRING /\ IsStringMap(x.props)
IsHandlerThread(w) ==
    /\ w.kind \in {"dmi_res", "c2d_ack"} /\ w.pid \in Id \cup {NoId}
    /\ {w.rid, w.method, w.device} \subseteq STRING /\ IsStringMap(w.props)
(* ReadTwinRes as the read loop receives it. *)
TwinResMsg == [type : {"twin_res"}, rid : RequestIds, status : Statuses,
               body : {<< "object" >>, None}, version : Versions]

TypeOK ==
    /\ numerator \in Id
    /\ msgs \in Seq(Msg)
    /\ \A i \in 1 .. Len(msgs) : msgs[i].pid \in Id \cup {NoId}
    /\ queue \in Seq(1 .. Len(msgs))
    /\ txBuf \in 0 .. Len(msgs)
    /\ phase \in {"send", "recv", "panicked"}
    /\ awaitingAcks \in [Id -> 0 .. Len(msgs)]
    /\ wire \in Seq([idx : 1 .. Len(msgs), topic : STRING])
    /\ toClient \in Seq(Packet)
    /\ \A k \in 1 .. Len(incoming) :
          incoming[k] \in TwinResMsg \cup DmiMsg \/ IsC2DMsg(incoming[k])
    /\ \A k \in 1 .. Len(workers) : IsHandlerThread(workers[k])
    /\ app \in [pc : AppPc, fut : 0 .. Len(msgs)]
    /\ runnable \in BOOLEAN
    /\ awaitingResponse \subseteq 1 .. rid
    /\ twinResult \subseteq [rid : 1 .. rid, status : Statuses, version : Versions]
    /\ hubAnswers \subseteq [rid : RequestIds, code : HubStatuses, version : Versions]
    /\ hubRefused \subseteq 1 .. Len(msgs)
    /\ hubC2DSent \subseteq [pid : Id \cup {NoId}, props : C2DProps]
    /\ hubDmiSent \subseteq [rid : STRING, method : DmiMethods]
    /\ hubDmiAnswers \subseteq [rid : STRING, status : 0 .. U16Max]
    /\ hubSubs \in [{"c2d", "dmi", "twin_res"} -> DeliveryGuarantees \cup {NoId}]

(* A call that returns Ok (send_telemetry, or the subscription and the   *)
(* GET inside read_twin) is one the hub acknowledged: MessageFuture::poll *)
(* may not take Sent for done while an ack is required, and handle_ack    *)
(* must complete the message the ack's packet id belongs to.              *)
CallOkOnlyIfAcked == okCalls \subseteq hubAcked

HeadersRoundTrip ==
    \A k \in 1 .. Len(wire) :
        LET m == msgs[wire[k].idx]
            topic == wire[k].topic IN
        m.kind = "telemetry" =>
            /\ Split(topic, "/")[2] = Client.device
            /\ HubHeaders(topic) = HeaderPairs(m.headers)

(* The twin the application reads is the one the hub answered its request *)
(* with: the read loop files a response under the request whose id string *)
(* the response carries, and decode_twin_response reads the status code   *)
(* and the version the hub put in the topic.                               *)
TwinResultIsHubAnswer ==
    \A res \in twinResult :
        [rid |-> Uuid(res.rid), code |-> StatusNumber(res.status),
         version |-> res.version] \in hubAnswers

(* A C2D handler thread serves a message the hub sent to this device: the *)
(* device id decode_c2d_message reads from the topic's second segment is  *)
(* this device's, and the properties it form-decodes from the segment     *)
(* after "devicebound" are exactly the bag the hub sent with that packet   *)
(* id.                                                                     *)
C2DHandledAsSent ==
    \A k \in 1 .. Len(workers) :
        LET w == workers[k] IN
        w.kind = "c2d_ack" =>
            /\ w.device = Client.device
            /\ \E sent \in hubC2DSent : w.pid = sent.pid /\ w.props = << sent.props >>

(* A DMI handler thread runs the method the hub invoked under that        *)
(* request_id: decode_direct_method_invocation percent-decodes the name    *)
(* from the URL path and reads $rid from the query; and every direct       *)
(* method response the hub reads answers a $rid the hub used, with the     *)
(* handler's status or the read loop's 501.                                *)
DmiAnsweredAsInvoked ==
    /\ \A k \in 1 .. Len(workers) :
          workers[k].kind = "dmi_res" =>
              [rid |-> workers[k].rid, method |-> workers[k].method] \in hubDmiSent
    /\ \A ans \in hubDmiAnswers :
          /\ ans.rid \in {sent.rid : sent \in hubDmiSent}
          /\ ans.status \in DmiStatuses \cup {501}

(* The $rid strings the hub may invoke direct methods under. *)
DmiRids == {Decimal(n) : n \in 1 .. MaxPushes}

(* Every direct method the hub invokes is answered: the read loop hands it *)
(* to a handler thread, which sends its QoS 0 DirectMethodRes, and the     *)
(* socket thread writes it.                                                *)
EveryDmiAnswered ==
    \A r \in DmiRids :
        r \in {sent.rid : sent \in hubDmiSent} ~> r \in {ans.rid : ans \in hubDmiAnswers}

(* read_twin panics only on its own subscription's refusal: the future   *)
(* whose Err the application unwraps is a SUBSCRIBE the hub refused.  A   *)
(* twin GET's future, or a granted subscription's, can only end in Err if *)
(* handle_ack completed it with another message's SUBACK.                 *)
AppPanicsOnlyOnRefusal == app.pc = "panicked" => app.fut \in hubRefused

(* Every call the application awaits returns (or panics on an Err):      *)
(* every future is woken once its status is final, and every ack or twin *)
(* response reaches the state that call waits on.                         *)
AppCallReturns == app.pc \in Awaiting ~> app.pc \in {"idle", "panicked"}

====

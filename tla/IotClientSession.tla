--------------------------- MODULE IotClientSession ---------------------------
(***************************************************************************)
(* The single-threaded IoT Hub client of raiot-stclient (lib.rs, sub.rs)   *)
(* with its packet id allocator (PacketsNumerator, raiot-client-base).     *)
(*                                                                         *)
(* The user calls the client's methods and process() in one thread, so    *)
(* each call is one atomic step; the broker runs concurrently.  Packets    *)
(* are records: the byte path underneath (write_packet, send_task,         *)
(* recv_task, get_next_packet) is the Streamer and Packetizer modules',    *)
(* which deliver packets whole and in order when writes are whole, as this *)
(* module assumes.  The u16 counter is Width bits wide.                    *)
(***************************************************************************)
EXTENDS Naturals, Sequences, SequencesExt

CONSTANTS
    Width,          \* bits of the packet id counter (16 in the code)
    MaxOps,         \* user calls at most
    MaxPushes       \* messages the hub publishes on its own at most

(* The subscription families of IotClient, in the order process_sub_res    *)
(* tries them.                                                             *)
FamilyOrder == << "twin_read", "c2d", "dmi", "twin_updates" >>
Family == Range(FamilyOrder)
(* The families the hub publishes to without a request.                   *)
PushFamily == Family \ {"twin_read"}

Id == 0 .. 2^Width - 1
NoId == -1          \* a QoS 0 publish carries no packet id

(* SubState<M>: the handlers are left out, the packet id kept.            *)
Unsubscribed == [state |-> "Unsubscribed"]
Subscribing(pid) == [state |-> "Subscribing", pid |-> pid]
Subscribed == [state |-> "Subscribed"]
SubState == {Unsubscribed, Subscribed} \cup {Subscribing(p) : p \in Id}

VARIABLES
    numerator,      \* PacketsNumerator.value
    subs,           \* twin_read, c2d, dmi, twin_updates: Family -> SubState
    tx,             \* packets written to the connection, not yet sent
    toBroker,       \* packets sent, not yet read by the broker
    toClient,       \* packets the broker sent, not yet processed
    ops,            \* user calls so far
    pushes,         \* hub publishes so far
    brokerSubs,     \* families the broker has a subscription for
    \* history, for the properties
    sentIds,        \* packet ids the client put in a packet
    lastSubPid,     \* packet id of each family's last SUBSCRIBE
    acceptedSubs,   \* <<family, pid>> of every SUBSCRIBE the broker accepted
    reads,          \* read_twin calls
    twinGets,       \* twin GET requests written
    twinResponses,  \* twin responses process() decoded
    twinHandled     \* twin responses given to the twin_read handler

vars == << numerator, subs, tx, toBroker, toClient, ops, pushes, brokerSubs,
           sentIds, lastSubPid, acceptedSubs, reads, twinGets, twinResponses,
           twinHandled >>

Init ==
    /\ numerator = 0
    /\ subs = [f \in Family |-> Unsubscribed]
    /\ tx = << >>
    /\ toBroker = << >>
    /\ toClient = << >>
    /\ ops = 0
    /\ pushes = 0
    /\ brokerSubs = {}
    /\ sentIds = {}
    /\ lastSubPid = [f \in Family |-> NoId]
    /\ acceptedSubs = {}
    /\ reads = 0
    /\ twinGets = 0
    /\ twinResponses = 0
    /\ twinHandled = 0

-----------------------------------------------------------------------------
(* PacketsNumerator::next: value += 1 on a u16, which wraps in a release  *)
(* build, and the new value is the id.                                     *)
NextId == (numerator + 1) % 2^Width

(* A user call that takes the next packet id and writes pkt(id).          *)
WriteWithId(pkt(_)) ==
    /\ numerator' = NextId
    /\ tx' = Append(tx, pkt(NextId))
    /\ sentIds' = sentIds \cup {NextId}

UserCall == ops < MaxOps /\ ops' = ops + 1

SubscribePacket(f, pid) == [type |-> "SUBSCRIBE", fam |-> f, pid |-> pid]
PublishPacket(topic, pid) == [type |-> "PUBLISH", topic |-> topic, pid |-> pid]

(* The variables a user call leaves alone.                                 *)
UserUnchanged == UNCHANGED << toBroker, toClient, pushes, brokerSubs,
                              acceptedSubs, twinResponses, twinHandled >>

(* sub_c2d, sub_dmi, sub_twin_updates and sub_twin_reads: a fresh packet  *)
(* id, the SUBSCRIBE written, and the family Subscribing with that id,     *)
(* whatever its state was.                                                 *)
SubscribeTo(f) ==
    /\ WriteWithId(LAMBDA pid : SubscribePacket(f, pid))
    /\ subs' = [subs EXCEPT ![f] = Subscribing(NextId)]
    /\ lastSubPid' = [lastSubPid EXCEPT ![f] = NextId]

Subscribe(f) == UserCall /\ SubscribeTo(f) /\ UNCHANGED << reads, twinGets >> /\ UserUnchanged

SubDmi == Subscribe("dmi")
SubC2D == Subscribe("c2d")
SubTwinUpdates == Subscribe("twin_updates")
SubTwinReads == SubscribeTo("twin_read")

(* send_d2c and send_dmi_res: a PUBLISH with a packet id when at least    *)
(* once, without one when at most once.                                    *)
SendPublish(topic, qos1) ==
    /\ UserCall
    /\ IF qos1
       THEN WriteWithId(LAMBDA pid : PublishPacket(topic, pid))
       ELSE /\ tx' = Append(tx, PublishPacket(topic, NoId))
            /\ UNCHANGED << numerator, sentIds >>
    /\ UNCHANGED << subs, lastSubPid, reads, twinGets >>
    /\ UserUnchanged

SendD2C(qos1) == SendPublish("telemetry", qos1)
SendDmiRes(qos1) == SendPublish("dmi_res", qos1)

(* request_twin: a GET with a fresh request id, at least once.            *)
RequestTwin ==
    /\ WriteWithId(LAMBDA pid : PublishPacket("twin_get", pid))
    /\ twinGets' = twinGets + 1
    /\ UNCHANGED << subs, lastSubPid >>

(* read_twin: the GET when subscribed to twin reads, the subscription     *)
(* when unsubscribed, nothing while subscribing.                           *)
ReadTwin ==
    /\ UserCall
    /\ reads' = reads + 1
    /\ CASE subs["twin_read"] = Subscribed   -> RequestTwin
         [] subs["twin_read"] = Unsubscribed -> SubTwinReads /\ UNCHANGED twinGets
         [] OTHER -> UNCHANGED << numerator, tx, sentIds, subs, lastSubPid, twinGets >>
    /\ UserUnchanged

-----------------------------------------------------------------------------
(* SubState::try_complete: a Subscribing state whose packet id is the     *)
(* SUBACK's becomes Subscribed or, on Failure, Unsubscribed.              *)
(* try_complete without the packet id comparison.                         *)
MatchesAnyId(s, res) == s.state = "Subscribing"
Matches(s, res) == s.state = "Subscribing" /\ s.pid = res.pid

(* try_complete keeping the packet id in the Subscribed state.            *)
TryCompleteKeepsId(s, res) == IF res.ok THEN [state |-> "Subscribed", pid |-> s.pid] ELSE Unsubscribed
(* try_complete leaving a refused subscription Subscribing.               *)
TryCompleteOkOnly(s, res) == IF res.ok THEN Subscribed ELSE s
TryComplete(s, res) == IF res.ok THEN Subscribed ELSE Unsubscribed

(* process_sub_res: try_complete on each family in turn, the first match  *)
(* ending the search.                                                      *)
ProcessSubRes(st, res) ==
    LET i == SelectInSeq(FamilyOrder, LAMBDA f : Matches(st.subs[f], res))
    IN  IF i = 0 THEN st
        ELSE [st EXCEPT !.subs[FamilyOrder[i]] = TryComplete(@, res)]

(* process_msg on one decoded packet.  A C2D message, a method call or a  *)
(* desired-properties update goes to its handler when its family is       *)
(* Subscribed and is dropped otherwise; a twin response and a PUBACK fall  *)
(* into the match's `_ => {}`.                                             *)
ProcessMsg(st, m) ==
    CASE m.type = "SUBACK" -> ProcessSubRes(st, m)
      [] m.type = "PUBLISH" /\ m.fam = "twin_read" -> [st EXCEPT !.twinResponses = @ + 1]
      [] OTHER -> st

(* process(): send_task sends every packet written, recv_task reads the   *)
(* first k packets the broker sent, and read() hands each of them to       *)
(* process_msg in order.                                                    *)
Process(k) ==
    LET st == FoldLeft(ProcessMsg,
                       [subs |-> subs, twinResponses |-> twinResponses],
                       SubSeq(toClient, 1, k))
    IN  /\ k \in 0 .. Len(toClient)
        /\ tx' = << >>
        /\ toBroker' = toBroker \o tx
        /\ toClient' = SubSeq(toClient, k + 1, Len(toClient))
        /\ subs' = st.subs
        /\ twinResponses' = st.twinResponses
        /\ UNCHANGED << numerator, ops, pushes, brokerSubs, sentIds,
                        lastSubPid, acceptedSubs, reads, twinGets, twinHandled >>

-----------------------------------------------------------------------------
(* The broker reads the client's next packet.  It accepts or refuses a    *)
(* SUBSCRIBE with a SUBACK, acknowledges an at-least-once PUBLISH, and     *)
(* answers a twin GET on $iothub/twin/res/ when subscribed to it.          *)
BrokerReceive ==
    LET m == Head(toBroker)
        puback == IF m.pid = NoId THEN << >> ELSE << [type |-> "PUBACK", pid |-> m.pid] >>
        twinRes == IF m.topic = "twin_get" /\ "twin_read" \in brokerSubs
                   THEN << [type |-> "PUBLISH", fam |-> "twin_read"] >> ELSE << >>
    IN  /\ toBroker # << >>
        /\ toBroker' = Tail(toBroker)
        /\ IF m.type = "SUBSCRIBE"
           THEN \E ok \in BOOLEAN :
                  /\ toClient' = Append(toClient, [type |-> "SUBACK", pid |-> m.pid, ok |-> ok])
                  /\ brokerSubs' = IF ok THEN brokerSubs \cup {m.fam} ELSE brokerSubs
                  /\ acceptedSubs' = IF ok THEN acceptedSubs \cup {<< m.fam, m.pid >>} ELSE acceptedSubs
           ELSE /\ toClient' = toClient \o puback \o twinRes
                /\ UNCHANGED << brokerSubs, acceptedSubs >>
        /\ UNCHANGED << numerator, subs, tx, ops, pushes, sentIds, lastSubPid,
                        reads, twinGets, twinResponses, twinHandled >>

(* The hub publishes a message to a family the device subscribed to.      *)
BrokerPush(f) ==
    /\ f \in brokerSubs
    /\ pushes < MaxPushes
    /\ pushes' = pushes + 1
    /\ toClient' = Append(toClient, [type |-> "PUBLISH", fam |-> f])
    /\ UNCHANGED << numerator, subs, tx, toBroker, ops, brokerSubs, sentIds,
                    lastSubPid, acceptedSubs, reads, twinGets, twinResponses,
                    twinHandled >>

Next ==
    \/ SubDmi
    \/ SubC2D
    \/ SubTwinUpdates
    \/ \E qos1 \in BOOLEAN : SendD2C(qos1)
    \/ \E qos1 \in BOOLEAN : SendDmiRes(qos1)
    \/ ReadTwin
    \/ \E k \in 0 .. Len(toClient) : Process(k)
    \/ BrokerReceive
    \/ \E f \in PushFamily : BrokerPush(f)

(* process() has something to do when a packet waits to be sent or read,  *)
(* and the broker when a packet waits for it.                              *)
ProcessEnabled == tx # << >> \/ toClient # << >>
BrokerEnabled == toBroker # << >>

(* The application calls process() in its main loop, and the network and  *)
(* the broker keep working: process() eventually reads everything the      *)
(* broker sent, and the broker eventually reads what the client sent.     *)
(* The user's own calls need not happen.  Weak fairness of both, written   *)
(* out with the enabling conditions above, which TLC evaluates far faster  *)
(* than ENABLED of the fold in Process.                                    *)
Spec ==
    /\ Init /\ [][Next]_vars
    /\ ([]<>~ProcessEnabled \/ []<><<Process(Len(toClient))>>_vars)
    /\ ([]<>~BrokerEnabled \/ []<><<BrokerReceive>>_vars)

-----------------------------------------------------------------------------
TypeOK ==
    /\ numerator \in Id
    /\ subs \in [Family -> SubState]
    /\ tx \in Seq([type : {"SUBSCRIBE"}, fam : Family, pid : Id]
                  \cup [type : {"PUBLISH"}, topic : {"telemetry", "dmi_res", "twin_get"}, pid : Id \cup {NoId}])
    /\ toClient \in Seq([type : {"SUBACK"}, pid : Id, ok : BOOLEAN]
                        \cup [type : {"PUBACK"}, pid : Id]
                        \cup [type : {"PUBLISH"}, fam : Family])
    /\ brokerSubs \subseteq Family
    /\ sentIds \subseteq Id
    /\ lastSubPid \in [Family -> Id \cup {NoId}]
    /\ acceptedSubs \subseteq Family \X Id

(* A family is Subscribed only if the broker accepted the family's latest  *)
(* SUBSCRIBE: process_sub_res gives each SUBACK to the subscription whose  *)
(* packet id it carries, so neither a SUBACK of an earlier SUBSCRIBE of    *)
(* the same family (sub_c2d called again) nor one of another family that   *)
(* is still in flight can complete it.                                     *)
SubscribedOnlyIfAccepted ==
    \A f \in Family : subs[f] = Subscribed => << f, lastSubPid[f] >> \in acceptedSubs

(* Every subscription in progress eventually ends, Subscribed or           *)
(* Unsubscribed: the SUBACK of its SUBSCRIBE (or of a later one, if the    *)
(* user subscribed again) reaches try_complete and settles it, whether the *)
(* broker accepted or refused.                                             *)
SubscriptionSettles ==
    \A f \in Family : subs[f].state = "Subscribing" ~> subs[f].state # "Subscribing"

(* A read_twin call whose twin-read subscription the broker accepts       *)
(* eventually puts a twin GET on the wire (spec.md S6: read_twin on a      *)
(* session that never subscribed subscribes, awaits the SUBACK and then    *)
(* sends the GET).                                                         *)
TwinReadRequested ==
    (reads > 0 /\ << "twin_read", lastSubPid["twin_read"] >> \in acceptedSubs) ~> twinGets > 0

(* Every twin response process() decodes goes to the twin_read handler    *)
(* (spec.md: TwinReadResponse is delivered to the waiting handle).  No     *)
(* code path of IotClient calls that handler, so twinHandled never grows.  *)
TwinResponseReachesHandler == twinHandled = twinResponses

(* Packet id 0 is never issued (spec.md, Packet identifier: wrap from     *)
(* 0xFFFF goes back to 1; MQTT requires a nonzero id).                     *)
NoPacketIdZero == 0 \notin sentIds

=============================================================================

----------------------------- MODULE MqttClient -----------------------------
(***************************************************************************)
(* The MqttClient of AlarmMQTT, from start to the destruction of both: the *)
(* one connect, the publications of the worker thread, the async publisher *)
(* whose queue nothing fills, the disconnect, and a broker that holds to   *)
(* the lengths the packets declare.                                        *)
(*                                                                         *)
(* wire is what the socket has taken and the broker has not read.  A       *)
(* packet on it is the length its fixed header declares, as the bytes of   *)
(* the header, the bytes that follow that header, and its place among the  *)
(* publications (0 for CONNECT).  The socket does not block, so a send may *)
(* take the first part of a packet only.  Nothing on the wire marks that:  *)
(* a cut packet, whose body here is 0, stands for one with fewer bytes     *)
(* than it declares, and the broker fills it with those that come next.    *)
(***************************************************************************)
EXTENDS Naturals, Sequences

CONSTANTS ClientIdSize,   (* client_id.size()                              *)
          Sizes,          (* topic.size() + payload.size() of the alerts   *)
          IdModulus,      (* packet_id is unsigned and wraps here, 2^16    *)
          MaxMessages     (* bound: the publications of a behaviour        *)

ASSUME SizesAssumption == ClientIdSize \in Nat /\ Sizes \subseteq Nat
ASSUME IdAssumption == IdModulus \in Nat /\ IdModulus > 1
ASSUME MessagesAssumption == MaxMessages \in Nat

VARIABLES
    main,            \* where AlarmMQTT::start and stop are, and the destructors
    worker, async,   \* where the threads of AlarmMQTT and of the client are
    running_,
    async_running_,
    open,            \* impl_->socket # INVALID_SOCKET
    connected_,
    packet_id,
    stats,
    wire,
    broker,          \* the other end of the connection
    sent,            \* history: the alerts publish tried to send
    cut,             \* history: the places of the packets of which a send took a part
    failed           \* history: a publish failed

threadVars == <<main, worker, async, running_, async_running_>>
clientVars == <<open, connected_, packet_id, stats>>
history == <<sent, cut, failed>>
vars == <<threadVars, clientVars, wire, broker, history>>

Init ==
    /\ main = "connect"
    /\ worker = "none" /\ async = "none"
    /\ running_ = FALSE /\ async_running_ = FALSE
    /\ open = FALSE /\ connected_ = FALSE
    /\ packet_id = 1
    /\ stats = [messages_published |-> 0, connection_attempts |-> 0, successful_connections |-> 0]
    /\ wire = <<>>
    /\ broker \in [session : {"none"}, lenient : BOOLEAN, answer : {"none"},
                   received : {<<>>}, garbled : {FALSE}]
    /\ sent = 0
    /\ cut = {} /\ failed = FALSE

-----------------------------------------------------------------------------
(* The fixed header *)

(* Mutant of Encoded: no byte says that another follows. *)
EncodedPlain(length) ==
    IF length < 128 THEN <<length>> ELSE <<length % 128, length \div 128>>

(* What publish has left of the remaining length after each turn of its    *)
(* loop, which shifts seven bits out.                                      *)
Left(length) ==
    LET left[i \in 0..length] == IF i = 0 THEN length ELSE left[i - 1] \div 128
    IN  left

(* Turns until nothing is left but the last byte. *)
Shifts(length) ==
    CHOOSE i \in 0..length : Left(length)[i] < 128 /\ \A j \in 0..i - 1 : Left(length)[j] >= 128

(* Seven bits to a byte, the least significant first; every byte but the   *)
(* last has the eighth set.                                                *)
Encoded(length) ==
    [i \in 1..Shifts(length) + 1 |->
        (Left(length)[i - 1] % 128) + (IF i <= Shifts(length) THEN 128 ELSE 0)]

(* The length as the protocol defines it: up to the first byte without the *)
(* eighth bit; what follows that byte belongs to the body.                 *)
HeaderSize(bytes) ==
    CHOOSE n \in DOMAIN bytes : bytes[n] < 128 /\ \A i \in 1..n - 1 : bytes[i] >= 128

Whole(bytes) == \E n \in DOMAIN bytes : bytes[n] < 128

(* From the last byte, the most significant, back to the first. *)
Decoded(bytes) ==
    LET last == HeaderSize(bytes)
        value[i \in 0..last] ==
          IF i = 0 THEN 0 ELSE value[i - 1] * 128 + (bytes[last + 1 - i] % 128)
    IN  value[last]

(* Mutant of ConnectLength: the two bytes that hold the size of the client *)
(* id are counted.                                                         *)
ConnectLengthWithSize == <<(12 + ClientIdSize) % 256>>

(* connect counts ten bytes and the client id, in a byte of its own.       *)
ConnectLength == <<(10 + ClientIdSize) % 256>>

(* What it writes: ten bytes, the size of the client id and the client id. *)
ConnectBody == 12 + ClientIdSize

(* Two bytes for the size of the topic and two for the packet id.  The sum *)
(* is a uint32_t, which an alert is far from filling.                      *)
PublishLength(size) == 2 + size + 2

Packet(header, body, place) == [header |-> header, body |-> body, place |-> place]

(* Mutant of Handed: what was cut is sent again from its start. *)
HandedAgain(packet) ==
    \/ wire' = Append(wire, packet) /\ UNCHANGED cut
    \/ wire' = wire \o <<[packet EXCEPT !.body = 0], packet>> /\ cut' = cut \cup {packet.place}

(* A send that succeeds hands over the packet, or the first bytes of it.   *)
Handed(packet) ==
    \/ wire' = Append(wire, packet) /\ UNCHANGED cut
    \/ wire' = Append(wire, [packet EXCEPT !.body = 0]) /\ cut' = cut \cup {packet.place}

-----------------------------------------------------------------------------
(* connect, called by AlarmMQTT::start.  The mutex of the statistics is    *)
(* held throughout; no other thread is there yet.                          *)

GiveUp ==
    /\ open' = FALSE
    /\ main' = "start_worker"

(* socket() or ::connect() fails, or the broker is there. *)
Open ==
    /\ main = "connect"
    /\ stats' = [stats EXCEPT !.connection_attempts = @ + 1]
    /\ \/ GiveUp /\ UNCHANGED broker
       \/ open' = TRUE /\ main' = "connect_send" /\ broker' = [broker EXCEPT !.session = "accepted"]
    /\ UNCHANGED <<worker, async, running_, async_running_, connected_, packet_id, wire, history>>

SendConnect ==
    /\ main = "connect_send"
    /\ \/ GiveUp /\ UNCHANGED <<wire, cut>>
       \/ /\ Handed(Packet(ConnectLength, ConnectBody, 0))
          /\ main' = "connect_wait"
          /\ UNCHANGED open
    /\ UNCHANGED <<worker, async, running_, async_running_, connected_, packet_id, stats, broker, sent, failed>>

(* A CONNACK with return code 0, read at once with all its four bytes. *)
Answered ==
    /\ main = "connect_wait"
    /\ broker.answer = "accepted"
    /\ connected_' = TRUE
    /\ stats' = [stats EXCEPT !.successful_connections = @ + 1]
    /\ main' = "start_async"
    /\ UNCHANGED <<worker, async, running_, async_running_, open, packet_id, wire, broker, history>>

(* Mutant of Unanswered: the socket is left open. *)
UnansweredKeepsSocket ==
    /\ main = "connect_wait"
    /\ main' = "start_worker"
    /\ UNCHANGED <<worker, async, running_, async_running_, clientVars, wire, broker, history>>

(* Anything else, in pieces or not within two seconds. *)
Unanswered ==
    /\ main = "connect_wait"
    /\ GiveUp
    /\ UNCHANGED <<worker, async, running_, async_running_, connected_, packet_id, stats, wire, broker, history>>

-----------------------------------------------------------------------------
(* The rest of AlarmMQTT::start, and stop *)

StartAsync ==
    /\ main = "start_async"
    /\ async_running_' = TRUE
    /\ async' = "running"
    /\ main' = "start_worker"
    /\ UNCHANGED <<worker, running_, clientVars, wire, broker, history>>

StartWorker ==
    /\ main = "start_worker"
    /\ running_' = TRUE
    /\ worker' = "running"
    /\ main' = "running"
    /\ UNCHANGED <<async, async_running_, clientVars, wire, broker, history>>

Stop ==
    /\ main = "running"
    /\ running_' = FALSE
    /\ main' = "join_worker"
    /\ UNCHANGED <<worker, async, async_running_, clientVars, wire, broker, history>>

JoinWorker ==
    /\ main = "join_worker"
    /\ worker = "ended"
    /\ main' = IF connected_ THEN "stop_async" ELSE "destroy"
    /\ UNCHANGED <<worker, async, running_, async_running_, clientVars, wire, broker, history>>

(* stop_async_publisher, from stop or from the client's destructor. *)
StopAsync ==
    /\ main \in {"stop_async", "destroy"}
    /\ async_running_' = FALSE
    /\ main' = IF main = "destroy" THEN "destroy_join" ELSE "join_async"
    /\ UNCHANGED <<worker, async, running_, clientVars, wire, broker, history>>

(* disconnect closes the socket of a client that is connected. *)
Disconnect ==
    /\ main \in {"join_async", "destroy_join"}
    /\ async \in {"none", "ended"}
    /\ open' = (open /\ ~connected_)
    /\ connected_' = FALSE
    /\ main' = IF main = "join_async" THEN "destroy" ELSE "stopped"
    /\ UNCHANGED <<worker, async, running_, async_running_, packet_id, stats, wire, broker, history>>

Main ==
    \/ Open \/ SendConnect \/ Answered \/ Unanswered
    \/ StartAsync \/ StartWorker \/ Stop \/ JoinWorker \/ StopAsync \/ Disconnect

-----------------------------------------------------------------------------
(* The worker publishes its alerts with QoS 1, and never waits for, or     *)
(* reads, a PUBACK.                                                        *)

(* Mutant of NextId: packet_id is an int. *)
NextIdUnbounded(id) == id + 1

NextId(id) == (id + 1) % IdModulus

(* publish, to a broker that may be gone without the socket knowing yet.   *)
(* A full send buffer is an error of the socket too.                       *)
Publish ==
    /\ worker = "running"
    /\ connected_
    /\ sent < MaxMessages
    /\ packet_id' = NextId(packet_id)
    /\ sent' = sent + 1
    /\ \/ /\ \E size \in Sizes :
               Handed(Packet(Encoded(PublishLength(size)), PublishLength(size), sent'))
          /\ stats' = [stats EXCEPT !.messages_published = @ + 1]
          /\ UNCHANGED <<connected_, failed>>
       \/ /\ connected_' = FALSE
          /\ failed' = TRUE
          /\ UNCHANGED <<wire, stats, cut>>
    /\ UNCHANGED <<threadVars, open, broker>>

WorkerEnd ==
    /\ worker = "running"
    /\ ~running_
    /\ worker' = "ended"
    /\ UNCHANGED <<main, async, running_, async_running_, clientVars, wire, broker, history>>

(* A turn of the loop finds publish_queue_ empty and changes nothing. *)
AsyncEnd ==
    /\ async = "running"
    /\ ~async_running_
    /\ async' = "ended"
    /\ UNCHANGED <<main, worker, running_, async_running_, clientVars, wire, broker, history>>

-----------------------------------------------------------------------------
(* The broker and the network.  A lenient broker takes the CONNECT of this *)
(* client; one that is not closes the connection of a client whose packet  *)
(* does not have the length it declares.                                   *)

InStep(packet) ==
    /\ Whole(packet.header)
    /\ HeaderSize(packet.header) = Len(packet.header)
    /\ Decoded(packet.header) = packet.body

(* The rest of a CONNECT that was cut never comes: the broker waits.       *)
ReadConnect ==
    /\ broker.session = "accepted"
    /\ wire # <<>>
    /\ Head(wire).body = ConnectBody
    /\ LET taken == broker.lenient \/ InStep(Head(wire)) IN
       broker' = [broker EXCEPT !.session = IF taken THEN "session" ELSE "closed",
                                !.answer = IF taken THEN "accepted" ELSE @]
    /\ wire' = Tail(wire)
    /\ UNCHANGED <<threadVars, clientVars, history>>

(* Bad credentials, or a server that is not available. *)
Refuse ==
    /\ broker.session = "accepted"
    /\ wire # <<>>
    /\ broker' = [broker EXCEPT !.session = "closed", !.answer = "refused"]
    /\ UNCHANGED <<threadVars, clientVars, wire, history>>

(* A publication that ends where its header says. *)
ReadPublish ==
    /\ broker.session = "session"
    /\ wire # <<>>
    /\ InStep(Head(wire))
    /\ broker' = [broker EXCEPT !.received = Append(@, Head(wire).place)]
    /\ wire' = Tail(wire)
    /\ UNCHANGED <<threadVars, clientVars, history>>

(* The bytes of the next packet complete one that was cut.  The broker may *)
(* pass the two on as one corrupted publication, or want more still; what  *)
(* is left of the second it reads from the middle, and may take as an      *)
(* error of the protocol.                                                  *)
ReadCut ==
    /\ broker.session = "session"
    /\ Len(wire) > 1
    /\ ~InStep(Head(wire))
    /\ \E taken \in BOOLEAN, session \in {"adrift", "closed"} :
          broker' = [broker EXCEPT !.session = session, !.garbled = taken]
    /\ wire' = Tail(Tail(wire))
    /\ UNCHANGED <<threadVars, clientVars, history>>

(* Once it reads from the middle of packets the broker takes the next one  *)
(* as more of the same, as something corrupted, as an error or, if it      *)
(* happens to be where the packet starts, as what it is.                   *)
ReadAdrift ==
    /\ broker.session = "adrift"
    /\ wire # <<>>
    /\ \/ \E taken \in BOOLEAN : broker' = [broker EXCEPT !.garbled = @ \/ taken]
       \/ broker' = [broker EXCEPT !.session = "closed"]
       \/ InStep(Head(wire)) /\ broker' = [broker EXCEPT !.received = Append(@, Head(wire).place)]
    /\ wire' = Tail(wire)
    /\ UNCHANGED <<threadVars, clientVars, history>>

(* The connection ends: a restart, the network, or the 60 seconds that the *)
(* client promised and sends no PINGREQ to keep.                           *)
Drop ==
    /\ broker.session \in {"accepted", "session", "adrift"}
    /\ broker' = [broker EXCEPT !.session = "closed"]
    /\ UNCHANGED <<threadVars, clientVars, wire, history>>

Broker == ReadConnect \/ Refuse \/ ReadPublish \/ ReadCut \/ ReadAdrift \/ Drop

-----------------------------------------------------------------------------

Ended == main = "stopped" /\ UNCHANGED vars

Next == Main \/ Publish \/ WorkerEnd \/ AsyncEnd \/ Broker \/ Ended

Spec == Init /\ [][Next]_vars

(* The threads are scheduled; nothing makes the broker answer, or main     *)
(* stop the alarm.                                                         *)
FairSpec ==
    /\ Spec
    /\ WF_vars(Main /\ main # "running")
    /\ WF_vars(WorkerEnd)
    /\ WF_vars(AsyncEnd)

-----------------------------------------------------------------------------
(* Properties *)

TypeOK ==
    /\ main \in {"connect", "connect_send", "connect_wait", "start_async", "start_worker", "running",
                 "join_worker", "stop_async", "join_async", "destroy", "destroy_join", "stopped"}
    /\ worker \in {"none", "running", "ended"} /\ async \in {"none", "running", "ended"}
    /\ running_ \in BOOLEAN /\ async_running_ \in BOOLEAN
    /\ open \in BOOLEAN /\ connected_ \in BOOLEAN
    /\ packet_id \in 0..IdModulus - 1
    /\ stats \in [messages_published : Nat, connection_attempts : 0..1, successful_connections : 0..1]
    /\ wire \in Seq([header : Seq(0..255), body : Nat, place : 0..MaxMessages])
    /\ broker \in [session : {"none", "accepted", "session", "adrift", "closed"}, lenient : BOOLEAN,
                   answer : {"none", "accepted", "refused"},
                   received : Seq(1..MaxMessages), garbled : BOOLEAN]
    /\ sent \in 0..MaxMessages
    /\ cut \subseteq 0..MaxMessages /\ failed \in BOOLEAN

(* The publications before the first that was cut. *)
Untorn == {place \in 1..stats.messages_published : \A other \in cut : place < other}

(* What the client counts as published is what it handed to the socket,    *)
(* whole or not.  The broker gets no publication twice or out of order,    *)
(* and while it reads packet by packet what it has read and what is under  *)
(* way are together all that was counted.  A packet that was cut spoils    *)
(* what follows, which may be lost or corrupted though it was counted, and *)
(* nothing that precedes (publish, mqtt_client.cpp:173-223).               *)
ReceivedInOrder ==
    /\ stats.messages_published = sent - (IF failed THEN 1 ELSE 0)
    /\ \A i, j \in DOMAIN broker.received : i < j => broker.received[i] < broker.received[j]
    /\ \A i \in DOMAIN broker.received : i \in Untorn => broker.received[i] = i
    /\ broker.garbled \/ broker.session = "adrift" => Untorn \subseteq DOMAIN broker.received
    /\ broker.session = "session" =>
          /\ ~broker.garbled
          /\ broker.received \o [i \in DOMAIN wire |-> wire[i].place]
                = [i \in 1..stats.messages_published |-> i]

(* Each publication under way of which the socket took every byte ends     *)
(* where its header says; but CONNECT does not, and from a broker that     *)
(* holds it to the length it declares no alert gets further (connect,      *)
(* mqtt_client.cpp:87, publish, :186-214).                                 *)
LengthsAgree ==
    /\ \A i \in DOMAIN wire : wire[i].place > 0 /\ wire[i].place \notin cut => InStep(wire[i])
    /\ broker.received # <<>> \/ broker.garbled => broker.lenient

(* Whatever the broker does, start comes to its end, and a stop ends with  *)
(* both threads joined and the socket closed, except that a client which   *)
(* met an error while publishing never closes it (mqtt_client.cpp:42-46,   *)
(* :136-156, :158-166 and :221, alarm_mqtt.cpp:60-72).                     *)
StartAndStopComplete ==
    /\ <>(main \in {"running", "stopped"})
    /\ main = "join_worker" ~> /\ main = "stopped"
                               /\ async # "running"
                               /\ open <=> failed

=============================================================================

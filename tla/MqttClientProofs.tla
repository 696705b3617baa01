-------------------------- MODULE MqttClientProofs --------------------------
(***************************************************************************)
(* What the broker reads of what the worker of AlarmMQTT publishes, for    *)
(* any sizes, packet ids and number of messages, whole packets or not.     *)
(***************************************************************************)
EXTENDS MqttClient, SequenceTheorems, InductionLemmas, TLAPS

Header == {ConnectLength} \cup {Encoded(PublishLength(size)) : size \in Sizes}
PacketType == [header : Header, body : Nat, place : Nat]
BrokerType == [session : {"none", "accepted", "session", "adrift", "closed"}, lenient : BOOLEAN,
               answer : {"none", "accepted", "refused"}, received : Seq(Nat), garbled : BOOLEAN]
StatsType == [messages_published : Nat, connection_attempts : Nat, successful_connections : Nat]
Connecting == main \in {"connect", "connect_send", "connect_wait"}

(* The types of what lies between the worker and the broker.               *)
WireType ==
    /\ wire \in Seq(PacketType)
    /\ sent \in Nat
    /\ broker \in BrokerType
    /\ stats \in StatsType
    /\ connected_ \in BOOLEAN /\ failed \in BOOLEAN
    /\ cut \in SUBSET Nat

(* Until the broker has read CONNECT it has got nothing, and no other      *)
(* packet is there; it reads one that was not cut.                         *)
Unread ==
    broker.session \in {"none", "accepted"} =>
        /\ broker.answer = "none" /\ broker.received = <<>> /\ ~broker.garbled
        /\ Len(wire) <= 1
        /\ wire # <<>> /\ Head(wire).body # 0 => cut = {}

(* Nothing is published before the broker has accepted.                    *)
Handshake ==
    /\ main = "connect" => broker.session = "none"
    /\ main = "connect_send" => broker.session \in {"accepted", "closed"}
    /\ main \in {"connect", "connect_send"} => wire = <<>> /\ cut = {}
    /\ connected_ \/ sent # 0 => broker.answer = "accepted" /\ ~Connecting
    /\ Unread

(* A failed publication is the last: connect is never called again.        *)
Counted ==
    /\ failed => ~connected_ /\ sent # 0
    /\ stats.messages_published = sent - (IF failed THEN 1 ELSE 0)

ConnectionInv == WireType /\ Handshake /\ Counted

(* The steps that touch neither the broker, the wire nor the counts.       *)
Turns ==
    \/ StartAsync \/ StartWorker \/ Stop \/ JoinWorker \/ StopAsync \/ Disconnect
    \/ WorkerEnd \/ AsyncEnd

LEMMA StepsOf ==
    [Next]_vars => Open \/ SendConnect \/ Answered \/ Unanswered \/ Turns \/ Publish \/ Broker \/ UNCHANGED vars
BY DEF Next, Main, Turns, Ended

(* What a send appends has the packet's header and place, and is the       *)
(* packet unless the send is cut.                                          *)
LEMMA HandedPacket ==
    ASSUME WireType, NEW packet \in PacketType, Handed(packet)
    PROVE  /\ wire' \in Seq(PacketType)
           /\ Len(wire') = Len(wire) + 1
           /\ \A i \in 1..Len(wire) : wire'[i] = wire[i]
           /\ wire'[Len(wire) + 1].header = packet.header
           /\ wire'[Len(wire) + 1].place = packet.place
           /\ \/ cut' = cut /\ wire'[Len(wire) + 1] = packet
              \/ cut' = cut \cup {packet.place} /\ wire'[Len(wire) + 1].body = 0
           /\ cut' \in SUBSET Nat
<1>1. PICK p \in PacketType :
          /\ wire' = Append(wire, p) /\ p.header = packet.header /\ p.place = packet.place
          /\ (cut' = cut /\ p = packet) \/ (cut' = cut \cup {packet.place} /\ p.body = 0)
  <2> DEFINE first == [packet EXCEPT !.body = 0]
  <2>1. first \in PacketType /\ first.place = packet.place /\ first.header = packet.header /\ first.body = 0
    BY DEF PacketType
  <2> HIDE DEF first
  <2>2. \/ wire' = Append(wire, packet) /\ cut' = cut
        \/ wire' = Append(wire, first) /\ cut' = cut \cup {packet.place}
    BY DEF Handed, first
  <2> QED BY <2>1, <2>2
<1>2. packet.place \in Nat
  BY DEF PacketType
<1>3. cut' \in SUBSET Nat
  BY <1>1, <1>2 DEF WireType
<1>4. /\ wire' \in Seq(PacketType) /\ Len(wire') = Len(wire) + 1
      /\ \A i \in 1..Len(wire) : wire'[i] = wire[i]
      /\ wire'[Len(wire) + 1] = p
  BY <1>1 DEF WireType
<1> QED  BY <1>1, <1>3, <1>4

(* What publish and connect build. *)
LEMMA PacketsType ==
    /\ Packet(ConnectLength, ConnectBody, 0) \in PacketType
    /\ ConnectBody \in Nat /\ ConnectBody # 0
    /\ \A size \in Sizes, place \in Nat :
          Packet(Encoded(PublishLength(size)), PublishLength(size), place) \in PacketType
<1>1. ConnectBody \in Nat /\ ConnectBody # 0
  BY SizesAssumption DEF ConnectBody
<1>2. ASSUME NEW size \in Sizes, NEW place \in Nat
      PROVE  Packet(Encoded(PublishLength(size)), PublishLength(size), place) \in PacketType
  <2>1. Encoded(PublishLength(size)) \in Header
    BY DEF Header
  <2>2. PublishLength(size) \in Nat
    BY SizesAssumption DEF PublishLength
  <2> QED  BY <2>1, <2>2 DEF Packet, PacketType
<1> QED  BY <1>1, <1>2 DEF Packet, PacketType, Header

LEMMA ConnectionStart == Init => ConnectionInv
<1> SUFFICES ASSUME Init PROVE ConnectionInv
  OBVIOUS
<1>1. /\ wire = <<>> /\ sent = 0 /\ cut = {} /\ broker.received = <<>> /\ broker.session = "none"
      /\ broker.answer = "none" /\ broker.garbled = FALSE
  BY DEF Init
<1>2. <<>> \in Seq(PacketType) /\ <<>> \in Seq(Nat) /\ Len(<<>>) <= 1
  OBVIOUS
<1>3. WireType
  <2>1. broker \in BrokerType
    BY <1>2 DEF Init, BrokerType
  <2>2. stats \in StatsType
    BY DEF Init, StatsType
  <2>3. connected_ \in BOOLEAN /\ failed \in BOOLEAN
    BY DEF Init
  <2> QED  BY <1>1, <1>2, <2>1, <2>2, <2>3 DEF WireType
<1>4. Unread
  BY <1>1, <1>2 DEF Unread
<1>5. main = "connect" /\ connected_ = FALSE /\ failed = FALSE /\ stats.messages_published = 0
  BY DEF Init
<1>6. Handshake
  BY <1>1, <1>4, <1>5 DEF Handshake
<1>7. Counted
  <2>1. failed = FALSE /\ stats.messages_published = sent - 0
    BY <1>1, <1>5
  <2> QED  BY <2>1 DEF Counted
<1> QED  BY <1>3, <1>6, <1>7 DEF ConnectionInv

(* A step that leaves the wire, the broker and what was sent and counted   *)
(* as they are.                                                            *)
LEMMA Untouched ==
    ASSUME ConnectionInv, UNCHANGED <<wire, broker, sent, cut, failed>>,
           stats' \in StatsType, stats'.messages_published = stats.messages_published,
           connected_' \in BOOLEAN, connected_' => connected_ \/ (broker.answer = "accepted" /\ sent = 0),
           main' \notin {"connect", "connect_send", "connect_wait"}
    PROVE  ConnectionInv'
<1>1. WireType'
  BY DEF ConnectionInv, WireType
<1>2. Unread'
  BY DEF ConnectionInv, Handshake, Unread
<1>3. Handshake'
  BY <1>2 DEF ConnectionInv, Handshake, Connecting
<1>4. Counted'
  BY DEF ConnectionInv, Counted
<1> QED  BY <1>1, <1>3, <1>4 DEF ConnectionInv

LEMMA ConnectStep == ASSUME ConnectionInv, Open \/ SendConnect \/ Answered \/ Unanswered PROVE ConnectionInv'
<1>0. WireType /\ Handshake /\ Unread /\ Counted
  BY DEF ConnectionInv, Handshake
<1>1. CASE Open
  <2>1. /\ main = "connect" /\ UNCHANGED <<wire, connected_, sent, cut, failed>>
        /\ stats' = [stats EXCEPT !.connection_attempts = @ + 1]
        /\ \/ broker' = broker /\ main' = "start_worker"
           \/ broker' = [broker EXCEPT !.session = "accepted"] /\ main' = "connect_send"
    BY <1>1 DEF Open, GiveUp, history
  <2>2. stats' \in StatsType /\ stats'.messages_published = stats.messages_published
    BY <1>0, <2>1 DEF WireType, StatsType
  <2>3. /\ broker' \in BrokerType /\ broker'.answer = broker.answer /\ broker'.received = broker.received
        /\ broker'.garbled = broker.garbled
        /\ main' = "connect_send" => broker'.session = "accepted"
    BY <1>0, <2>1 DEF WireType, BrokerType
  <2>4. broker.session = "none" /\ wire = <<>> /\ cut = {} /\ ~connected_ /\ sent = 0
    BY <1>0, <2>1 DEF Handshake, Connecting
  <2>5. WireType' /\ Counted'
    BY <1>0, <2>1, <2>2, <2>3 DEF WireType, Counted
  <2>6. Unread'
    BY <1>0, <2>1, <2>3, <2>4 DEF Unread
  <2>7. Handshake'
    BY <2>1, <2>3, <2>4, <2>6 DEF Handshake
  <2> QED  BY <2>5, <2>7 DEF ConnectionInv
<1>2. CASE SendConnect
  <2> DEFINE packet == Packet(ConnectLength, ConnectBody, 0)
  <2>1. /\ main = "connect_send" /\ main' \in {"start_worker", "connect_wait"}
        /\ UNCHANGED <<broker, stats, connected_, sent, failed>>
        /\ UNCHANGED <<wire, cut>> \/ Handed(packet)
    BY <1>2 DEF SendConnect, GiveUp
  <2>2. packet \in PacketType /\ packet.body = ConnectBody
    BY PacketsType DEF Packet
  <2> HIDE DEF packet
  <2>3. wire = <<>> /\ cut = {} /\ ~connected_ /\ sent = 0
    BY <1>0, <2>1 DEF Handshake, Connecting
  <2>4. /\ wire' \in Seq(PacketType) /\ Len(wire') <= 1 /\ cut' \in SUBSET Nat
        /\ wire' # <<>> /\ Head(wire').body # 0 => cut' = {}
    <3>1. CASE UNCHANGED <<wire, cut>>
      BY <1>0, <2>3, <3>1 DEF WireType
    <3>2. CASE Handed(packet)
      <4>1. /\ wire' \in Seq(PacketType) /\ Len(wire') = Len(wire) + 1 /\ cut' \in SUBSET Nat
            /\ cut' = cut \/ wire'[Len(wire) + 1].body = 0
        BY <1>0, <2>2, <3>2, HandedPacket
      <4>2. Len(wire) = 0
        BY <2>3
      <4>3. Len(wire') = 1 /\ Head(wire') = wire'[1]
        BY <4>1, <4>2
      <4> QED  BY <2>3, <4>1, <4>2, <4>3
    <3> QED  BY <2>1, <3>1, <3>2
  <2>5. WireType'
    BY <1>0, <2>1, <2>4 DEF WireType
  <2>6. Unread'
    BY <1>0, <2>1, <2>4 DEF Unread
  <2>7. Handshake'
    BY <1>0, <2>1, <2>3, <2>6 DEF Handshake
  <2>8. Counted'
    BY <1>0, <2>1, <2>3 DEF Counted
  <2> QED  BY <2>5, <2>7, <2>8 DEF ConnectionInv
<1>3. CASE Answered
  <2>1. stats' \in StatsType /\ stats'.messages_published = stats.messages_published
    BY <1>0, <1>3 DEF Answered, WireType, StatsType
  <2>2. sent = 0
    BY <1>0, <1>3 DEF Answered, Handshake, Connecting
  <2> QED  BY <1>3, <2>1, <2>2, Untouched DEF Answered, history
<1>4. CASE Unanswered
  BY <1>0, <1>4, Untouched DEF Unanswered, GiveUp, WireType, history
<1> QED  BY <1>1, <1>2, <1>3, <1>4

LEMMA TurnStep == ASSUME ConnectionInv, Turns PROVE ConnectionInv'
<1>1. /\ UNCHANGED <<wire, broker, sent, cut, failed, stats>> /\ (connected_' = connected_ \/ connected_' = FALSE)
      /\ Connecting' => Connecting /\ main' = main
  BY DEF Turns, StartAsync, StartWorker, Stop, JoinWorker, StopAsync, Disconnect, WorkerEnd, AsyncEnd,
         clientVars, history, Connecting
<1>0. WireType /\ Handshake /\ Unread /\ Counted
  BY DEF ConnectionInv, Handshake
<1>4. connected_' \in BOOLEAN /\ (connected_' => connected_)
  <2>1. CASE connected_' = connected_
    BY <1>0, <2>1 DEF WireType
  <2>2. CASE connected_' = FALSE
    BY <2>2
  <2> QED  BY <1>1, <2>1, <2>2
<1>2. CASE Connecting'
  <2>1. WireType'
    BY <1>0, <1>1, <1>4 DEF WireType
  <2>2. Counted'
    BY <1>0, <1>1, <1>4 DEF Counted
  <2>3. Unread'
    BY <1>0, <1>1 DEF Unread
  <2>4. Handshake'
    BY <1>0, <1>1, <1>2, <1>4, <2>3 DEF Handshake, Connecting
  <2> QED  BY <2>1, <2>2, <2>4 DEF ConnectionInv
<1>3. CASE ~Connecting'
  <2>1. main' \notin {"connect", "connect_send", "connect_wait"}
    BY <1>3 DEF Connecting
  <2>2. stats' \in StatsType
    BY <1>0, <1>1 DEF WireType
  <2> QED  BY <1>1, <1>4, <2>1, <2>2, Untouched
<1> QED  BY <1>2, <1>3

(* A publication that is sent, or fails. *)
Sending(size) ==
    /\ Handed(Packet(Encoded(PublishLength(size)), PublishLength(size), sent + 1))
    /\ stats' = [stats EXCEPT !.messages_published = @ + 1]
    /\ UNCHANGED <<connected_, failed>>

Failing == connected_' = FALSE /\ failed' = TRUE /\ UNCHANGED <<wire, stats, cut>>

LEMMA PublishCases ==
    ASSUME ConnectionInv, Publish
    PROVE  /\ connected_ /\ ~failed /\ stats.messages_published = sent /\ sent \in Nat
           /\ broker.answer = "accepted" /\ ~Connecting /\ broker.session \notin {"none", "accepted"}
           /\ sent' = sent + 1 /\ UNCHANGED <<main, broker>>
           /\ Failing \/ \E size \in Sizes : Sending(size)
<1>1. connected_ /\ sent' = sent + 1 /\ UNCHANGED <<main, broker>>
  BY DEF Publish, threadVars
<1>2. ~failed /\ stats.messages_published = sent /\ sent \in Nat
  BY <1>1 DEF ConnectionInv, Counted, WireType
<1>3. broker.answer = "accepted" /\ ~Connecting /\ broker.session \notin {"none", "accepted"}
  BY <1>1 DEF ConnectionInv, Handshake, Unread
<1>4. Failing \/ \E size \in Sizes : Sending(size)
  BY <1>1 DEF Publish, Sending, Failing
<1> QED  BY <1>1, <1>2, <1>3, <1>4

LEMMA PublishStep == ASSUME ConnectionInv, Publish PROVE ConnectionInv'
<1>0. WireType /\ Handshake /\ Unread /\ Counted
  BY DEF ConnectionInv, Handshake
<1>1. /\ connected_ /\ ~failed /\ stats.messages_published = sent /\ sent \in Nat
      /\ broker.answer = "accepted" /\ ~Connecting /\ broker.session \notin {"none", "accepted"}
      /\ sent' = sent + 1 /\ UNCHANGED <<main, broker>>
      /\ Failing \/ \E size \in Sizes : Sending(size)
  BY PublishCases
<1>2. Handshake'
  BY <1>1 DEF Handshake, Unread, Connecting
<1>3. ASSUME NEW size \in Sizes, Sending(size) PROVE ConnectionInv'
  <2> DEFINE packet == Packet(Encoded(PublishLength(size)), PublishLength(size), sent + 1)
  <2>1. packet \in PacketType /\ Handed(packet)
    BY <1>1, <1>3, PacketsType DEF Sending
  <2> HIDE DEF packet
  <2>2. wire' \in Seq(PacketType) /\ cut' \in SUBSET Nat
    BY <1>0, <2>1, HandedPacket
  <2>3. stats' \in StatsType /\ stats'.messages_published = sent + 1 /\ UNCHANGED <<connected_, failed>>
    BY <1>0, <1>1, <1>3 DEF Sending, WireType, StatsType
  <2>4. WireType' /\ Counted'
    BY <1>0, <1>1, <2>2, <2>3 DEF WireType, Counted
  <2> QED  BY <1>2, <2>4 DEF ConnectionInv
<1>4. CASE Failing
  <2>0. connected_' = FALSE /\ failed' = TRUE /\ UNCHANGED <<wire, stats, cut>>
    BY <1>4 DEF Failing
  <2>5. connected_' \in BOOLEAN /\ failed' \in BOOLEAN
    BY <2>0
  <2>6. UNCHANGED <<wire, stats, cut>> /\ sent' \in Nat
    BY <1>1, <2>0
  <2>1. WireType'
    BY <1>0, <1>1, <2>5, <2>6 DEF WireType
  <2>3. sent' # 0 /\ stats'.messages_published = sent' - 1
    BY <1>1, <2>0
  <2>4. failed' /\ ~connected_'
    BY <2>0
  <2>2. Counted'
    BY <2>3, <2>4 DEF Counted
  <2> QED  BY <1>2, <2>1, <2>2 DEF ConnectionInv
<1> QED  BY <1>1, <1>3, <1>4

(* What a step of the broker and the network does to either.               *)
LEMMA BrokerChanges ==
    ASSUME WireType, Broker
    PROVE  /\ UNCHANGED <<main, connected_, stats, sent, cut, failed>>
           /\ broker' \in BrokerType /\ wire' \in Seq(PacketType)
           /\ wire' \in {wire, Tail(wire), Tail(Tail(wire))} /\ (wire' # wire => wire # <<>>)
           /\ broker.session # "none" /\ broker'.session \notin {"none", "accepted"}
           /\ broker'.lenient = broker.lenient
           /\ broker'.answer = broker.answer \/ broker.session = "accepted"
<1>1. UNCHANGED <<main, connected_, stats, sent, cut, failed>>
  BY DEF Broker, ReadConnect, Refuse, ReadPublish, ReadCut, ReadAdrift, Drop, threadVars, clientVars, history
<1>2. broker \in BrokerType /\ broker.received \in Seq(Nat)
  BY DEF WireType, BrokerType
<1>3. /\ wire \in Seq(PacketType)
      /\ wire # <<>> => Tail(wire) \in Seq(PacketType) /\ Head(wire).place \in Nat
      /\ Len(wire) > 1 => Tail(Tail(wire)) \in Seq(PacketType)
  <2>1. wire # <<>> => Tail(wire) \in Seq(PacketType) /\ Head(wire) \in PacketType
    BY DEF WireType
  <2>2. Len(wire) > 1 => Tail(Tail(wire)) \in Seq(PacketType)
    <3> SUFFICES ASSUME Len(wire) > 1 PROVE Tail(Tail(wire)) \in Seq(PacketType)
      OBVIOUS
    <3>1. Tail(wire) \in Seq(PacketType) /\ Len(Tail(wire)) = Len(wire) - 1 /\ Len(wire) \in Nat
      BY DEF WireType
    <3>2. Tail(wire) # <<>>
      <4>1. Len(Tail(wire)) # 0 /\ Len(<<>>) = 0
        BY <3>1
      <4> QED  BY <4>1, Zenon
    <3> HIDE DEF PacketType
    <3>3. \A s \in Seq(PacketType) : s # <<>> => Tail(s) \in Seq(PacketType)
      OBVIOUS
    <3> QED  BY <3>1, <3>2, <3>3
  <2> QED  BY <2>1, <2>2 DEF WireType, PacketType
<1>4. CASE Drop
  BY <1>1, <1>2, <1>3, <1>4 DEF Drop, BrokerType
<1>5. CASE Refuse
  BY <1>1, <1>2, <1>3, <1>5 DEF Refuse, BrokerType
<1>6. CASE ReadConnect
  <2>1. PICK taken \in BOOLEAN :
            broker' = [broker EXCEPT !.session = IF taken THEN "session" ELSE "closed",
                                     !.answer = IF taken THEN "accepted" ELSE @]
    BY <1>6 DEF ReadConnect
  <2> QED  BY <1>1, <1>2, <1>3, <1>6, <2>1 DEF ReadConnect, BrokerType
<1>7. CASE ReadPublish
  <2>1. wire # <<>> /\ wire' = Tail(wire) /\ broker.session = "session"
        /\ broker' = [broker EXCEPT !.received = Append(@, Head(wire).place)]
    BY <1>7 DEF ReadPublish
  <2>2. Append(broker.received, Head(wire).place) \in Seq(Nat)
    BY <1>2, <1>3, <2>1
  <2>3. broker' \in BrokerType
    BY <1>2, <2>1, <2>2 DEF BrokerType
  <2> QED  BY <1>1, <1>2, <1>3, <2>1, <2>3 DEF BrokerType
<1>8. CASE ReadCut
  <2>1. PICK taken \in BOOLEAN, session \in {"adrift", "closed"} :
            broker' = [broker EXCEPT !.session = session, !.garbled = taken]
    BY <1>8 DEF ReadCut
  <2>2. broker.session = "session" /\ Len(wire) > 1 /\ wire' = Tail(Tail(wire)) /\ wire # <<>>
    BY <1>8, <1>3 DEF ReadCut
  <2> QED  BY <1>1, <1>2, <1>3, <2>1, <2>2 DEF BrokerType
<1>9. CASE ReadAdrift
  <2>1. wire # <<>> /\ wire' = Tail(wire) /\ broker.session = "adrift"
        /\ \/ \E taken \in BOOLEAN : broker' = [broker EXCEPT !.garbled = @ \/ taken]
           \/ broker' = [broker EXCEPT !.session = "closed"]
           \/ broker' = [broker EXCEPT !.received = Append(@, Head(wire).place)]
    BY <1>9 DEF ReadAdrift
  <2>2. Append(broker.received, Head(wire).place) \in Seq(Nat)
    BY <1>2, <1>3, <2>1
  <2>3. /\ broker' \in BrokerType /\ broker'.session \in {broker.session, "closed"}
        /\ broker'.lenient = broker.lenient /\ broker'.answer = broker.answer
    <3>1. CASE \E taken \in BOOLEAN : broker' = [broker EXCEPT !.garbled = @ \/ taken]
      BY <1>2, <3>1 DEF BrokerType
    <3>2. CASE broker' = [broker EXCEPT !.session = "closed"]
      BY <1>2, <3>2 DEF BrokerType
    <3>3. CASE broker' = [broker EXCEPT !.received = Append(@, Head(wire).place)]
      BY <1>2, <2>2, <3>3 DEF BrokerType
    <3> QED  BY <2>1, <3>1, <3>2, <3>3
  <2> QED  BY <1>1, <1>3, <2>1, <2>3
<1> QED  BY <1>4, <1>5, <1>6, <1>7, <1>8, <1>9 DEF Broker

LEMMA BrokerStep == ASSUME ConnectionInv, Broker PROVE ConnectionInv'
<1>0. WireType /\ Handshake /\ Unread /\ Counted
  BY DEF ConnectionInv, Handshake
<1>1. /\ UNCHANGED <<main, connected_, stats, sent, cut, failed>>
      /\ broker' \in BrokerType /\ wire' \in Seq(PacketType)
      /\ wire' # wire => wire # <<>>
      /\ broker.session # "none" /\ broker'.session \notin {"none", "accepted"}
      /\ broker'.answer = broker.answer \/ broker.session = "accepted"
  BY <1>0, BrokerChanges
<1>2. WireType' /\ Counted'
  BY <1>0, <1>1 DEF WireType, Counted
<1>3. connected_ \/ sent # 0 => broker'.answer = "accepted" /\ ~Connecting
  BY <1>0, <1>1 DEF Handshake, Unread
<1>4. main \in {"connect", "connect_send"} => main = "connect_send" /\ wire' = <<>> /\ cut = {} /\ broker'.session = "closed"
  <2> SUFFICES ASSUME main \in {"connect", "connect_send"}
               PROVE  main = "connect_send" /\ wire' = <<>> /\ cut = {} /\ broker'.session = "closed"
    OBVIOUS
  <2>1. main = "connect_send" /\ wire = <<>> /\ cut = {} /\ broker.session \in {"accepted", "closed"}
    BY <1>0, <1>1 DEF Handshake
  <2>2. wire' = wire
    BY <1>1, <2>1
  <2>3. Drop
    BY <2>1 DEF Broker, Refuse, ReadConnect, ReadPublish, ReadCut, ReadAdrift
  <2>4. broker'.session = "closed"
    BY <1>0, <2>3 DEF Drop, WireType, BrokerType
  <2> QED  BY <2>1, <2>2, <2>4
<1>5. Handshake'
  BY <1>1, <1>3, <1>4 DEF Handshake, Unread, Connecting
<1> QED  BY <1>2, <1>5 DEF ConnectionInv

LEMMA ConnectionStep == ASSUME ConnectionInv, [Next]_vars PROVE ConnectionInv'
<1>1. CASE UNCHANGED vars
  <2>1. UNCHANGED <<main, wire, sent, cut, broker, stats, connected_, failed>>
    BY <1>1 DEF vars, threadVars, clientVars, history
  <2>2. WireType' /\ Counted'
    BY <2>1 DEF ConnectionInv, WireType, Counted
  <2>3. Handshake'
    BY <2>1 DEF ConnectionInv, Handshake, Unread, Connecting
  <2> QED  BY <2>2, <2>3 DEF ConnectionInv
<1> QED  BY <1>1, StepsOf, ConnectStep, TurnStep, PublishStep, BrokerStep

-----------------------------------------------------------------------------
(* The length in the fixed header *)

LEMMA Halved ==
    /\ \A n \in Nat : n \div 128 \in Nat /\ n % 128 \in 0..127 /\ n = (n \div 128) * 128 + (n % 128)
    /\ \A n \in Nat : n < 128 => n % 128 = n
    /\ \A n \in 0..127 : (n + 128) % 128 = n
    /\ \A n \in Nat : n # 0 => n \div 128 < n
OBVIOUS

LEMMA LeftSteps ==
    ASSUME NEW length \in Nat
    PROVE  /\ Left(length) \in [0..length -> Nat]
           /\ Left(length)[0] = length
           /\ \A i \in 1..length : Left(length)[i] = Left(length)[i - 1] \div 128
<1> DEFINE step == [i \in 1..length |-> [n \in Nat |-> n \div 128]]
           IsLeft(f) == f = [i \in 0..length |-> IF i = 0 THEN length ELSE f[i - 1] \div 128]
           left == CHOOSE f : IsLeft(f)
<1>1. step \in [1..length -> [Nat -> Nat]]
  BY Halved
<1>2. PICK g \in [0..length -> Nat] : g[0] = length /\ \A i \in 1..length : g[i] = step[i][g[i - 1]]
  <2> DEFINE X == Nat
             x0 == length
  <2>1. x0 \in X /\ step \in [1..length -> [X -> X]]
    BY <1>1
  <2> HIDE DEF step, IsLeft, left, X, x0
  <2>2. \E g \in [0..length -> X] : g[0] = x0 /\ \A i \in 1..length : g[i] = step[i][g[i - 1]]
    BY <2>1, Recursion
  <2> QED BY <2>2 DEF X, x0
<1>3. IsLeft(g)
  <2>1. ASSUME NEW i \in 0..length PROVE g[i] = IF i = 0 THEN length ELSE g[i - 1] \div 128
    <3>1. CASE i = 0
      BY <1>2, <3>1
    <3>2. CASE i # 0
      <4>1. i \in 1..length /\ i - 1 \in 0..length
        BY <3>2
      <4>2. g[i - 1] \in Nat
        BY <1>2, <4>1
      <4>3. step[i][g[i - 1]] = g[i - 1] \div 128
        BY <4>1, <4>2
      <4> QED BY <1>2, <3>2, <4>1, <4>3
    <3> QED BY <3>1, <3>2
  <2> HIDE DEF step
  <2> QED BY <1>2, <2>1
<1>4. IsLeft(left)
  <2> HIDE DEF IsLeft
  <2> QED BY <1>3
<1>5. Left(length) = left
  BY DEF Left
<1> HIDE DEF left, step
<1>6. left[0] = length /\ left = [i \in 0..length |-> left[i]]
  BY <1>4
<1>7. ASSUME NEW i \in 1..length PROVE left[i] = left[i - 1] \div 128
  <2>1. i \in 0..length /\ i # 0
    OBVIOUS
  <2> QED BY <1>4, <2>1
<1> HIDE DEF IsLeft
<1>8. \A i \in 0..length : left[i] \in Nat
  <2> DEFINE Good == {i \in 0..length : left[i] \in Nat}
  <2>1. 0 \in Good
    BY <1>6
  <2>2. ASSUME NEW i \in 1..length, i - 1 \in Good PROVE i \in Good
    <3>1. i \in 0..length /\ left[i - 1] \in Nat
      BY <2>2
    <3>2. left[i] \in Nat
      BY <1>7, <3>1, Halved
    <3> QED BY <3>1, <3>2
  <2> HIDE DEF Good
  <2>3. \A i \in 0..length : i \in Good
    BY <2>1, <2>2, UpTo
  <2> QED BY <2>3 DEF Good
<1> QED BY <1>5, <1>6, <1>7, <1>8

(* The loop ends. *)
LEMMA ShiftsType ==
    ASSUME NEW length \in Nat
    PROVE  /\ Shifts(length) \in 0..length
           /\ Left(length)[Shifts(length)] < 128
           /\ \A j \in 0..Shifts(length) - 1 : Left(length)[j] >= 128
<1> DEFINE left == Left(length)
           Ends == {i \in 0..length : left[i] < 128}
<1>1. /\ left \in [0..length -> Nat] /\ left[0] = length
      /\ \A i \in 1..length : left[i] = left[i - 1] \div 128
  BY LeftSteps
<1> HIDE DEF left
<1>2. \A i \in 0..length : left[i] = 0 \/ left[i] + i <= length
  <2> DEFINE Good == {i \in 0..length : left[i] = 0 \/ left[i] + i <= length}
  <2>1. 0 \in Good
    BY <1>1
  <2>2. ASSUME NEW i \in 1..length, i - 1 \in Good PROVE i \in Good
    <3>1. i \in 0..length /\ i - 1 \in 0..length /\ (left[i - 1] = 0 \/ left[i - 1] + (i - 1) <= length)
      BY <2>2
    <3>2. left[i - 1] \in Nat /\ left[i] \in Nat /\ left[i] = left[i - 1] \div 128
      BY <1>1, <3>1
    <3>3. left[i] = 0 \/ left[i] < left[i - 1]
      BY <3>2, Halved
    <3>4. left[i] = 0 \/ left[i] + i <= length
      <4>1. \A a, b, c \in Nat : b < a /\ a + (c - 1) <= length => b + c <= length
        OBVIOUS
      <4>2. left[i - 1] = 0 => left[i] = 0
        BY <3>2
      <4> QED BY <3>1, <3>2, <3>3, <4>1, <4>2
    <3> QED BY <3>1, <3>4
  <2> HIDE DEF Good
  <2>3. \A i \in 0..length : i \in Good
    BY <2>1, <2>2, UpTo
  <2> QED BY <2>3 DEF Good
<1>3. left[length] = 0
  BY <1>1, <1>2
<1>4. Ends # {} /\ Ends \subseteq Nat
  BY <1>3
<1>5. PICK least \in Ends : \A i \in Ends : least <= i
  <2> HIDE DEF Ends
  <2> QED BY <1>4, LeastExists
<1>6. \A j \in 0..least - 1 : left[j] >= 128
  <2> SUFFICES ASSUME NEW j \in 0..least - 1 PROVE left[j] >= 128
    OBVIOUS
  <2>1. j \in 0..length /\ ~(least <= j)
    BY <1>5
  <2>2. left[j] \in Nat /\ ~(left[j] < 128)
    BY <1>1, <1>5, <2>1
  <2> QED BY <2>2
<1>7. least \in 0..length /\ left[least] < 128
  BY <1>5
<1> DEFINE Ending(i) == left[i] < 128 /\ \A j \in 0..i - 1 : left[j] >= 128
<1>8. Ending(least)
  BY <1>6, <1>7
<1>9. Shifts(length) = CHOOSE i \in 0..length : Ending(i)
  BY DEF Shifts, left
<1> HIDE DEF Ending
<1>10. Shifts(length) \in 0..length /\ Ending(Shifts(length))
  BY <1>7, <1>8, <1>9, Zenon
<1> QED BY <1>10 DEF Ending, left

(* One byte for each shift and one more; only the last is below 128.       *)
LEMMA EncodedBytes ==
    ASSUME NEW length \in Nat
    PROVE  /\ Encoded(length) \in Seq(0..255)
           /\ Len(Encoded(length)) = Shifts(length) + 1
           /\ \A i \in 1..Shifts(length) + 1 : Encoded(length)[i] % 128 = Left(length)[i - 1] % 128
           /\ \A i \in 1..Shifts(length) : Encoded(length)[i] >= 128
           /\ Encoded(length)[Shifts(length) + 1] < 128
<1> DEFINE last == Shifts(length)
           left == Left(length)
           byte(i) == (left[i - 1] % 128) + (IF i <= last THEN 128 ELSE 0)
<1>1. /\ left \in [0..length -> Nat] /\ last \in 0..length
  BY LeftSteps, ShiftsType
<1>2. Encoded(length) = [i \in 1..last + 1 |-> byte(i)]
  BY DEF Encoded
<1> HIDE DEF last, left
<1>3. ASSUME NEW i \in 1..last + 1
      PROVE  /\ byte(i) \in 0..255 /\ byte(i) % 128 = left[i - 1] % 128
             /\ i <= last => byte(i) >= 128
             /\ i = last + 1 => byte(i) < 128
  <2>1. left[i - 1] \in Nat
    BY <1>1
  <2> DEFINE digit == left[i - 1] % 128
  <2>2. digit \in 0..127
    BY <2>1, Halved
  <2>3. \A n \in 0..127 : n % 128 = n /\ n \in 0..255 /\ n < 128
                          /\ (n + 128) % 128 = n /\ n + 128 \in 0..255 /\ n + 128 >= 128 /\ n + 0 = n
    OBVIOUS
  <2>4. byte(i) = digit + (IF i <= last THEN 128 ELSE 0)
    OBVIOUS
  <2> HIDE DEF digit, byte
  <2>5. i \in Int /\ last \in Int
    BY <1>1
  <2>6. byte(i) \in 0..255 /\ byte(i) % 128 = digit /\ (i <= last => byte(i) >= 128) /\ (i = last + 1 => byte(i) < 128)
    <3>1. CASE i <= last
      <4>1. byte(i) = digit + 128 /\ i # last + 1
        BY <2>4, <2>5, <3>1
      <4> QED BY <2>2, <2>3, <4>1
    <3>2. CASE ~(i <= last)
      <4>1. byte(i) = digit
        BY <2>2, <2>4, <3>2
      <4> QED BY <2>2, <2>3, <3>2, <4>1
    <3> QED BY <3>1, <3>2
  <2> QED BY <2>6 DEF digit
<1> HIDE DEF byte
<1>4. \A i \in 1..last + 1 : Encoded(length)[i] = byte(i)
  BY <1>2
<1>5. Encoded(length) \in [1..last + 1 -> 0..255]
  BY <1>2, <1>3
<1>6. Encoded(length) \in Seq(0..255) /\ Len(Encoded(length)) = last + 1
  BY <1>1, <1>5
<1>7. last + 1 \in 1..last + 1 /\ \A i \in 1..last : i \in 1..last + 1 /\ i <= last
  BY <1>1
<1> QED BY <1>3, <1>4, <1>6, <1>7 DEF last, left

(* A broker that reads up to the first byte below 128 reads all of them.   *)
LEMMA EncodedHeader ==
    ASSUME NEW length \in Nat
    PROVE  /\ Whole(Encoded(length))
           /\ HeaderSize(Encoded(length)) = Shifts(length) + 1
<1> DEFINE bytes == Encoded(length)
           last == Shifts(length)
           Ends(n) == bytes[n] < 128 /\ \A i \in 1..n - 1 : bytes[i] >= 128
<1>1. /\ DOMAIN bytes = 1..last + 1 /\ last \in Nat
      /\ \A i \in 1..last + 1 : bytes[i] \in 0..255
      /\ \A i \in 1..last : bytes[i] >= 128
      /\ bytes[last + 1] < 128
  <2>1. /\ bytes \in Seq(0..255) /\ Len(bytes) = last + 1 /\ last \in 0..length
        /\ \A i \in 1..last : bytes[i] >= 128
        /\ bytes[last + 1] < 128
    BY EncodedBytes, ShiftsType
  <2> HIDE DEF bytes, last
  <2>2. last \in Nat /\ DOMAIN bytes = 1..last + 1
    BY <2>1
  <2>3. \A i \in 1..last + 1 : bytes[i] \in 0..255
    <3> SUFFICES ASSUME NEW i \in 1..last + 1 PROVE bytes[i] \in 0..255
      OBVIOUS
    <3>1. bytes \in Seq(0..255) /\ i \in 1..Len(bytes)
      BY <2>1
    <3> QED BY <3>1, ElementOfSeq
  <2> QED BY <2>1, <2>2, <2>3
<1> HIDE DEF bytes, last
<1>2. last + 1 \in DOMAIN bytes /\ Ends(last + 1)
  BY <1>1
<1>3. ASSUME NEW n \in DOMAIN bytes, Ends(n) PROVE n = last + 1
  <2>1. n \in 1..last + 1 /\ bytes[n] \in 0..255 /\ bytes[n] < 128
    BY <1>1, <1>3
  <2>2. n \notin 1..last
    <3> SUFFICES ASSUME n \in 1..last PROVE FALSE
      OBVIOUS
    <3>1. bytes[n] >= 128
      BY <1>1
    <3> HIDE DEF Ends
    <3> QED BY <2>1, <3>1
  <2> QED BY <1>1, <2>1, <2>2
<1>4. HeaderSize(bytes) = CHOOSE n \in DOMAIN bytes : Ends(n)
  BY DEF HeaderSize
<1>5. Whole(bytes)
  BY <1>1, <1>2 DEF Whole
<1> HIDE DEF Ends
<1>6. HeaderSize(bytes) = last + 1
  BY <1>2, <1>3, <1>4, Zenon
<1> QED BY <1>5, <1>6 DEF bytes, last

(* Seven-bit digits, the most significant first, add up to a number. *)
LEMMA DigitsAddUp ==
    ASSUME NEW size \in Nat, NEW digit \in [1..size -> Nat]
    PROVE  \E g \in [0..size -> Nat] :
              g[0] = 0 /\ \A i \in 1..size : g[i] = g[i - 1] * 128 + digit[i]
<1> DEFINE step == [i \in 1..size |-> [n \in Nat |-> n * 128 + digit[i]]]
           X == Nat
           x0 == 0
<1>1. x0 \in X /\ step \in [1..size -> [X -> X]]
  OBVIOUS
<1>2. \E g \in [0..size -> X] : g[0] = x0 /\ \A i \in 1..size : g[i] = step[i][g[i - 1]]
  <2>1. size \in Nat
    OBVIOUS
  <2> HIDE DEF step, X, x0
  <2> QED BY <1>1, <2>1, Recursion, SMTT(40)
<1> HIDE DEF step
<1>3. PICK g \in [0..size -> Nat] : g[0] = 0 /\ \A i \in 1..size : g[i] = step[i][g[i - 1]]
  BY <1>2, Zenon
<1>4. ASSUME NEW i \in 1..size PROVE g[i] = g[i - 1] * 128 + digit[i]
  <2>1. g[i - 1] \in Nat
    BY <1>3
  <2>2. step[i][g[i - 1]] = g[i - 1] * 128 + digit[i]
    BY <2>1 DEF step
  <2> QED BY <1>3, <2>2
<1> QED BY <1>3, <1>4

(* What Decoded has after each byte. *)
DecodedAfter(bytes, value) ==
    LET size == HeaderSize(bytes) IN
    /\ value[0] = 0
    /\ \A i \in 1..size : value[i] = value[i - 1] * 128 + (bytes[size + 1 - i] % 128)
    /\ Decoded(bytes) = value[size]

LEMMA DecodedSteps ==
    ASSUME NEW bytes \in Seq(Nat), HeaderSize(bytes) \in 1..Len(bytes)
    PROVE  \E value \in [0..HeaderSize(bytes) -> Nat] : DecodedAfter(bytes, value)
<1> DEFINE size == HeaderSize(bytes)
           digit == [i \in 1..size |-> bytes[size + 1 - i] % 128]
           IsValue(f) == f = [i \in 0..size |-> IF i = 0 THEN 0 ELSE f[i - 1] * 128 + (bytes[size + 1 - i] % 128)]
           value == CHOOSE f : IsValue(f)
<1>1. Decoded(bytes) = value[size]
  BY DEF Decoded
<1> HIDE DEF size
<1>2. size \in Nat /\ \A i \in 1..size : size + 1 - i \in 1..Len(bytes)
  BY DEF size
<1>3. ASSUME NEW i \in 1..size
      PROVE  digit[i] \in Nat /\ digit[i] = bytes[size + 1 - i] % 128
  <2> DEFINE b == bytes[size + 1 - i]
  <2>1. b \in Nat
    BY <1>2, ElementOfSeq
  <2>2. digit[i] = b % 128
    OBVIOUS
  <2> HIDE DEF digit, b
  <2>3. digit[i] \in Nat
    BY <2>1, <2>2, Halved
  <2> QED BY <2>2, <2>3 DEF b
<1> HIDE DEF digit
<1>4. digit \in [1..size -> Nat]
  <2>1. digit = [i \in 1..size |-> digit[i]]
    BY DEF digit
  <2> QED BY <1>3, <2>1
<1>5. PICK g \in [0..size -> Nat] : g[0] = 0 /\ \A i \in 1..size : g[i] = g[i - 1] * 128 + digit[i]
  BY <1>2, <1>4, DigitsAddUp
<1>6. IsValue(g)
  <2>1. ASSUME NEW i \in 0..size
        PROVE  g[i] = IF i = 0 THEN 0 ELSE g[i - 1] * 128 + (bytes[size + 1 - i] % 128)
    <3>1. CASE i = 0
      BY <1>5, <3>1
    <3>2. CASE i # 0
      <4>1. i \in 1..size
        BY <1>2, <3>2
      <4> QED BY <1>3, <1>5, <3>2, <4>1
    <3> QED BY <3>1, <3>2
  <2> QED BY <1>5, <2>1
<1>7. IsValue(value)
  <2> HIDE DEF IsValue
  <2> QED BY <1>6
<1> HIDE DEF value
<1>8. value[0] = 0 /\ value = [i \in 0..size |-> value[i]]
  BY <1>2, <1>7
<1>9. ASSUME NEW i \in 1..size PROVE value[i] = value[i - 1] * 128 + (bytes[size + 1 - i] % 128)
  <2>1. i \in 0..size /\ i # 0
    BY <1>2
  <2> QED BY <1>7, <2>1
<1> HIDE DEF IsValue
<1>10. \A i \in 0..size : value[i] \in Nat
  <2> DEFINE Good == {i \in 0..size : value[i] \in Nat}
  <2>1. 0 \in Good
    BY <1>2, <1>8
  <2>2. ASSUME NEW i \in 1..size, i - 1 \in Good PROVE i \in Good
    <3>1. i \in 0..size /\ value[i - 1] \in Nat
      BY <1>2, <2>2
    <3>2. value[i] = value[i - 1] * 128 + digit[i]
      BY <1>3, <1>9
    <3>3. value[i] \in Nat
      BY <1>3, <3>1, <3>2
    <3> QED BY <3>1, <3>3
  <2> HIDE DEF Good
  <2>3. \A i \in 0..size : i \in Good
    BY <1>2, <2>1, <2>2, UpTo
  <2> QED BY <2>3 DEF Good
<1>11. value \in [0..size -> Nat]
  BY <1>8, <1>10
<1> QED BY <1>1, <1>8, <1>9, <1>11 DEF DecodedAfter, size

(* The value read back from the last byte is what the loop had left there, *)
(* and at the first byte the whole length.                                 *)
LEMMA DecodedEncoded ==
    ASSUME NEW length \in Nat
    PROVE  Decoded(Encoded(length)) = length
<1> DEFINE bytes == Encoded(length)
           left == Left(length)
           last == Shifts(length)
           size == HeaderSize(bytes)
<1>1. /\ size = last + 1 /\ last \in 0..length
      /\ left \in [0..length -> Nat] /\ left[0] = length
      /\ \A i \in 1..length : left[i] = left[i - 1] \div 128
      /\ left[last] < 128
  BY EncodedHeader, LeftSteps, ShiftsType
<1>2. /\ \A i \in 1..size : bytes[i] % 128 = left[i - 1] % 128
      /\ bytes \in Seq(0..255) /\ Len(bytes) = size
  BY <1>1, EncodedBytes
<1>3. bytes \in Seq(Nat) /\ size \in 1..Len(bytes)
  <2> HIDE DEF bytes, last, size
  <2>1. 0..255 \subseteq Nat
    OBVIOUS
  <2>2. bytes \in Seq(Nat)
    <3>1. \A i \in 1..Len(bytes) : bytes[i] \in Nat
      BY <1>2, <2>1, ElementOfSeq
    <3> QED BY <1>2, <3>1
  <2> QED BY <1>1, <1>2, <2>2
<1>4. PICK value \in [0..size -> Nat] : DecodedAfter(bytes, value)
  BY <1>3, DecodedSteps
<1>5. /\ value[0] = 0 /\ Decoded(bytes) = value[size]
      /\ \A i \in 1..size : value[i] = value[i - 1] * 128 + (bytes[size + 1 - i] % 128)
  BY <1>4 DEF DecodedAfter
<1> HIDE DEF bytes, left, last, size
<1>6. size \in Nat /\ size # 0 /\ last + 1 = size
  BY <1>1
<1>7. ASSUME NEW i \in 1..size
      PROVE  value[i] = value[i - 1] * 128 + (left[size - i] % 128)
  <2> DEFINE k == size + 1 - i
  <2>1. k \in 1..size /\ k - 1 = size - i
    BY <1>6
  <2>2. value[i] = value[i - 1] * 128 + (bytes[k] % 128)
    BY <1>5
  <2> HIDE DEF k
  <2>3. bytes[k] % 128 = left[k - 1] % 128
    BY <1>2, <2>1
  <2>4. bytes[k] % 128 = left[size - i] % 128
    BY <2>1, <2>3
  <2> QED BY <2>2, <2>4
<1>8. \A i \in 0..last : value[i + 1] = left[last - i]
  <2> DEFINE Good == {i \in 0..last : value[i + 1] = left[last - i]}
  <2>1. 0 \in Good
    <3>1. 1 \in 1..size /\ size - 1 = last /\ last - 0 = last /\ 0 + 1 = 1 /\ 1 - 1 = 0
      BY <1>1, <1>6
    <3>2. left[last] \in Nat /\ left[last] < 128
      BY <1>1
    <3>3. left[last] % 128 = left[last]
      BY <3>2, Halved
    <3>4. value[1] = 0 * 128 + left[last]
      BY <1>5, <1>7, <3>1, <3>3
    <3>5. value[1] = left[last]
      BY <3>2, <3>4
    <3> QED BY <1>1, <3>1, <3>5
  <2>2. ASSUME NEW i \in 1..last, i - 1 \in Good PROVE i \in Good
    <3>1. /\ i \in 0..last /\ i + 1 \in 1..size /\ size - (i + 1) = last - i /\ i + 1 - 1 = i
          /\ last - i \in 0..length /\ last - (i - 1) \in 1..length /\ last - (i - 1) - 1 = last - i
          /\ i - 1 + 1 = i
      BY <1>1, <1>6
    <3>2. value[i] = left[last - (i - 1)]
      BY <2>2, <3>1
    <3>3. value[i] = left[last - i] \div 128
      BY <1>1, <3>1, <3>2
    <3>4. left[last - i] \in Nat
      BY <1>1, <3>1
    <3>5. left[last - i] = (left[last - i] \div 128) * 128 + (left[last - i] % 128)
      BY <3>4, Halved
    <3>6. value[i + 1] = value[i] * 128 + (left[last - i] % 128)
      BY <1>7, <3>1
    <3> QED BY <3>1, <3>3, <3>5, <3>6
  <2> HIDE DEF Good
  <2>3. \A i \in 0..last : i \in Good
    <3>1. last \in Nat
      BY <1>1
    <3> QED BY <2>1, <2>2, <3>1, UpTo
  <2> QED BY <2>3 DEF Good
<1>9. value[last + 1] = left[0]
  <2>1. last \in 0..last /\ last - last = 0
    BY <1>1
  <2> QED BY <1>8, <2>1
<1> QED BY <1>1, <1>5, <1>6, <1>9 DEF bytes

(* The one byte of CONNECT declares less than what follows it.             *)
LEMMA ConnectOutOfStep ==
    ASSUME NEW place PROVE ~InStep(Packet(ConnectLength, ConnectBody, place))
<1> DEFINE c == (10 + ClientIdSize) % 256
<1>1. c \in Nat /\ c % 128 \in Nat /\ c % 128 <= 10 + ClientIdSize
  <2>1. \A n \in Nat : n % 256 \in Nat /\ n % 256 <= n
    OBVIOUS
  <2>2. \A n \in Nat : n % 128 \in Nat /\ n % 128 <= n
    OBVIOUS
  <2>3. 10 + ClientIdSize \in Nat
    BY SizesAssumption
  <2>4. c \in Nat /\ c <= 10 + ClientIdSize
    BY <2>1, <2>3
  <2> HIDE DEF c
  <2>5. c % 128 \in Nat /\ c % 128 <= c
    BY <2>2, <2>4
  <2> QED BY <2>3, <2>4, <2>5
<1> SUFFICES ASSUME HeaderSize(<<c>>) = 1, Decoded(<<c>>) = 12 + ClientIdSize PROVE FALSE
  BY DEF InStep, Packet, ConnectLength, ConnectBody
<1> HIDE DEF c
<1> DEFINE bytes == <<c>>
<1>2. bytes \in Seq(Nat) /\ Len(bytes) = 1 /\ bytes[1] = c /\ HeaderSize(bytes) = 1 /\ Decoded(bytes) = 12 + ClientIdSize
  BY <1>1
<1> HIDE DEF bytes
<1>a. PICK value \in [0..HeaderSize(bytes) -> Nat] : DecodedAfter(bytes, value)
  <2>1. HeaderSize(bytes) \in 1..Len(bytes)
    BY <1>2
  <2> QED BY <1>2, <2>1, DecodedSteps
<1>3. Decoded(bytes) = c % 128
  <2>1. 1 \in 1..1 /\ 1 - 1 = 0 /\ 1 + 1 - 1 = 1
    OBVIOUS
  <2>2. value[1] = value[0] * 128 + (c % 128) /\ value[0] = 0 /\ Decoded(bytes) = value[1]
    BY <1>2, <1>a, <2>1 DEF DecodedAfter
  <2> QED BY <1>1, <2>2
<1> QED BY <1>1, <1>2, <1>3, SizesAssumption

-----------------------------------------------------------------------------
(* Lengths on the wire *)

(* A publication as publish builds it. *)
Built(packet) ==
    \E size \in Sizes :
        packet = Packet(Encoded(PublishLength(size)), PublishLength(size), packet.place)

(* What stands for the first bytes of one. *)
Torn(packet) ==
    \E size \in Sizes :
        packet = Packet(Encoded(PublishLength(size)), 0, packet.place)

(* A packet under way is CONNECT, or a publication, whole or cut.          *)
BuiltUnlessCut(packet, torn, last) ==
    /\ packet.place <= last
    /\ packet.place > 0 /\ packet.place \notin torn => Built(packet)
    /\ packet.place > 0 /\ packet.place \in torn => Torn(packet)

(* Until the broker has read CONNECT nothing else is on the wire, and only *)
(* a lenient one takes it.                                                 *)
LengthsInv ==
    /\ \A i \in 1..Len(wire) : BuiltUnlessCut(wire[i], cut, sent)
    /\ \A other \in cut : other <= sent
    /\ broker.session = "accepted" => \A i \in 1..Len(wire) : wire[i].header = ConnectLength
    /\ broker.session \in {"session", "adrift"} \/ broker.received # <<>> \/ broker.garbled => broker.lenient

LEMMA BuiltInStep == ASSUME NEW packet, Built(packet) PROVE InStep(packet)
<1>1. PICK size \in Sizes :
          packet = Packet(Encoded(PublishLength(size)), PublishLength(size), packet.place)
  BY DEF Built
<1>2. PublishLength(size) \in Nat
  BY SizesAssumption DEF PublishLength
<1> DEFINE length == PublishLength(size)
<1>3. packet.header = Encoded(length) /\ packet.body = length
  BY <1>1 DEF Packet
<1> HIDE DEF length
<1>4. length \in Nat
  BY <1>2 DEF length
<1>5. Whole(Encoded(length)) /\ HeaderSize(Encoded(length)) = Len(Encoded(length))
  BY <1>4, EncodedHeader, EncodedBytes
<1>6. Decoded(Encoded(length)) = length
  BY <1>4, DecodedEncoded
<1> QED BY <1>3, <1>5, <1>6 DEF InStep

LEMMA TornOutOfStep == ASSUME NEW packet, Torn(packet) PROVE ~InStep(packet)
<1>1. PICK size \in Sizes : packet = Packet(Encoded(PublishLength(size)), 0, packet.place)
  BY DEF Torn
<1> DEFINE length == PublishLength(size)
<1>2. packet.header = Encoded(length) /\ packet.body = 0
  BY <1>1 DEF Packet
<1>3. length \in Nat /\ length # 0
  BY SizesAssumption DEF PublishLength
<1> HIDE DEF length
<1>4. Decoded(Encoded(length)) = length
  BY <1>3, DecodedEncoded
<1> QED BY <1>2, <1>3, <1>4 DEF InStep

LEMMA LengthsStart == Init => LengthsInv
<1> SUFFICES ASSUME Init PROVE LengthsInv
  OBVIOUS
<1>1. wire = <<>> /\ broker.received = <<>> /\ broker.session = "none" /\ broker.garbled = FALSE /\ cut = {}
  BY DEF Init
<1> QED BY <1>1 DEF LengthsInv

LEMMA LengthsKept ==
    ASSUME WireType, LengthsInv, wire' = wire, cut' = cut, sent' \in {sent, sent + 1},
           broker'.lenient = broker.lenient,
           broker'.received = broker.received, broker'.garbled = broker.garbled,
           broker'.session = "accepted" => broker.session = "accepted" \/ wire = <<>>,
           broker'.session \in {"session", "adrift"} => broker.session \in {"session", "adrift"}
    PROVE  LengthsInv'
<1>0. \A place \in Nat : place <= sent => place <= sent'
  BY DEF WireType
<1>1. (\A i \in 1..Len(wire) : BuiltUnlessCut(wire[i], cut, sent))'
  <2> SUFFICES ASSUME NEW i \in 1..Len(wire) PROVE BuiltUnlessCut(wire'[i], cut', sent')
    OBVIOUS
  <2>1. wire[i].place \in Nat
    <3>1. wire[i] \in PacketType
      BY ElementOfSeq DEF WireType
    <3> QED BY <3>1 DEF PacketType
  <2>2. wire[i].place <= sent'
    BY <1>0, <2>1 DEF LengthsInv, BuiltUnlessCut
  <2> QED BY <2>2 DEF LengthsInv, BuiltUnlessCut, Built, Torn
<1>2. (broker.session = "accepted" => \A i \in 1..Len(wire) : wire[i].header = ConnectLength)'
  BY DEF LengthsInv
<1>3. (broker.session \in {"session", "adrift"} \/ broker.received # <<>> \/ broker.garbled => broker.lenient)'
  BY DEF LengthsInv
<1>4. (\A other \in cut : other <= sent)'
  BY <1>0 DEF LengthsInv, WireType
<1> QED BY <1>1, <1>2, <1>3, <1>4 DEF LengthsInv

LEMMA LengthsSend ==
    ASSUME WireType, LengthsInv, NEW packet \in PacketType, Handed(packet), broker' = broker,
           \/ packet.place = 0 /\ sent' = sent
           \/ packet.place = sent + 1 /\ sent' = sent + 1 /\ Built(packet),
           packet.header = ConnectLength \/ broker.session # "accepted"
    PROVE  LengthsInv'
<1> DEFINE last == wire'[Len(wire) + 1]
<1>1. /\ Len(wire') = Len(wire) + 1 /\ Len(wire) \in Nat
      /\ \A i \in 1..Len(wire) : wire'[i] = wire[i]
      /\ last.header = packet.header /\ last.place = packet.place
      /\ \/ cut' = cut /\ last = packet
         \/ cut' = cut \cup {packet.place} /\ last.body = 0
      /\ last \in PacketType
  <2>1. Len(wire) \in Nat
    BY DEF WireType
  <2>2. wire' \in Seq(PacketType) /\ Len(wire) + 1 \in 1..Len(wire')
    BY <2>1, HandedPacket
  <2>3. last \in PacketType
    BY <2>2, ElementOfSeq
  <2> QED BY <2>1, <2>3, HandedPacket
<1>2. \A i \in 1..Len(wire') : i \in 1..Len(wire) \/ i = Len(wire) + 1
  BY <1>1
<1>a. sent \in Nat /\ (\A place \in Nat : place <= sent => place <= sent') /\ packet.place <= sent'
      /\ (\A place \in Nat : place <= sent /\ place > 0 => place # packet.place)
  BY DEF WireType
<1>3. ASSUME NEW i \in 1..Len(wire') PROVE BuiltUnlessCut(wire'[i], cut', sent')
  <2>1. CASE i \in 1..Len(wire)
    <3>1. wire'[i] = wire[i] /\ wire[i].place \in Nat /\ BuiltUnlessCut(wire[i], cut, sent)
      <4>1. wire[i] \in PacketType
        BY <2>1, ElementOfSeq DEF WireType
      <4> QED BY <1>1, <2>1, <4>1 DEF LengthsInv, PacketType
    <3>2. wire[i].place <= sent' /\ (wire[i].place > 0 => wire[i].place # packet.place)
      BY <1>a, <3>1 DEF BuiltUnlessCut
    <3>3. wire[i].place > 0 => (wire[i].place \in cut' <=> wire[i].place \in cut)
      BY <1>1, <3>2
    <3> QED BY <3>1, <3>2, <3>3 DEF BuiltUnlessCut, Built, Torn
  <2>2. CASE i = Len(wire) + 1
    <3>1. wire'[i] = last
      BY <2>2 DEF last
    <3>2. CASE packet.place = 0
      BY <1>1, <1>a, <3>1, <3>2 DEF BuiltUnlessCut
    <3>3. CASE packet.place # 0
      <4>1. Built(packet) /\ packet.place = sent + 1
        BY <3>3
      <4>2. packet.place \notin cut
        BY <1>a, <4>1 DEF LengthsInv, WireType
      <4>3. CASE cut' = cut /\ last = packet
        BY <1>a, <3>1, <4>1, <4>2, <4>3 DEF BuiltUnlessCut, Built
      <4>4. CASE cut' = cut \cup {packet.place} /\ last.body = 0
        <5>1. PICK size \in Sizes : packet.header = Encoded(PublishLength(size))
          BY <4>1 DEF Built, Packet
        <5>2. last = Packet(Encoded(PublishLength(size)), 0, last.place)
          BY <1>1, <4>4, <5>1 DEF Packet, PacketType
        <5>3. Torn(last)
          BY <5>2 DEF Torn
        <5> HIDE DEF last
        <5> QED BY <1>1, <1>a, <3>1, <4>4, <5>3 DEF BuiltUnlessCut, Torn
      <4> QED BY <1>1, <4>3, <4>4
    <3> QED BY <3>2, <3>3
  <2> QED BY <1>2, <2>1, <2>2
<1> HIDE DEF last
<1>4. ASSUME broker.session = "accepted", NEW i \in 1..Len(wire') PROVE wire'[i].header = ConnectLength
  <2>1. CASE i \in 1..Len(wire)
    BY <1>1, <1>4, <2>1 DEF LengthsInv
  <2>2. CASE i = Len(wire) + 1
    BY <1>1, <1>4, <2>2 DEF last
  <2> QED BY <1>2, <2>1, <2>2
<1>5. (\A i \in 1..Len(wire) : BuiltUnlessCut(wire[i], cut, sent))'
  BY <1>3
<1>6. (broker.session = "accepted" => \A i \in 1..Len(wire) : wire[i].header = ConnectLength)'
  BY <1>4
<1>7. (broker.session \in {"session", "adrift"} \/ broker.received # <<>> \/ broker.garbled => broker.lenient)'
  BY DEF LengthsInv
<1>8. (\A other \in cut : other <= sent)'
  BY <1>1, <1>a DEF LengthsInv, WireType
<1> QED BY <1>5, <1>6, <1>7, <1>8 DEF LengthsInv

LEMMA TailTail ==
    ASSUME wire \in Seq(PacketType), Len(wire) > 1
    PROVE  /\ Len(Tail(Tail(wire))) = Len(wire) - 2
           /\ \A i \in 1..Len(wire) - 2 : Tail(Tail(wire))[i] = wire[i + 2]
<1> DEFINE rest == Tail(wire)
<1> HIDE DEF PacketType
<1>1. \A s \in Seq(PacketType) :
          s # <<>> => /\ Tail(s) \in Seq(PacketType) /\ Len(Tail(s)) = Len(s) - 1
                      /\ \A i \in 1..Len(s) - 1 : Tail(s)[i] = s[i + 1]
  OBVIOUS
<1>2. Len(wire) \in Nat /\ wire # <<>>
  OBVIOUS
<1>3. /\ rest \in Seq(PacketType) /\ Len(rest) = Len(wire) - 1
      /\ \A i \in 1..Len(wire) - 1 : rest[i] = wire[i + 1]
  BY <1>1, <1>2
<1> HIDE DEF rest
<1>4. rest # <<>>
  <2>1. Len(rest) # 0 /\ Len(<<>>) = 0
    BY <1>2, <1>3
  <2> QED BY <2>1, Zenon
<1>5. Len(Tail(rest)) = Len(rest) - 1 /\ \A i \in 1..Len(rest) - 1 : Tail(rest)[i] = rest[i + 1]
  BY <1>1, <1>3, <1>4
<1>6. ASSUME NEW i \in 1..Len(wire) - 2 PROVE Tail(rest)[i] = wire[i + 2]
  <2>1. i \in 1..Len(rest) - 1 /\ i + 1 \in 1..Len(wire) - 1 /\ (i + 1) + 1 = i + 2
    BY <1>2, <1>3
  <2>2. Tail(rest)[i] = rest[i + 1] /\ rest[i + 1] = wire[(i + 1) + 1]
    BY <1>3, <1>5, <2>1
  <2> QED BY <2>1, <2>2
<1>7. Len(Tail(rest)) = Len(wire) - 2
  BY <1>2, <1>3, <1>5
<1> QED BY <1>6, <1>7 DEF rest

(* The packets that are left are packets that were there. *)
LEMMA TailOf ==
    ASSUME WireType, wire' \in {wire, Tail(wire), Tail(Tail(wire))}, wire' # wire => wire # <<>>,
           wire' = Tail(Tail(wire)) /\ wire' # wire /\ wire' # Tail(wire) => Len(wire) > 1
    PROVE  \A i \in 1..Len(wire') : \E j \in 1..Len(wire) : wire'[i] = wire[j]
<1>1. Len(wire) \in Nat
  BY DEF WireType
<1>2. CASE wire' = wire
  BY <1>2
<1>3. wire # <<>> => Len(Tail(wire)) = Len(wire) - 1 /\ Len(wire) > 0
                     /\ Tail(wire) \in Seq(PacketType)
                     /\ \A i \in 1..Len(wire) - 1 : Tail(wire)[i] = wire[i + 1]
  BY DEF WireType
<1>4. CASE wire' = Tail(wire) /\ wire' # wire
  <2> SUFFICES ASSUME NEW i \in 1..Len(wire') PROVE \E j \in 1..Len(wire) : wire'[i] = wire[j]
    OBVIOUS
  <2>1. i + 1 \in 1..Len(wire) /\ wire'[i] = wire[i + 1]
    BY <1>1, <1>3, <1>4
  <2> QED BY <2>1
<1>5. CASE wire' = Tail(Tail(wire)) /\ wire' # wire /\ wire' # Tail(wire)
  <2>1. Len(wire') = Len(wire) - 2 /\ \A i \in 1..Len(wire) - 2 : wire'[i] = wire[i + 2]
    BY <1>5, TailTail DEF WireType
  <2> SUFFICES ASSUME NEW i \in 1..Len(wire') PROVE \E j \in 1..Len(wire) : wire'[i] = wire[j]
    OBVIOUS
  <2>2. i \in 1..Len(wire) - 2 /\ i + 2 \in 1..Len(wire)
    BY <1>1, <2>1
  <2> QED BY <2>1, <2>2
<1> QED BY <1>2, <1>4, <1>5

LEMMA LengthsRead ==
    ASSUME WireType, LengthsInv, Broker,
           broker'.session \in {"session", "adrift"} \/ broker'.received # <<>> \/ broker'.garbled => broker.lenient
    PROVE  LengthsInv'
<1>1. /\ wire' \in {wire, Tail(wire), Tail(Tail(wire))} /\ (wire' # wire => wire # <<>>)
      /\ cut' = cut /\ sent' = sent /\ broker'.lenient = broker.lenient /\ broker'.session # "accepted"
  BY BrokerChanges
<1>2. wire' = Tail(Tail(wire)) /\ wire' # wire /\ wire' # Tail(wire) => Len(wire) > 1
  BY DEF Broker, ReadConnect, Refuse, ReadPublish, ReadCut, ReadAdrift, Drop
<1>3. ASSUME NEW i \in 1..Len(wire') PROVE BuiltUnlessCut(wire'[i], cut', sent')
  <2>1. PICK j \in 1..Len(wire) : wire'[i] = wire[j]
    BY <1>1, <1>2, TailOf
  <2>2. BuiltUnlessCut(wire[j], cut, sent)
    BY DEF LengthsInv
  <2> QED BY <1>1, <2>1, <2>2 DEF BuiltUnlessCut, Built, Torn
<1>4. (\A i \in 1..Len(wire) : BuiltUnlessCut(wire[i], cut, sent))'
  BY <1>3
<1>7. (\A other \in cut : other <= sent)'
  BY <1>1 DEF LengthsInv
<1>5. (broker.session \in {"session", "adrift"} \/ broker.received # <<>> \/ broker.garbled => broker.lenient)'
  BY <1>1
<1>6. (broker.session = "accepted" => \A i \in 1..Len(wire) : wire[i].header = ConnectLength)'
  BY <1>1
<1> QED BY <1>4, <1>5, <1>6, <1>7 DEF LengthsInv

LEMMA LengthsStep == ASSUME ConnectionInv, LengthsInv, [Next]_vars PROVE LengthsInv'
<1>0. WireType /\ Handshake /\ Unread /\ Counted
  BY DEF ConnectionInv, Handshake
<1>1. CASE Open
  <2>1. main = "connect" /\ UNCHANGED <<wire, cut, sent>>
        /\ (broker' = broker \/ broker' = [broker EXCEPT !.session = "accepted"])
    BY <1>1 DEF Open, GiveUp, history
  <2>2. wire = <<>>
    BY <1>0, <2>1 DEF Handshake
  <2>3. /\ broker'.lenient = broker.lenient /\ broker'.received = broker.received
        /\ broker'.garbled = broker.garbled /\ broker'.session \in {broker.session, "accepted"}
    BY <1>0, <2>1 DEF WireType, BrokerType
  <2> QED BY <1>0, <2>1, <2>2, <2>3, LengthsKept
<1>2. CASE SendConnect
  <2> DEFINE packet == Packet(ConnectLength, ConnectBody, 0)
  <2>1. broker' = broker /\ sent' = sent /\ (UNCHANGED <<wire, cut>> \/ Handed(packet))
    BY <1>2 DEF SendConnect, GiveUp
  <2>2. packet \in PacketType /\ packet.header = ConnectLength /\ packet.place = 0
    BY PacketsType DEF Packet
  <2> HIDE DEF packet
  <2>3. CASE UNCHANGED <<wire, cut>>
    BY <1>0, <2>1, <2>3, LengthsKept
  <2>4. CASE Handed(packet)
    BY <1>0, <2>1, <2>2, <2>4, LengthsSend
  <2> QED BY <2>1, <2>3, <2>4
<1>3. CASE Answered \/ Unanswered \/ Turns \/ UNCHANGED vars
  <2>1. UNCHANGED <<wire, broker, cut, sent>>
    BY <1>3 DEF Answered, Unanswered, Turns, StartAsync, StartWorker, Stop, JoinWorker, StopAsync,
                Disconnect, WorkerEnd, AsyncEnd, vars, history
  <2> QED BY <1>0, <2>1, LengthsKept
<1>4. CASE Publish
  <2>1. /\ broker' = broker /\ broker.session # "accepted" /\ sent \in Nat /\ sent' = sent + 1
        /\ Failing \/ \E size \in Sizes : Sending(size)
    BY <1>4, PublishCases
  <2>2. CASE Failing
    BY <1>0, <2>1, <2>2, LengthsKept DEF Failing
  <2>3. ASSUME NEW size \in Sizes, Sending(size) PROVE LengthsInv'
    <3> DEFINE packet == Packet(Encoded(PublishLength(size)), PublishLength(size), sent + 1)
    <3>1. packet \in PacketType /\ Handed(packet)
      BY <2>1, <2>3, PacketsType DEF Sending
    <3>2. Built(packet) /\ packet.place = sent + 1
      <4>1. packet.place = sent + 1
        BY DEF Packet
      <4> QED BY <4>1 DEF Built
    <3> HIDE DEF packet
    <3> QED BY <1>0, <2>1, <3>1, <3>2, LengthsSend
  <2> QED BY <2>1, <2>2, <2>3
<1>5. CASE Drop \/ Refuse
  <2>1. broker' = [broker EXCEPT !.session = "closed"]
        \/ broker' = [broker EXCEPT !.session = "closed", !.answer = "refused"]
    BY <1>5 DEF Drop, Refuse
  <2>2. broker'.received = broker.received /\ broker'.session = "closed" /\ broker'.garbled = broker.garbled
    BY <1>0, <2>1 DEF WireType, BrokerType
  <2> QED BY <1>0, <1>5, <2>2, LengthsRead DEF Broker, LengthsInv
<1>6. CASE ReadConnect
  <2>1. broker.session = "accepted" /\ wire # <<>> /\ Head(wire).body = ConnectBody
    BY <1>6 DEF ReadConnect
  <2> DEFINE taken == broker.lenient \/ InStep(Head(wire))
  <2>2. broker' = [broker EXCEPT !.session = IF taken THEN "session" ELSE "closed",
                                 !.answer = IF taken THEN "accepted" ELSE @]
    BY <1>6 DEF ReadConnect
  <2>3. taken => broker.lenient
    <3>1. Head(wire) \in PacketType /\ Head(wire).header = ConnectLength
      <4>1. 1 \in 1..Len(wire) /\ Head(wire) = wire[1] /\ wire[1] \in PacketType
        BY <1>0, <2>1 DEF WireType
      <4> QED BY <2>1, <4>1 DEF LengthsInv
    <3>2. Head(wire) = Packet(ConnectLength, ConnectBody, Head(wire).place)
      BY <2>1, <3>1 DEF PacketType, Packet
    <3>3. ~InStep(Packet(ConnectLength, ConnectBody, Head(wire).place))
      BY ConnectOutOfStep
    <3> QED BY <3>2, <3>3
  <2> HIDE DEF taken
  <2>4. /\ broker'.received = broker.received /\ broker'.garbled = broker.garbled
        /\ broker'.session = IF taken THEN "session" ELSE "closed"
    BY <1>0, <2>2 DEF WireType, BrokerType
  <2>5. broker'.session \in {"session", "adrift"} \/ broker'.received # <<>> \/ broker'.garbled => broker.lenient
    BY <2>3, <2>4 DEF LengthsInv
  <2> QED BY <1>0, <1>6, <2>5, LengthsRead DEF Broker
<1>7. CASE ReadPublish \/ ReadCut \/ ReadAdrift
  <2>1. broker.lenient
    BY <1>7 DEF ReadPublish, ReadCut, ReadAdrift, LengthsInv
  <2> QED BY <1>0, <1>7, <2>1, LengthsRead DEF Broker
<1> QED BY <1>1, <1>2, <1>3, <1>4, <1>5, <1>6, <1>7, StepsOf DEF Broker

LEMMA LengthsInvariant == Spec => [](ConnectionInv /\ LengthsInv)
<1>1. Init => ConnectionInv /\ LengthsInv
  BY ConnectionStart, LengthsStart
<1>2. ConnectionInv /\ LengthsInv /\ [Next]_vars => ConnectionInv' /\ LengthsInv'
  BY ConnectionStep, LengthsStep
<1> QED BY <1>1, <1>2, PTL DEF Spec

(* A publication of which the socket took every byte ends where its header *)
(* says, whatever its size; and from a broker that holds CONNECT to its    *)
(* declared length no alert gets further, whatever the client id (connect, *)
(* mqtt_client.cpp:87, publish, :186-214).                                 *)
THEOREM LengthsAgreeTheorem == Spec => []LengthsAgree
<1>1. ConnectionInv /\ LengthsInv => LengthsAgree
  <2> SUFFICES ASSUME ConnectionInv, LengthsInv PROVE LengthsAgree
    OBVIOUS
  <2>1. DOMAIN wire = 1..Len(wire)
    BY DEF ConnectionInv, WireType
  <2>2. ASSUME NEW i \in DOMAIN wire, wire[i].place > 0, wire[i].place \notin cut PROVE InStep(wire[i])
    <3>1. Built(wire[i])
      BY <2>1, <2>2 DEF LengthsInv, BuiltUnlessCut
    <3> QED BY <3>1, BuiltInStep
  <2>3. broker.received # <<>> \/ broker.garbled => broker.lenient
    BY DEF LengthsInv
  <2> QED BY <2>2, <2>3 DEF LengthsAgree
<1> QED BY <1>1, LengthsInvariant, PTL

-----------------------------------------------------------------------------
(* The order of what the broker gets *)

(* The i-th publication received is not before the i-th sent, and is that  *)
(* one as long as none up to it was cut.                                   *)
Received ==
    /\ \A i \in 1..Len(broker.received) : broker.received[i] \in i..stats.messages_published
    /\ \A i, j \in 1..Len(broker.received) : i < j => broker.received[i] < broker.received[j]
    /\ \A i \in 1..Len(broker.received) : (\A other \in cut : i < other) => broker.received[i] = i

(* The publications on the wire follow, without a gap, those received, and *)
(* a packet that was cut has not been reached.                             *)
InSession ==
    broker.session = "session" =>
        /\ ~broker.garbled
        /\ Len(broker.received) + Len(wire) = stats.messages_published
        /\ \A i \in 1..Len(wire) : wire[i].place = Len(broker.received) + i
        /\ \A i \in 1..Len(broker.received) : broker.received[i] = i
        /\ \A other \in cut : Len(broker.received) < other

(* Only what came before a packet that was cut is received for sure.       *)
Spoilt ==
    broker.garbled \/ broker.session = "adrift" =>
        \E first \in cut : first <= Len(broker.received) + 1

(* A broker that is adrift still reads publications later than those it    *)
(* has received, one after the other.                                      *)
Drifting ==
    broker.session = "adrift" =>
        /\ \A i \in 1..Len(wire) : wire[i].place \in 1..stats.messages_published
        /\ \A i \in 1..Len(wire) : \A j \in 1..Len(broker.received) : broker.received[j] < wire[i].place
        /\ \A i, j \in 1..Len(wire) : i < j => wire[i].place < wire[j].place

OrderInv == Received /\ InSession /\ Spoilt /\ Drifting

LEMMA OrderStart == Init => OrderInv
<1> SUFFICES ASSUME Init PROVE OrderInv
  OBVIOUS
<1>1. broker.received = <<>> /\ broker.session = "none" /\ broker.garbled = FALSE
  BY DEF Init
<1>2. Len(broker.received) = 0
  BY <1>1
<1>3. Received
  BY <1>2 DEF Received
<1> QED BY <1>1, <1>3 DEF OrderInv, InSession, Spoilt, Drifting

(* A step by which the broker receives nothing, and of which it reads      *)
(* nothing later.                                                          *)
LEMMA OrderQuiet ==
    ASSUME WireType, OrderInv, broker'.received = broker.received, broker'.garbled => broker.garbled,
           stats'.messages_published = stats.messages_published, cut \subseteq cut',
           \/ broker'.session \notin {"session", "adrift"}
           \/ broker'.session = broker.session /\ wire' = wire /\ cut' = cut
    PROVE  OrderInv'
<1>1. Received'
  BY DEF OrderInv, Received
<1>2. InSession'
  BY DEF OrderInv, InSession
<1>3. Spoilt'
  BY DEF OrderInv, Spoilt
<1>4. Drifting'
  BY DEF OrderInv, Drifting
<1> QED BY <1>1, <1>2, <1>3, <1>4 DEF OrderInv

LEMMA OrderSend ==
    ASSUME ConnectionInv, OrderInv, Publish, NEW size \in Sizes, Sending(size)
    PROVE  OrderInv'
<1> DEFINE n == Len(broker.received)
           m == stats.messages_published
           packet == Packet(Encoded(PublishLength(size)), PublishLength(size), sent + 1)
           last == wire'[Len(wire) + 1]
<1>0. WireType /\ Received /\ InSession /\ Spoilt /\ Drifting
  BY DEF ConnectionInv, OrderInv
<1>1. /\ broker' = broker /\ m = sent /\ m \in Nat /\ n \in Nat /\ Len(wire) \in Nat
      /\ broker.received \in Seq(Nat)
  BY <1>0, PublishCases DEF WireType, BrokerType
<1>2. stats'.messages_published = m + 1
  BY <1>0, <1>1 DEF Sending, WireType, StatsType
<1>3. packet \in PacketType /\ Handed(packet) /\ packet.place = m + 1
  BY <1>1, PacketsType DEF Sending, Packet
<1>4. /\ Len(wire') = Len(wire) + 1
      /\ \A i \in 1..Len(wire) : wire'[i] = wire[i]
      /\ last.place = m + 1
      /\ cut' = cut \/ cut' = cut \cup {m + 1}
      /\ cut \in SUBSET Nat
  <2> HIDE DEF packet, n, m
  <2> QED BY <1>0, <1>3, HandedPacket DEF WireType
<1>5. \A i \in 1..Len(wire') : i \in 1..Len(wire) \/ (i = Len(wire) + 1 /\ wire'[i] = last)
  BY <1>1, <1>4
<1> HIDE DEF packet, last
<1>6. Received'
  <2>1. \A i \in 1..n : broker.received[i] \in i..m + 1
    BY <1>0, <1>1 DEF Received
  <2>2. \A i \in 1..n : (\A other \in cut' : i < other) => broker.received[i] = i
    BY <1>0, <1>4 DEF Received
  <2> QED BY <1>0, <1>1, <1>2, <2>1, <2>2 DEF Received
<1>7. InSession'
  <2> SUFFICES ASSUME broker.session = "session" PROVE InSession'
    BY <1>1 DEF InSession
  <2>1. /\ ~broker.garbled /\ n + Len(wire) = m
        /\ \A i \in 1..Len(wire) : wire[i].place = n + i
        /\ \A i \in 1..n : broker.received[i] = i
        /\ \A other \in cut : n < other
    BY <1>0 DEF InSession
  <2> HIDE DEF n, m
  <2>2. n + Len(wire') = m + 1 /\ n < m + 1 /\ m + 1 = n + (Len(wire) + 1)
    BY <1>1, <1>4, <2>1
  <2>3. \A i \in 1..Len(wire') : wire'[i].place = n + i
    BY <1>4, <1>5, <2>1, <2>2
  <2>4. \A other \in cut' : n < other
    BY <1>4, <2>1, <2>2
  <2> QED BY <1>1, <1>2, <2>1, <2>2, <2>3, <2>4 DEF InSession, n
<1>8. Spoilt'
  BY <1>0, <1>1, <1>4 DEF Spoilt
<1>9. Drifting'
  <2> SUFFICES ASSUME broker.session = "adrift" PROVE Drifting'
    BY <1>1 DEF Drifting
  <2>1. /\ \A i \in 1..Len(wire) : wire[i].place \in 1..m
        /\ \A i \in 1..Len(wire) : \A j \in 1..n : broker.received[j] < wire[i].place
        /\ \A i, j \in 1..Len(wire) : i < j => wire[i].place < wire[j].place
        /\ \A j \in 1..n : broker.received[j] \in j..m
    BY <1>0 DEF Drifting, Received
  <2> HIDE DEF n, m
  <2>2. \A i \in 1..Len(wire') : wire'[i].place \in 1..m + 1
    <3> SUFFICES ASSUME NEW i \in 1..Len(wire') PROVE wire'[i].place \in 1..m + 1
      OBVIOUS
    <3>1. CASE i \in 1..Len(wire)
      BY <1>1, <1>4, <2>1, <3>1
    <3>2. CASE wire'[i] = last
      BY <1>1, <1>4, <3>2
    <3> QED BY <1>5, <3>1, <3>2
  <2>3. \A i \in 1..Len(wire') : \A j \in 1..n : broker.received[j] < wire'[i].place
    <3> SUFFICES ASSUME NEW i \in 1..Len(wire'), NEW j \in 1..n PROVE broker.received[j] < wire'[i].place
      OBVIOUS
    <3>1. CASE i \in 1..Len(wire)
      BY <1>4, <2>1, <3>1
    <3>2. CASE wire'[i] = last
      <4>1. broker.received[j] \in j..m
        BY <2>1
      <4>2. broker.received[j] < m + 1
        BY <1>1, <4>1
      <4> QED BY <1>4, <3>2, <4>2
    <3> QED BY <1>5, <3>1, <3>2
  <2>4. \A i, j \in 1..Len(wire') : i < j => wire'[i].place < wire'[j].place
    <3> SUFFICES ASSUME NEW i \in 1..Len(wire'), NEW j \in 1..Len(wire'), i < j
                 PROVE  wire'[i].place < wire'[j].place
      OBVIOUS
    <3>1. i \in 1..Len(wire)
      BY <1>1, <1>4
    <3>2. CASE j \in 1..Len(wire)
      BY <1>4, <2>1, <3>1, <3>2
    <3>3. CASE wire'[j] = last
      <4>1. wire[i].place \in 1..m /\ wire'[i] = wire[i]
        BY <1>4, <2>1, <3>1
      <4>2. wire[i].place < m + 1
        BY <1>1, <4>1
      <4> QED BY <1>4, <3>3, <4>1, <4>2
    <3> QED BY <1>5, <3>2, <3>3
  <2> QED BY <1>1, <1>2, <2>2, <2>3, <2>4 DEF Drifting, n
<1> QED BY <1>6, <1>7, <1>8, <1>9 DEF OrderInv

(* A publication received at its place on the wire.                        *)
LEMMA OrderRead ==
    ASSUME ConnectionInv, OrderInv, broker.session \in {"session", "adrift"}, wire # <<>>, wire' = Tail(wire),
           Head(wire).place > 0 => Head(wire).place \notin cut,
           UNCHANGED <<stats, cut>>, broker' = [broker EXCEPT !.received = Append(@, Head(wire).place)]
    PROVE  OrderInv'
<1> DEFINE n == Len(broker.received)
           m == stats.messages_published
           place == Head(wire).place
<1>0. WireType /\ Received /\ InSession /\ Spoilt /\ Drifting
  BY DEF ConnectionInv, OrderInv
<1>1. /\ n \in Nat /\ m \in Nat /\ Len(wire) \in Nat /\ Len(wire) > 0 /\ Head(wire) = wire[1] /\ place \in Nat
      /\ Len(wire') = Len(wire) - 1
      /\ \A i \in 1..Len(wire') : wire'[i] = wire[i + 1]
      /\ cut \in SUBSET Nat
  <2>1. n \in Nat /\ m \in Nat /\ Len(wire) \in Nat /\ cut \in SUBSET Nat
    BY <1>0 DEF WireType, BrokerType, StatsType
  <2>2. Head(wire) = wire[1] /\ Head(wire) \in PacketType /\ Len(wire) > 0 /\ Len(wire') = Len(wire) - 1
        /\ \A i \in 1..Len(wire') : wire'[i] = wire[i + 1]
    BY <1>0 DEF WireType
  <2> QED BY <2>1, <2>2 DEF PacketType
<1>2. /\ broker'.session = broker.session /\ broker'.garbled = broker.garbled
      /\ Len(broker'.received) = n + 1 /\ broker'.received[n + 1] = place
      /\ \A i \in 1..n : broker'.received[i] = broker.received[i]
  <2>1. broker.received \in Seq(Nat)
    BY <1>0 DEF WireType, BrokerType
  <2>2. broker'.received = Append(broker.received, place)
        /\ broker'.session = broker.session /\ broker'.garbled = broker.garbled
    BY <1>0 DEF WireType, BrokerType
  <2> HIDE DEF place
  <2> QED BY <1>1, <2>1, <2>2
<1>3. \A i \in 1..n : broker.received[i] \in i..m
  BY <1>0 DEF Received
<1>4. place \in n + 1..m /\ \A i \in 1..n : broker.received[i] < place
  <2>1. 1 \in 1..Len(wire)
    BY <1>1
  <2>2. CASE broker.session = "session"
    <3>1. n + Len(wire) = m /\ place = n + 1 /\ \A i \in 1..n : broker.received[i] = i
      BY <1>0, <1>1, <2>1, <2>2 DEF InSession
    <3> QED BY <1>1, <3>1
  <2>3. CASE broker.session = "adrift"
    <3>1. place \in 1..m /\ \A i \in 1..n : broker.received[i] < place
      BY <1>0, <1>1, <2>1, <2>3 DEF Drifting
    <3> HIDE DEF place
    <3>2. n + 1 <= place
      <4>1. CASE n = 0
        BY <3>1, <4>1
      <4>2. CASE n # 0
        <5>1. n \in 1..n
          BY <1>1, <4>2
        <5>2. broker.received[n] \in n..m /\ broker.received[n] < place
          BY <1>3, <3>1, <5>1
        <5> QED BY <1>1, <5>2
      <4> QED BY <4>1, <4>2
    <3> QED BY <1>1, <3>1, <3>2
  <2> QED BY <2>2, <2>3
<1>5. ~(\A other \in cut : n + 1 < other) \/ place = n + 1
  <2>1. CASE broker.session = "session"
    BY <1>0, <1>1, <2>1 DEF InSession
  <2>2. CASE broker.session = "adrift"
    <3>1. PICK first \in cut : first <= n + 1
      BY <1>0, <2>2 DEF Spoilt
    <3>2. first \in Nat
      BY <1>1
    <3>3. ~(n + 1 < first)
      BY <1>1, <3>1, <3>2
    <3> QED BY <3>3
  <2> QED BY <2>1, <2>2
<1> HIDE DEF place
<1>6. \A i \in 1..Len(broker'.received) : i \in 1..n \/ i = n + 1
  BY <1>1, <1>2
<1>7. Received'
  <2>1. \A i \in 1..n + 1 : broker'.received[i] \in i..m
    BY <1>1, <1>2, <1>3, <1>4, <1>6
  <2>2. ASSUME NEW i \in 1..n + 1, NEW j \in 1..n + 1, i < j PROVE broker'.received[i] < broker'.received[j]
    <3>1. i \in 1..n
      BY <1>1, <2>2
    <3>2. CASE j \in 1..n
      BY <1>0, <1>2, <2>2, <3>1, <3>2 DEF Received
    <3>3. CASE j = n + 1
      BY <1>2, <1>4, <3>1, <3>3
    <3> QED BY <1>2, <1>6, <3>2, <3>3
  <2>3. ASSUME NEW i \in 1..n + 1, \A other \in cut : i < other PROVE broker'.received[i] = i
    <3>1. CASE i \in 1..n
      BY <1>0, <1>2, <2>3, <3>1 DEF Received
    <3>2. CASE i = n + 1
      BY <1>2, <1>5, <2>3, <3>2
    <3> QED BY <1>2, <1>6, <3>1, <3>2
  <2>4. stats'.messages_published = m /\ cut' = cut
    OBVIOUS
  <2> HIDE DEF n, m
  <2> QED BY <1>2, <2>1, <2>2, <2>3, <2>4 DEF Received
<1>8. InSession'
  <2> SUFFICES ASSUME broker.session = "session" PROVE InSession'
    BY <1>2 DEF InSession
  <2>1. /\ ~broker.garbled /\ n + Len(wire) = m
        /\ \A i \in 1..Len(wire) : wire[i].place = n + i
        /\ \A i \in 1..n : broker.received[i] = i
        /\ \A other \in cut : n < other
    BY <1>0 DEF InSession
  <2>2. place = n + 1
    BY <1>1, <2>1 DEF place
  <2>3. (n + 1) + Len(wire') = m
    BY <1>1, <2>1
  <2>4. ASSUME NEW i \in 1..Len(wire') PROVE wire'[i].place = (n + 1) + i
    <3>1. i + 1 \in 1..Len(wire) /\ n + (i + 1) = (n + 1) + i
      <4>1. i + 1 \in 1..Len(wire) /\ i \in Nat
        BY <1>1
      <4>2. \A a, b \in Nat : a + (b + 1) = (a + 1) + b
        OBVIOUS
      <4> QED BY <1>1, <4>1, <4>2
    <3>2. wire[i + 1].place = n + (i + 1)
      BY <2>1, <3>1
    <3> QED BY <1>1, <3>1, <3>2
  <2>5. \A i \in 1..n + 1 : broker'.received[i] = i
    BY <1>1, <1>2, <1>6, <2>1, <2>2
  <2>6. \A other \in cut : n + 1 < other
    <3> SUFFICES ASSUME NEW other \in cut PROVE n + 1 < other
      OBVIOUS
    <3>1. other \in Nat /\ n < other /\ other # n + 1
      BY <1>1, <2>1, <2>2 DEF place
    <3> QED BY <1>1, <3>1
  <2>7. stats'.messages_published = m /\ cut' = cut
    OBVIOUS
  <2> HIDE DEF n, m
  <2> QED BY <1>2, <2>1, <2>3, <2>4, <2>5, <2>6, <2>7 DEF InSession
<1>9. Spoilt'
  BY <1>0, <1>1, <1>2 DEF Spoilt
<1>10. Drifting'
  <2> SUFFICES ASSUME broker.session = "adrift" PROVE Drifting'
    BY <1>2 DEF Drifting
  <2>1. /\ \A i \in 1..Len(wire) : wire[i].place \in 1..m
        /\ \A i \in 1..Len(wire) : \A j \in 1..n : broker.received[j] < wire[i].place
        /\ \A i, j \in 1..Len(wire) : i < j => wire[i].place < wire[j].place
    BY <1>0 DEF Drifting
  <2>2. \A i \in 1..Len(wire') : /\ i + 1 \in 1..Len(wire) /\ wire'[i] = wire[i + 1]
                                /\ 1 \in 1..Len(wire) /\ 1 < i + 1
    BY <1>1
  <2>3. \A i \in 1..Len(wire') : place < wire'[i].place
    BY <1>1, <2>1, <2>2 DEF place
  <2>4. \A i \in 1..Len(wire') : \A j \in 1..n + 1 : broker'.received[j] < wire'[i].place
    <3> SUFFICES ASSUME NEW i \in 1..Len(wire'), NEW j \in 1..n + 1
                 PROVE  broker'.received[j] < wire'[i].place
      OBVIOUS
    <3>1. CASE j \in 1..n
      BY <1>2, <2>1, <2>2, <3>1
    <3>2. CASE j = n + 1
      BY <1>2, <2>3, <3>2
    <3> QED BY <1>2, <1>6, <3>1, <3>2
  <2>5. \A i, j \in 1..Len(wire') : i < j => wire'[i].place < wire'[j].place
    <3> SUFFICES ASSUME NEW i \in 1..Len(wire'), NEW j \in 1..Len(wire'), i < j
                 PROVE  wire'[i].place < wire'[j].place
      OBVIOUS
    <3>1. i + 1 < j + 1
      OBVIOUS
    <3> QED BY <2>1, <2>2, <3>1
  <2>6. \A i \in 1..Len(wire') : wire'[i].place \in 1..m
    BY <2>1, <2>2
  <2>7. stats'.messages_published = m
    OBVIOUS
  <2> HIDE DEF n, m
  <2> QED BY <1>2, <2>4, <2>5, <2>6, <2>7 DEF Drifting
<1> QED BY <1>7, <1>8, <1>9, <1>10 DEF OrderInv

(* The packet that was cut is read, with the next.                         *)
LEMMA OrderCut == ASSUME ConnectionInv, LengthsInv, OrderInv, ReadCut PROVE OrderInv'
<1> DEFINE n == Len(broker.received)
           m == stats.messages_published
<1>0. WireType /\ Received /\ InSession
  BY DEF ConnectionInv, OrderInv
<1>1. PICK taken \in BOOLEAN, session \in {"adrift", "closed"} :
          broker' = [broker EXCEPT !.session = session, !.garbled = taken]
  BY DEF ReadCut
<1>2. /\ broker.session = "session" /\ Len(wire) > 1 /\ ~InStep(Head(wire))
      /\ wire' = Tail(Tail(wire)) /\ stats' = stats /\ cut' = cut
  BY DEF ReadCut, clientVars, history
<1>3. n \in Nat /\ m \in Nat /\ Len(wire) \in Nat /\ wire \in Seq(PacketType) /\ Head(wire) = wire[1]
  BY <1>0, <1>2 DEF WireType, BrokerType, StatsType
<1>4. /\ n + Len(wire) = m
      /\ \A i \in 1..Len(wire) : wire[i].place = n + i
      /\ \A i \in 1..n : broker.received[i] = i
  BY <1>0, <1>2 DEF InSession
<1>5. broker'.session = session /\ broker'.received = broker.received
  BY <1>0, <1>1 DEF WireType, BrokerType
<1>6. Received'
  BY <1>0, <1>2, <1>5 DEF Received
<1>7. InSession'
  BY <1>5 DEF InSession
<1>8. Spoilt'
  <2>1. 1 \in 1..Len(wire) /\ wire[1].place = n + 1
    BY <1>2, <1>3, <1>4
  <2>2. ~Built(wire[1])
    BY <1>2, <1>3, BuiltInStep
  <2>3. BuiltUnlessCut(wire[1], cut, sent)
    BY <2>1 DEF LengthsInv
  <2>4. n + 1 \in cut /\ n + 1 <= n + 1
    BY <1>3, <2>1, <2>2, <2>3 DEF BuiltUnlessCut
  <2> QED BY <1>2, <1>5, <2>4 DEF Spoilt
<1>9. Drifting'
  <2>1. Len(wire') = Len(wire) - 2 /\ \A i \in 1..Len(wire) - 2 : wire'[i] = wire[i + 2]
    BY <1>2, <1>3, TailTail
  <2>2. \A i \in 1..Len(wire') : wire'[i].place = n + i + 2 /\ n + i + 2 \in 1..m
    <3> SUFFICES ASSUME NEW i \in 1..Len(wire') PROVE wire'[i].place = n + i + 2 /\ n + i + 2 \in 1..m
      OBVIOUS
    <3>1. i \in 1..Len(wire) - 2 /\ i + 2 \in 1..Len(wire) /\ n + (i + 2) = n + i + 2 /\ n + i + 2 \in 1..m
      <4>1. i \in 1..Len(wire) - 2
        BY <2>1
      <4>2. \A a, b \in Nat : \A c \in 1..b - 2 :
                c + 2 \in 1..b /\ a + (c + 2) = a + c + 2 /\ a + c + 2 \in 1..a + b
        OBVIOUS
      <4>3. i + 2 \in 1..Len(wire) /\ n + (i + 2) = n + i + 2 /\ n + i + 2 \in 1..n + Len(wire)
        <5> HIDE DEF n
        <5>1. n \in Nat /\ Len(wire) \in Nat
          BY <1>3
        <5> QED BY <4>1, <4>2, <5>1, Zenon
      <4> QED BY <1>4, <4>1, <4>3, Zenon
    <3>2. wire[i + 2].place = n + (i + 2)
      BY <1>4, <3>1
    <3> QED BY <2>1, <3>1, <3>2
  <2>3. \A i \in 1..Len(wire') : \A j \in 1..n : broker.received[j] < wire'[i].place
    <3> SUFFICES ASSUME NEW i \in 1..Len(wire'), NEW j \in 1..n PROVE broker.received[j] < wire'[i].place
      OBVIOUS
    <3>1. j < n + i + 2
      BY <1>3
    <3> QED BY <1>4, <2>2, <3>1
  <2>4. \A i, j \in 1..Len(wire') : i < j => wire'[i].place < wire'[j].place
    <3> SUFFICES ASSUME NEW i \in 1..Len(wire'), NEW j \in 1..Len(wire'), i < j
                 PROVE  wire'[i].place < wire'[j].place
      OBVIOUS
    <3>1. n + i + 2 < n + j + 2
      BY <1>3
    <3> QED BY <2>2, <3>1
  <2>5. stats'.messages_published = m
    BY <1>2
  <2>6. \A i \in 1..Len(wire') : wire'[i].place \in 1..m
    BY <2>2
  <2> HIDE DEF n, m
  <2> QED BY <1>5, <2>3, <2>4, <2>5, <2>6 DEF Drifting, n
<1> QED BY <1>6, <1>7, <1>8, <1>9 DEF OrderInv

(* A broker that is adrift passes a packet by. *)
LEMMA OrderDrift ==
    ASSUME ConnectionInv, OrderInv, broker.session = "adrift", wire # <<>>, wire' = Tail(wire),
           UNCHANGED <<stats, cut>>, broker'.session = "adrift", broker'.received = broker.received
    PROVE  OrderInv'
<1>0. WireType /\ Received /\ Spoilt /\ Drifting
  BY DEF ConnectionInv, OrderInv
<1>1. /\ Len(wire) \in Nat /\ Len(wire) > 0 /\ Len(wire') = Len(wire) - 1
      /\ \A i \in 1..Len(wire') : wire'[i] = wire[i + 1]
  BY <1>0 DEF WireType
<1>2. \A i \in 1..Len(wire') : i + 1 \in 1..Len(wire) /\ wire'[i] = wire[i + 1]
  BY <1>1
<1>3. \A i, j \in 1..Len(wire') : i < j => i + 1 < j + 1
  OBVIOUS
<1>4. Received' /\ InSession' /\ Spoilt'
  BY <1>0 DEF Received, InSession, Spoilt
<1>5. Drifting'
  <2>1. \A i, j \in 1..Len(wire') : i < j => wire'[i].place < wire'[j].place
    BY <1>0, <1>2, <1>3 DEF Drifting
  <2>2. \A i \in 1..Len(wire') : wire'[i].place \in 1..stats.messages_published
    BY <1>0, <1>2 DEF Drifting
  <2>3. \A i \in 1..Len(wire') : \A j \in 1..Len(broker.received) : broker.received[j] < wire'[i].place
    BY <1>0, <1>2 DEF Drifting
  <2> QED BY <2>1, <2>2, <2>3 DEF Drifting
<1> QED BY <1>4, <1>5 DEF OrderInv

LEMMA OrderStep == ASSUME ConnectionInv, LengthsInv, OrderInv, [Next]_vars PROVE OrderInv'
<1>0. WireType /\ Handshake /\ Unread /\ Counted
  BY DEF ConnectionInv, Handshake
<1>1. CASE Open
  <2>1. /\ stats' = [stats EXCEPT !.connection_attempts = @ + 1] /\ cut' = cut /\ wire' = wire
        /\ broker' = broker \/ broker' = [broker EXCEPT !.session = "accepted"]
    BY <1>1 DEF Open, GiveUp, history
  <2>2. /\ stats'.messages_published = stats.messages_published
        /\ broker'.received = broker.received /\ broker'.garbled = broker.garbled
        /\ broker'.session = broker.session \/ broker'.session = "accepted"
    BY <1>0, <2>1 DEF WireType, BrokerType, StatsType
  <2> QED BY <1>0, <2>1, <2>2, OrderQuiet
<1>2. CASE SendConnect
  <2>1. UNCHANGED <<stats, broker>> /\ cut \subseteq cut' /\ main = "connect_send"
    BY <1>2 DEF SendConnect, GiveUp, Handed
  <2>2. broker.session \in {"accepted", "closed"}
    BY <1>0, <2>1 DEF Handshake
  <2> QED BY <1>0, <2>1, <2>2, OrderQuiet
<1>3. CASE Answered \/ Unanswered \/ Turns \/ UNCHANGED vars
  <2>1. UNCHANGED <<wire, broker, cut>>
    BY <1>3 DEF Answered, Unanswered, Turns, StartAsync, StartWorker, Stop, JoinWorker, StopAsync,
                Disconnect, WorkerEnd, AsyncEnd, vars, history
  <2>2. stats' = stats \/ stats' = [stats EXCEPT !.successful_connections = @ + 1]
    BY <1>3 DEF Answered, Unanswered, Turns, StartAsync, StartWorker, Stop, JoinWorker, StopAsync,
                Disconnect, WorkerEnd, AsyncEnd, vars, clientVars
  <2>3. stats'.messages_published = stats.messages_published
    BY <1>0, <2>2 DEF WireType, StatsType
  <2> QED BY <1>0, <2>1, <2>3, OrderQuiet
<1>4. CASE Publish
  <2>1. broker' = broker /\ (Failing \/ \E size \in Sizes : Sending(size))
    BY <1>4, PublishCases
  <2>2. CASE Failing
    BY <1>0, <2>1, <2>2, OrderQuiet DEF Failing
  <2> QED BY <1>4, <2>1, <2>2, OrderSend
<1>5. CASE Drop \/ Refuse
  <2>1. /\ broker' = [broker EXCEPT !.session = "closed"]
           \/ broker' = [broker EXCEPT !.session = "closed", !.answer = "refused"]
        /\ UNCHANGED <<stats, cut>>
    BY <1>5 DEF Drop, Refuse, clientVars, history
  <2>2. broker'.received = broker.received /\ broker'.session = "closed" /\ broker'.garbled = broker.garbled
    BY <1>0, <2>1 DEF WireType, BrokerType
  <2> QED BY <1>0, <2>1, <2>2, OrderQuiet
<1>6. CASE ReadConnect
  <2>1. /\ broker.session = "accepted" /\ wire # <<>> /\ Head(wire).body = ConnectBody
        /\ wire' = Tail(wire) /\ UNCHANGED <<stats, cut, sent, failed>>
    BY <1>6 DEF ReadConnect, clientVars, history
  <2>2. PICK taken \in BOOLEAN :
            broker' = [broker EXCEPT !.session = IF taken THEN "session" ELSE "closed",
                                     !.answer = IF taken THEN "accepted" ELSE @]
    BY <1>6 DEF ReadConnect
  <2>3. /\ broker'.received = broker.received /\ broker'.garbled = broker.garbled
        /\ broker'.session = IF taken THEN "session" ELSE "closed"
    BY <1>0, <2>2 DEF WireType, BrokerType
  <2>4. CASE ~taken
    BY <1>0, <2>1, <2>3, <2>4, OrderQuiet
  <2>5. CASE taken
    <3>1. broker.received = <<>> /\ ~broker.garbled /\ Len(wire) <= 1 /\ cut = {}
      <4>1. Head(wire).body # 0
        BY <2>1, PacketsType
      <4> QED BY <1>0, <2>1, <4>1 DEF Unread
    <3>2. Len(wire') = 0 /\ Len(broker.received) = 0
      <4>1. wire \in Seq(PacketType) /\ Len(wire) \in Nat /\ Len(wire) # 0
        BY <1>0, <2>1 DEF WireType
      <4>2. Len(Tail(wire)) = Len(wire) - 1
        BY <2>1, <4>1
      <4>3. Len(wire') = 0
        BY <2>1, <3>1, <4>1, <4>2
      <4> QED BY <3>1, <4>3
    <3>3. stats.messages_published = 0
      <4>1. broker.answer # "accepted"
        BY <1>0, <2>1 DEF Unread
      <4>2. sent = 0
        BY <1>0, <4>1 DEF Handshake
      <4>3. ~failed
        BY <1>0, <4>2 DEF Counted
      <4>4. stats.messages_published = sent - 0
        BY <1>0, <4>3 DEF Counted
      <4> QED BY <4>2, <4>4
    <3>4. Received' /\ Spoilt' /\ Drifting'
      BY <2>3, <2>5, <3>1, <3>2 DEF Received, Spoilt, Drifting
    <3>5. InSession'
      BY <2>1, <2>3, <3>1, <3>2, <3>3 DEF InSession
    <3> QED BY <3>4, <3>5 DEF OrderInv
  <2> QED BY <2>4, <2>5
<1>7. ASSUME wire # <<>>, InStep(Head(wire)) PROVE Head(wire).place > 0 => Head(wire).place \notin cut
  <2>1. 1 \in 1..Len(wire) /\ Head(wire) = wire[1]
    BY <1>0, <1>7 DEF WireType
  <2>2. BuiltUnlessCut(wire[1], cut, sent)
    BY <2>1 DEF LengthsInv
  <2> QED BY <1>7, <2>1, <2>2, TornOutOfStep DEF BuiltUnlessCut
<1>8. CASE ReadPublish
  BY <1>7, <1>8, OrderRead DEF ReadPublish, clientVars, history
<1>9. CASE ReadAdrift
  <2>1. /\ broker.session = "adrift" /\ wire # <<>> /\ wire' = Tail(wire) /\ UNCHANGED <<stats, cut>>
        /\ \/ \E taken \in BOOLEAN : broker' = [broker EXCEPT !.garbled = @ \/ taken]
           \/ broker' = [broker EXCEPT !.session = "closed"]
           \/ InStep(Head(wire)) /\ broker' = [broker EXCEPT !.received = Append(@, Head(wire).place)]
    BY <1>9 DEF ReadAdrift, clientVars, history
  <2>2. CASE \E taken \in BOOLEAN : broker' = [broker EXCEPT !.garbled = @ \/ taken]
    <3>1. broker'.session = "adrift" /\ broker'.received = broker.received
      BY <1>0, <2>1, <2>2 DEF WireType, BrokerType
    <3> QED BY <2>1, <3>1, OrderDrift
  <2>3. CASE broker' = [broker EXCEPT !.session = "closed"]
    <3>1. /\ broker'.session = "closed" /\ broker'.received = broker.received
          /\ broker'.garbled = broker.garbled
      BY <1>0, <2>3 DEF WireType, BrokerType
    <3> QED BY <1>0, <2>1, <3>1, OrderQuiet
  <2>4. CASE InStep(Head(wire)) /\ broker' = [broker EXCEPT !.received = Append(@, Head(wire).place)]
    BY <1>7, <2>1, <2>4, OrderRead
  <2> QED BY <2>1, <2>2, <2>3, <2>4
<1> QED BY <1>1, <1>2, <1>3, <1>4, <1>5, <1>6, <1>8, <1>9, OrderCut, StepsOf DEF Broker

LEMMA OrderInvariant == Spec => [](ConnectionInv /\ OrderInv)
<1>1. Init => OrderInv
  BY OrderStart
<1>2. ConnectionInv /\ LengthsInv /\ OrderInv /\ [Next]_vars => OrderInv'
  BY OrderStep
<1> QED BY <1>1, <1>2, LengthsInvariant, PTL DEF Spec

(* The broker gets no publication twice or out of order, and everything    *)
(* that precedes the first packet that was cut: what it has not read of it *)
(* yet is on the wire while the session lasts (publish,                    *)
(* mqtt_client.cpp:173-223).                                               *)
THEOREM ReceivedInOrderTheorem == Spec => []ReceivedInOrder
<1>1. ConnectionInv /\ OrderInv => ReceivedInOrder
  <2> SUFFICES ASSUME ConnectionInv, OrderInv PROVE ReceivedInOrder
    OBVIOUS
  <2> DEFINE n == Len(broker.received)
             m == stats.messages_published
             places == [i \in DOMAIN wire |-> wire[i].place]
  <2>0. WireType /\ Counted /\ Received /\ InSession /\ Spoilt
    BY DEF ConnectionInv, OrderInv
  <2>1. /\ broker.received \in Seq(Nat) /\ wire \in Seq(PacketType) /\ cut \in SUBSET Nat
        /\ n \in Nat /\ m \in Nat /\ Len(wire) \in Nat
        /\ DOMAIN broker.received = 1..n /\ DOMAIN wire = 1..Len(wire)
    BY <2>0 DEF WireType, BrokerType, StatsType
  <2>2. \A i, j \in DOMAIN broker.received : i < j => broker.received[i] < broker.received[j]
    BY <2>0, <2>1 DEF Received
  <2>3. \A i \in DOMAIN broker.received : i \in Untorn => broker.received[i] = i
    BY <2>0, <2>1 DEF Received, Untorn
  <2>4. ASSUME broker.garbled \/ broker.session = "adrift" PROVE Untorn \subseteq DOMAIN broker.received
    <3>1. PICK first \in cut : first <= n + 1
      BY <2>0, <2>4 DEF Spoilt
    <3> SUFFICES ASSUME NEW place \in Untorn PROVE place \in 1..n
      BY <2>1
    <3>2. place \in 1..m /\ place < first /\ first \in Nat
      BY <2>1, <3>1 DEF Untorn
    <3> QED BY <2>1, <3>1, <3>2
  <2>5. ASSUME broker.session = "session"
        PROVE  ~broker.garbled /\ broker.received \o places = [i \in 1..m |-> i]
    <3>1. /\ ~broker.garbled /\ n + Len(wire) = m
          /\ \A i \in 1..Len(wire) : wire[i].place = n + i
          /\ \A i \in 1..n : broker.received[i] = i
      BY <2>0, <2>5 DEF InSession
    <3>2. places \in Seq(Nat) /\ Len(places) = Len(wire) /\ \A i \in 1..Len(wire) : places[i] = n + i
      <4>1. \A i \in 1..Len(wire) : wire[i].place \in Nat
        BY <2>1, <3>1
      <4>2. places \in [1..Len(wire) -> Nat]
        BY <2>1, <4>1
      <4> QED BY <2>1, <3>1, <4>2
    <3> HIDE DEF places
    <3>3. /\ broker.received \o places \in Seq(Nat) /\ Len(broker.received \o places) = m
          /\ \A i \in 1..m : (broker.received \o places)[i] = IF i <= n THEN broker.received[i] ELSE places[i - n]
      BY <2>1, <3>1, <3>2, ConcatProperties
    <3> DEFINE count == [i \in 1..m |-> i]
    <3>4. count \in Seq(Nat) /\ Len(count) = m /\ \A i \in 1..m : count[i] = i
      <4>1. count \in [1..m -> Nat]
        OBVIOUS
      <4> QED BY <2>1, <4>1
    <3> HIDE DEF count
    <3>5. ASSUME NEW i \in 1..m PROVE (broker.received \o places)[i] = i
      <4>1. CASE i <= n
        BY <2>1, <3>1, <3>3, <4>1
      <4>2. CASE ~(i <= n)
        <5>1. i - n \in 1..Len(wire) /\ n + (i - n) = i
          BY <2>1, <3>1, <4>2
        <5> QED BY <3>2, <3>3, <4>2, <5>1
      <4> QED BY <4>1, <4>2
    <3>6. broker.received \o places = count
      BY <3>3, <3>4, <3>5, SeqEqual
    <3> QED BY <3>1, <3>6 DEF count
  <2>6. stats.messages_published = sent - (IF failed THEN 1 ELSE 0)
    BY <2>0 DEF Counted
  <2> HIDE DEF n, m, places
  <2> QED BY <2>2, <2>3, <2>4, <2>5, <2>6 DEF ReceivedInOrder, m, places
<1> QED BY <1>1, OrderInvariant, PTL

-----------------------------------------------------------------------------
(* Types *)

Phases == {"connect", "connect_send", "connect_wait", "start_async", "start_worker", "running",
           "join_worker", "stop_async", "join_async", "destroy", "destroy_join", "stopped"}

(* connect is called once, and answered at most once. *)
ThreadsInv ==
    /\ main \in Phases
    /\ worker \in {"none", "running", "ended"} /\ async \in {"none", "running", "ended"}
    /\ running_ \in BOOLEAN /\ async_running_ \in BOOLEAN
    /\ open \in BOOLEAN
    /\ stats.connection_attempts \in 0..1 /\ (main = "connect" => stats.connection_attempts = 0)
    /\ stats.successful_connections \in 0..1 /\ (Connecting => stats.successful_connections = 0)

(* The bound counts every publication. *)
FrameInv ==
    /\ ThreadsInv
    /\ packet_id \in 0..IdModulus - 1
    /\ sent <= MaxMessages

LEMMA FrameStart == Init => FrameInv
<1> SUFFICES ASSUME Init PROVE FrameInv
  OBVIOUS
<1>1. 1 \in 0..IdModulus - 1 /\ 0 <= MaxMessages
  BY IdAssumption, MessagesAssumption
<1>2. /\ main = "connect" /\ worker = "none" /\ async = "none"
      /\ running_ = FALSE /\ async_running_ = FALSE /\ open = FALSE
      /\ packet_id = 1 /\ sent = 0
      /\ stats = [messages_published |-> 0, connection_attempts |-> 0, successful_connections |-> 0]
  BY DEF Init
<1>3. ThreadsInv
  <2>1. stats.connection_attempts = 0 /\ stats.successful_connections = 0
    BY <1>2
  <2>2. main \in Phases
    BY <1>2 DEF Phases
  <2>3. running_ \in BOOLEAN /\ async_running_ \in BOOLEAN /\ open \in BOOLEAN
    BY <1>2
  <2> QED BY <1>2, <2>1, <2>2, <2>3 DEF ThreadsInv
<1> QED BY <1>1, <1>2, <1>3 DEF FrameInv

LEMMA NextIdType == \A id \in Nat : NextId(id) \in 0..IdModulus - 1
<1>1. \A a, m \in Nat : m > 1 => (a + 1) % m \in 0..m - 1
  OBVIOUS
<1> QED BY <1>1, IdAssumption DEF NextId

LEMMA FrameStep == ASSUME ConnectionInv, FrameInv, [Next]_vars PROVE FrameInv'
<1>0. WireType /\ Handshake /\ Counted
  BY DEF ConnectionInv
<1>t. ThreadsInv /\ connected_ \in BOOLEAN /\ stats \in StatsType
  BY <1>0 DEF FrameInv, WireType
<1>1. CASE Open
  <2>1. /\ main = "connect" /\ stats' = [stats EXCEPT !.connection_attempts = @ + 1]
        /\ open' \in BOOLEAN /\ main' \in {"start_worker", "connect_send"}
        /\ UNCHANGED <<worker, async, running_, async_running_, packet_id, sent>>
    BY <1>1 DEF Open, GiveUp, history
  <2>2. stats'.connection_attempts = 1 /\ stats'.successful_connections = 0
    BY <1>t, <2>1 DEF ThreadsInv, StatsType, Connecting
  <2>3. ThreadsInv'
    BY <1>t, <2>1, <2>2 DEF ThreadsInv, Phases
  <2> QED BY <2>1, <2>3 DEF FrameInv
<1>2. CASE Answered
  <2>1. /\ main = "connect_wait" /\ stats' = [stats EXCEPT !.successful_connections = @ + 1]
        /\ main' = "start_async"
        /\ UNCHANGED <<worker, async, running_, async_running_, open, packet_id, sent>>
    BY <1>2 DEF Answered, history
  <2>2. stats'.successful_connections = 1 /\ stats'.connection_attempts = stats.connection_attempts
    BY <1>t, <2>1 DEF ThreadsInv, StatsType, Connecting
  <2>3. ThreadsInv'
    BY <1>t, <2>1, <2>2 DEF ThreadsInv, Phases, Connecting
  <2> QED BY <2>1, <2>3 DEF FrameInv
<1>3. CASE Unanswered \/ Turns
  <2>1. UNCHANGED <<packet_id, stats, sent>>
    BY <1>3 DEF Unanswered, GiveUp, Turns, StartAsync, StartWorker, Stop, JoinWorker, StopAsync, Disconnect,
                WorkerEnd, AsyncEnd, clientVars, history
  <2>2. /\ main' \in Phases \ {"connect", "connect_send", "connect_wait"} \/ main' = main
        /\ worker' \in {worker, "running", "ended"} /\ async' \in {async, "running", "ended"}
        /\ running_' \in {running_, TRUE, FALSE} /\ async_running_' \in {async_running_, TRUE, FALSE}
    BY <1>3 DEF Unanswered, GiveUp, Turns, StartAsync, StartWorker, Stop, JoinWorker, StopAsync, Disconnect,
                WorkerEnd, AsyncEnd, Phases
  <2>3. open' \in BOOLEAN
    <3>1. open' = open \/ open' = FALSE \/ open' = (open /\ ~connected_)
      BY <1>3 DEF Unanswered, GiveUp, Turns, StartAsync, StartWorker, Stop, JoinWorker, StopAsync, Disconnect,
                  WorkerEnd, AsyncEnd, clientVars
    <3> QED BY <1>t, <3>1 DEF ThreadsInv
  <2>4. ThreadsInv'
    <3>1. main' \in Phases /\ (main' = "connect" => main = "connect") /\ (Connecting' => Connecting)
      BY <1>t, <2>2 DEF ThreadsInv, Connecting
    <3>2. /\ worker' \in {"none", "running", "ended"} /\ async' \in {"none", "running", "ended"}
          /\ running_' \in BOOLEAN /\ async_running_' \in BOOLEAN
      BY <1>t, <2>2 DEF ThreadsInv
    <3> QED BY <1>t, <2>1, <2>3, <3>1, <3>2 DEF ThreadsInv
  <2> QED BY <2>1, <2>4 DEF FrameInv
<1>6. CASE Broker \/ UNCHANGED vars
  <2>1. UNCHANGED <<main, worker, async, running_, async_running_, open, packet_id, stats, sent>>
    BY <1>6 DEF Broker, ReadConnect, Refuse, ReadPublish, ReadCut, ReadAdrift, Drop, vars, threadVars, clientVars, history
  <2>3. ThreadsInv'
    BY <1>t, <2>1 DEF ThreadsInv, Connecting
  <2> QED BY <2>1, <2>3 DEF FrameInv
<1>4. CASE SendConnect
  <2>1. /\ main = "connect_send" /\ main' \in {"start_worker", "connect_wait"}
        /\ open' \in {open, FALSE}
        /\ UNCHANGED <<worker, async, running_, async_running_, packet_id, stats, sent>>
    BY <1>4 DEF SendConnect, GiveUp
  <2>2. ThreadsInv'
    BY <1>t, <2>1 DEF ThreadsInv, Phases, Connecting
  <2> QED BY <2>1, <2>2 DEF FrameInv
<1>5. CASE Publish
  <2>1. /\ packet_id' = NextId(packet_id) /\ sent < MaxMessages /\ sent' = sent + 1 /\ sent \in Nat
        /\ UNCHANGED <<main, worker, async, running_, async_running_, open>>
        /\ stats' = stats \/ stats' = [stats EXCEPT !.messages_published = @ + 1]
    BY <1>0, <1>5 DEF Publish, threadVars, WireType
  <2>2. sent' <= MaxMessages
    BY <2>1, MessagesAssumption
  <2>3. packet_id' \in 0..IdModulus - 1
    <3>1. packet_id \in Nat
      BY IdAssumption DEF FrameInv
    <3> QED BY <2>1, <3>1, NextIdType
  <2>4. /\ stats'.connection_attempts = stats.connection_attempts
        /\ stats'.successful_connections = stats.successful_connections
    BY <1>t, <2>1 DEF StatsType
  <2>5. ThreadsInv'
    BY <1>t, <2>1, <2>4 DEF ThreadsInv, Connecting
  <2> QED BY <2>2, <2>3, <2>5 DEF FrameInv
<1> QED BY <1>1, <1>2, <1>3, <1>4, <1>5, <1>6, StepsOf

(* Every byte of a fixed header fits a byte, the packet id its sixteen     *)
(* bits, and the client connects once in its life, since nothing calls     *)
(* connect again after an error (AlarmMQTT::start, alarm_mqtt.cpp:32-58).  *)
THEOREM TypeCorrect == Spec => []TypeOK
<1>1. ConnectionInv /\ LengthsInv /\ OrderInv /\ FrameInv => TypeOK
  <2> SUFFICES ASSUME ConnectionInv, LengthsInv, OrderInv, FrameInv PROVE TypeOK
    OBVIOUS
  <2>0. WireType
    BY DEF ConnectionInv
  <2>1. Header \subseteq Seq(0..255)
    <3>1. ConnectLength \in Seq(0..255)
      <4>1. \A n \in Nat : n % 256 \in 0..255
        OBVIOUS
      <4>2. 10 + ClientIdSize \in Nat
        BY SizesAssumption
      <4>3. (10 + ClientIdSize) % 256 \in 0..255
        BY <4>1, <4>2
      <4> QED BY <4>3 DEF ConnectLength
    <3>2. ASSUME NEW size \in Sizes PROVE Encoded(PublishLength(size)) \in Seq(0..255)
      <4>1. PublishLength(size) \in Nat
        BY SizesAssumption DEF PublishLength
      <4> QED BY <4>1, EncodedBytes
    <3> QED BY <3>1, <3>2 DEF Header
  <2>2. wire \in Seq([header : Seq(0..255), body : Nat, place : 0..MaxMessages])
    <3> DEFINE P == [header : Seq(0..255), body : Nat, place : 0..MaxMessages]
    <3>1. ASSUME NEW i \in 1..Len(wire) PROVE wire[i] \in P
      <4>1. wire[i] \in PacketType
        BY <2>0, ElementOfSeq DEF WireType
      <4>2. wire[i].place \in 0..MaxMessages
        <5>1. wire[i].place <= sent /\ wire[i].place \in Nat
          BY <4>1 DEF LengthsInv, BuiltUnlessCut, PacketType
        <5> QED BY <2>0, <5>1, MessagesAssumption DEF FrameInv, WireType
      <4>3. wire[i].header \in Seq(0..255)
        BY <2>1, <4>1 DEF PacketType
      <4>4. wire[i].body \in Nat
        BY <4>1 DEF PacketType
      <4>5. wire[i] = [header |-> wire[i].header, body |-> wire[i].body, place |-> wire[i].place]
        BY <4>1 DEF PacketType
      <4> QED BY <4>2, <4>3, <4>4, <4>5
    <3>2. wire \in Seq(PacketType)
      BY <2>0 DEF WireType
    <3> HIDE DEF P
    <3>3. wire \in Seq(P)
      BY <3>1, <3>2
    <3> QED BY <3>3 DEF P
  <2>3. stats \in [messages_published : Nat, connection_attempts : 0..1, successful_connections : 0..1]
    BY <2>0 DEF WireType, StatsType, FrameInv, ThreadsInv
  <2>4. main \in {"connect", "connect_send", "connect_wait", "start_async", "start_worker", "running",
                  "join_worker", "stop_async", "join_async", "destroy", "destroy_join", "stopped"}
    BY DEF FrameInv, ThreadsInv, Phases
  <2>5. /\ worker \in {"none", "running", "ended"} /\ async \in {"none", "running", "ended"}
        /\ running_ \in BOOLEAN /\ async_running_ \in BOOLEAN
        /\ open \in BOOLEAN
        /\ packet_id \in 0..IdModulus - 1
    BY DEF FrameInv, ThreadsInv
  <2>6. connected_ \in BOOLEAN /\ failed \in BOOLEAN /\ sent \in 0..MaxMessages
    BY <2>0, MessagesAssumption DEF WireType, FrameInv
  <2>8. cut \subseteq 0..MaxMessages
    <3> SUFFICES ASSUME NEW other \in cut PROVE other \in 0..MaxMessages
      OBVIOUS
    <3>1. other \in Nat /\ other <= sent
      BY <2>0 DEF LengthsInv, WireType
    <3> QED BY <2>6, <3>1, MessagesAssumption
  <2>9. broker.received \in Seq(1..MaxMessages)
    <3>1. broker.received \in Seq(Nat)
      BY <2>0 DEF WireType, BrokerType
    <3>2. stats.messages_published \in Nat /\ stats.messages_published <= MaxMessages
      BY <2>0, MessagesAssumption DEF ConnectionInv, Counted, FrameInv, WireType, StatsType
    <3>3. ASSUME NEW i \in 1..Len(broker.received) PROVE broker.received[i] \in 1..MaxMessages
      <4>1. broker.received[i] \in i..stats.messages_published
        BY DEF OrderInv, Received
      <4> QED BY <3>2, <4>1, MessagesAssumption
    <3> DEFINE Places == 1..MaxMessages
               got == broker.received
    <3>4. got \in Seq(Nat) /\ \A i \in 1..Len(got) : got[i] \in Places
      BY <3>1, <3>3
    <3> HIDE DEF Places, got
    <3>5. got \in Seq(Places)
      BY <3>4
    <3> QED BY <3>5 DEF Places, got
  <2>7. broker \in [session : {"none", "accepted", "session", "adrift", "closed"}, lenient : BOOLEAN,
                    answer : {"none", "accepted", "refused"},
                    received : Seq(1..MaxMessages), garbled : BOOLEAN]
    BY <2>0, <2>9 DEF WireType, BrokerType
  <2> QED BY <2>2, <2>3, <2>4, <2>5, <2>6, <2>7, <2>8, Zenon DEF TypeOK
<1>2. Init => FrameInv
  BY FrameStart
<1>3. ConnectionInv /\ FrameInv /\ [Next]_vars => FrameInv'
  BY FrameStep
<1> QED BY <1>1, <1>2, <1>3, LengthsInvariant, OrderInvariant, PTL DEF Spec

-----------------------------------------------------------------------------
(* The end *)

(* The socket is open while connect waits, while the client is connected   *)
(* and from an error on, and no thread is left to publish once main stops  *)
(* the publisher.                                                          *)
StopInv ==
    /\ Connecting \/ main = "start_async" => ~failed /\ async = "none"
    /\ Connecting \/ main \in {"start_async", "start_worker"} => worker = "none"
    /\ Connecting => ~connected_
    /\ open <=> main \in {"connect_send", "connect_wait"} \/ connected_ \/ failed
    /\ main \in {"stop_async", "join_async", "destroy", "destroy_join", "stopped"} => worker = "ended"
    /\ main \in {"destroy", "destroy_join", "stopped"} => ~connected_
    /\ main = "stopped" => async # "running"

LEMMA StopStart == Init => StopInv
BY DEF Init, StopInv, Connecting

LEMMA StopStep == ASSUME ConnectionInv, StopInv, [Next]_vars PROVE StopInv'
<1>0. /\ failed => ~connected_
      /\ Connecting => ~connected_
      /\ connected_ \in BOOLEAN /\ failed \in BOOLEAN
  BY DEF ConnectionInv, WireType, Counted, Handshake
<1> USE DEF StopInv, Connecting
<1>1. CASE Open
  BY <1>0, <1>1 DEF Open, GiveUp, history
<1>2. CASE SendConnect
  BY <1>0, <1>2 DEF SendConnect, GiveUp
<1>3. CASE Answered
  BY <1>0, <1>3 DEF Answered, history
<1>4. CASE Unanswered
  BY <1>0, <1>4 DEF Unanswered, GiveUp, history
<1>5. CASE Turns
  <2>1. CASE StartAsync
    BY <1>0, <2>1 DEF StartAsync, clientVars, history
  <2>2. CASE StartWorker
    BY <1>0, <2>2 DEF StartWorker, clientVars, history
  <2>3. CASE Stop
    BY <1>0, <2>3 DEF Stop, clientVars, history
  <2>4. CASE JoinWorker
    BY <1>0, <2>4 DEF JoinWorker, clientVars, history
  <2>5. CASE StopAsync
    BY <1>0, <2>5 DEF StopAsync, clientVars, history
  <2>6. CASE Disconnect
    BY <1>0, <2>6 DEF Disconnect, history
  <2>7. CASE WorkerEnd
    BY <1>0, <2>7 DEF WorkerEnd, clientVars, history
  <2>8. CASE AsyncEnd
    BY <1>0, <2>8 DEF AsyncEnd, clientVars, history
  <2> QED BY <1>5, <2>1, <2>2, <2>3, <2>4, <2>5, <2>6, <2>7, <2>8 DEF Turns
<1>6. CASE Publish
  <2>1. /\ worker = "running" /\ connected_
        /\ UNCHANGED <<main, worker, async, open>>
        /\ UNCHANGED <<connected_, failed>> \/ (connected_' = FALSE /\ failed' = TRUE)
    BY <1>6 DEF Publish, threadVars
  <2> QED BY <1>0, <2>1
<1>7. CASE Broker \/ UNCHANGED vars
  <2>1. UNCHANGED <<main, worker, async, open, connected_, failed>>
    BY <1>7 DEF Broker, ReadConnect, Refuse, ReadPublish, ReadCut, ReadAdrift, Drop, vars, threadVars, clientVars, history
  <2> QED BY <2>1
<1> QED BY <1>1, <1>2, <1>3, <1>4, <1>5, <1>6, <1>7, StepsOf

(* When all is destroyed, both threads have ended or never began, the      *)
(* client is not connected, and its socket is closed unless a publication  *)
(* failed: then disconnect finds ~connected_ and closes nothing, the leak  *)
(* StartAndStopComplete allows (disconnect, mqtt_client.cpp:158-166).      *)
StoppedClean ==
    main = "stopped" =>
        /\ worker = "ended" /\ async # "running"
        /\ ~connected_
        /\ open <=> failed

(* The state in which stop leaves the client, whenever it gets there: the  *)
(* safety half of StartAndStopComplete (AlarmMQTT::stop,                   *)
(* alarm_mqtt.cpp:60-72, ~MqttClient, mqtt_client.cpp:42-46).              *)
THEOREM StoppedCleanTheorem == Spec => []StoppedClean
<1>1. StopInv => StoppedClean
  BY DEF StopInv, StoppedClean, Connecting
<1>2. ConnectionInv /\ StopInv /\ [Next]_vars => StopInv'
  BY StopStep
<1> QED BY <1>1, <1>2, StopStart, LengthsInvariant, PTL DEF Spec

=============================================================================

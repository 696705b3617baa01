--------------------------- MODULE SensorPipeline ---------------------------
(***************************************************************************)
(* The sensor path of seismograph_backend: the UDP receiver thread pushes  *)
(* readings on sensor_queue, and THREE threads pop it -- the simulator     *)
(* worker, the alarm worker and the main loop that feeds ClickHouse.  The  *)
(* simulator pushes its result on simulation_queue, which the alarm worker *)
(* pops after each reading it gets.  main starts the modules one by one    *)
(* and, after a signal or a failed start, stops and joins them.            *)
(*                                                                         *)
(* A reading is known by its arrival number, a simulation result by the    *)
(* reading it was computed from.  What the alarm does with a reading is    *)
(* module AlarmWorker's; what ClickHouseClient does with a row is module   *)
(* ClickHouseClient's; the sensitivity path is module SensitivityService.  *)
(***************************************************************************)
EXTENDS MessageQueue, FiniteSets

CONSTANTS BatchSize,  (* batch_size_ of ClickHouseClient, 1000           *)
          MaxPackets, (* bound: the datagrams that arrive in a behaviour *)
          SocketsReady (* a socket can be made before any module has     *)
                       (* called WSAStartup: not so on WinSock           *)

ASSUME BatchSizeAssumption == BatchSize \in Nat \ {0}
ASSUME MaxPacketsAssumption == MaxPackets \in Nat
ASSUME SocketsReadyAssumption == SocketsReady \in BOOLEAN

VARIABLES
    g_running,        \* the global main's loop tests
    connected,        \* ClickHouseClient::is_connected()
    running,          \* running_ of each module
    udp, sim, alarm,  \* where each module's thread is
    main,             \* where the main thread is
    failed,           \* the HTTP server could not be started
    stopped,          \* how many of the modules main has stopped
    arrived,          \* datagrams received so far
    stats,            \* UDPReceiver::Stats
    sensorQueue, simulationQueue,
    hand,             \* the reading each consumer holds, NoMsg if none
    handSim,          \* the result the alarm worker judges with
    processed,        \* SeismicSimulator's stats_.processed_messages
    simulated,        \* readings the simulator has finished
    judged,           \* <<reading, result>> pairs the alarm has judged
    buffered,         \* readings handed to ClickHouseClient
    discarded         \* readings main popped while not connected

mainVars == <<g_running, connected, running, main, failed, stopped>>
udpVars == <<arrived, stats, udp>>
simVars == <<sim, processed, simulated>>
alarmVars == <<alarm, handSim, judged>>
storeVars == <<buffered, discarded>>
queueVars == <<sensorQueue, simulationQueue>>
vars == <<mainVars, udpVars, simVars, alarmVars, storeVars, queueVars, hand>>

Modules == {"udp", "sim", "alarm"}
Consumers == {"main", "sim", "alarm"}
Msgs == 1..MaxPackets
NoMsg == 0

Thread(m) == CASE m = "udp" -> udp [] m = "sim" -> sim [] m = "alarm" -> alarm

(* A module whose thread has ended, or was never created, can be joined. *)
Joinable(m) == Thread(m) \in {"unstarted", "stopped"}

UdpPoints == {"unstarted", "top", "recv", "push", "accept", "full", "reject", "stopped"}
SimPoints == {"unstarted", "top", "pop", "simulate", "stats", "stopped"}
AlarmPoints == {"unstarted", "top", "pop", "pop_sim", "judge", "stopped"}
MainPoints == {"connect", "start_udp", "start_sim", "start_alarm", "start_http",
               "loop", "drain", "check", "insert", "stop", "join", "closing", "exited",
               "hung"}

(* The module main stops i-th: after the loop in the order of the calls,   *)
(* after a failed start of the HTTP server the receiver first and then, in *)
(* the destructors, the others in reverse order of construction.           *)
StopOrder(i) ==
    CASE i = 1 -> "udp"
      [] i = 2 -> IF failed THEN "alarm" ELSE "sim"
      [] i = 3 -> IF failed THEN "sim" ELSE "alarm"

Init ==
    /\ g_running = TRUE
    /\ connected = FALSE
    /\ running = [m \in Modules |-> FALSE]
    /\ udp = "unstarted" /\ sim = "unstarted" /\ alarm = "unstarted"
    /\ main = "connect"
    /\ failed = FALSE
    /\ stopped = 0
    /\ arrived = 0
    /\ stats = [total |-> 0, valid |-> 0, invalid |-> 0, queue_full |-> 0]
    /\ sensorQueue = EmptyQueue
    /\ simulationQueue = EmptyQueue
    /\ hand = [c \in Consumers |-> NoMsg]
    /\ handSim = NoMsg
    /\ processed = 0
    /\ simulated = {}
    /\ judged = {}
    /\ buffered = {}
    /\ discarded = {}

-----------------------------------------------------------------------------
(* UDPReceiver::receive_loop *)

UdpTop ==
    /\ udp = "top"
    /\ udp' = IF running["udp"] THEN "recv" ELSE "stopped"
    /\ UNCHANGED <<mainVars, arrived, stats, simVars, alarmVars, storeVars, queueVars, hand>>

(* recvfrom finds nothing: the socket is non-blocking. *)
UdpIdle ==
    /\ udp = "recv"
    /\ udp' = "top"
    /\ UNCHANGED <<mainVars, arrived, stats, simVars, alarmVars, storeVars, queueVars, hand>>

(* A datagram is parsed, counted in total_packets and validated. *)
UdpRecv ==
    /\ udp = "recv"
    /\ arrived < MaxPackets
    /\ arrived' = arrived + 1
    /\ stats' = [stats EXCEPT !.total = @ + 1]
    /\ udp' \in {"push", "reject"}
    /\ UNCHANGED <<mainVars, simVars, alarmVars, storeVars, queueVars, hand>>

UdpPush ==
    /\ udp = "push"
    /\ sensorQueue' = Push(sensorQueue, arrived)
    /\ udp' = IF HasRoom(sensorQueue) THEN "accept" ELSE "full"
    /\ UNCHANGED <<mainVars, arrived, stats, simVars, alarmVars, storeVars, simulationQueue, hand>>

(* Mutant of UdpCount: a reading the queue refused is not counted invalid. *)
UdpCountFullOnly ==
    /\ \/ /\ udp = "accept"
          /\ stats' = [stats EXCEPT !.valid = @ + 1]
       \/ /\ udp = "full"
          /\ stats' = [stats EXCEPT !.queue_full = @ + 1]
       \/ /\ udp = "reject"
          /\ stats' = [stats EXCEPT !.invalid = @ + 1]
    /\ udp' = "top"
    /\ UNCHANGED <<mainVars, arrived, simVars, alarmVars, storeVars, queueVars, hand>>

(* The second lock section on stats_mutex_, after the outcome is known. *)
UdpCount ==
    /\ \/ /\ udp = "accept"
          /\ stats' = [stats EXCEPT !.valid = @ + 1]
       \/ /\ udp = "full"
          /\ stats' = [stats EXCEPT !.queue_full = @ + 1, !.invalid = @ + 1]
       \/ /\ udp = "reject"
          /\ stats' = [stats EXCEPT !.invalid = @ + 1]
    /\ udp' = "top"
    /\ UNCHANGED <<mainVars, arrived, simVars, alarmVars, storeVars, queueVars, hand>>

UdpThread == UdpTop \/ UdpIdle \/ UdpRecv \/ UdpPush \/ UdpCount

-----------------------------------------------------------------------------
(* SeismicSimulator::worker_loop and process_sensor_message *)

SimTop ==
    /\ sim = "top"
    /\ sim' = IF running["sim"] THEN "pop" ELSE "stopped"
    /\ UNCHANGED <<mainVars, udpVars, processed, simulated, alarmVars, storeVars, queueVars, hand>>

(* Mutant of SimPop: the simulator reads the front and leaves it queued. *)
SimPopPeeks ==
    /\ sim = "pop"
    /\ ~IsEmpty(sensorQueue)
    /\ hand' = [hand EXCEPT !["sim"] = Front(sensorQueue)]
    /\ sim' = "simulate"
    /\ UNCHANGED <<mainVars, udpVars, processed, simulated, alarmVars, storeVars, queueVars>>

SimPop ==
    /\ sim = "pop"
    /\ \/ /\ ~IsEmpty(sensorQueue)
          /\ hand' = [hand EXCEPT !["sim"] = Front(sensorQueue)]
          /\ sensorQueue' = Pop(sensorQueue)
          /\ sim' = "simulate"
       \/ /\ IsEmpty(sensorQueue)
          /\ sim' = "top"
          /\ UNCHANGED <<hand, sensorQueue>>
    /\ UNCHANGED <<mainVars, udpVars, processed, simulated, alarmVars, storeVars, simulationQueue>>

(* The result of push is ignored: on a full queue only the queue counts it. *)
SimPush ==
    /\ sim = "simulate"
    /\ simulationQueue' = Push(simulationQueue, hand["sim"])
    /\ sim' = "stats"
    /\ UNCHANGED <<mainVars, udpVars, processed, simulated, alarmVars, storeVars, sensorQueue, hand>>

SimStats ==
    /\ sim = "stats"
    /\ processed' = processed + 1
    /\ simulated' = simulated \cup {hand["sim"]}
    /\ hand' = [hand EXCEPT !["sim"] = NoMsg]
    /\ sim' = "top"
    /\ UNCHANGED <<mainVars, udpVars, alarmVars, storeVars, queueVars>>

SimThread == SimTop \/ SimPop \/ SimPush \/ SimStats

-----------------------------------------------------------------------------
(* AlarmMQTT::worker_loop, as far as the two queues are concerned *)

AlarmTop ==
    /\ alarm = "top"
    /\ alarm' = IF running["alarm"] THEN "pop" ELSE "stopped"
    /\ UNCHANGED <<mainVars, udpVars, simVars, handSim, judged, storeVars, queueVars, hand>>

AlarmPop ==
    /\ alarm = "pop"
    /\ \/ /\ ~IsEmpty(sensorQueue)
          /\ hand' = [hand EXCEPT !["alarm"] = Front(sensorQueue)]
          /\ sensorQueue' = Pop(sensorQueue)
          /\ alarm' = "pop_sim"
       \/ /\ IsEmpty(sensorQueue)
          /\ alarm' = "top"
          /\ UNCHANGED <<hand, sensorQueue>>
    /\ UNCHANGED <<mainVars, udpVars, simVars, handSim, judged, storeVars, simulationQueue>>

(* Mutant of AlarmPopSim: the result judged with stays in the queue. *)
AlarmPeekSim ==
    /\ alarm = "pop_sim"
    /\ handSim' = IF IsEmpty(simulationQueue) THEN NoMsg ELSE Front(simulationQueue)
    /\ alarm' = "judge"
    /\ UNCHANGED <<mainVars, udpVars, simVars, judged, storeVars, queueVars, hand>>

(* The oldest result, whichever reading it is for; on an empty queue the   *)
(* worker simulates the reading in its hand itself (handSim = NoMsg).      *)
AlarmPopSim ==
    /\ alarm = "pop_sim"
    /\ \/ /\ ~IsEmpty(simulationQueue)
          /\ handSim' = Front(simulationQueue)
          /\ simulationQueue' = Pop(simulationQueue)
       \/ /\ IsEmpty(simulationQueue)
          /\ handSim' = NoMsg
          /\ UNCHANGED simulationQueue
    /\ alarm' = "judge"
    /\ UNCHANGED <<mainVars, udpVars, simVars, judged, storeVars, sensorQueue, hand>>

AlarmJudge ==
    /\ alarm = "judge"
    /\ judged' = judged \cup {<<hand["alarm"], handSim>>}
    /\ hand' = [hand EXCEPT !["alarm"] = NoMsg]
    /\ handSim' = NoMsg
    /\ alarm' = "top"
    /\ UNCHANGED <<mainVars, udpVars, simVars, storeVars, queueVars>>

AlarmThread == AlarmTop \/ AlarmPop \/ AlarmPopSim \/ AlarmJudge

-----------------------------------------------------------------------------
(* main *)

(* ClickHouse is asked for a connection once, before the first constructor *)
(* that calls WSAStartup has run; main goes on without one.                *)
MainConnect ==
    /\ main = "connect"
    /\ connected' \in BOOLEAN
    /\ connected' => SocketsReady
    /\ main' = "start_udp"
    /\ UNCHANGED <<g_running, running, failed, stopped, udpVars, simVars, alarmVars, storeVars, queueVars, hand>>

(* A failed bind makes main return: nothing is running yet. *)
MainStartUdp ==
    /\ main = "start_udp"
    /\ \/ /\ running' = [running EXCEPT !["udp"] = TRUE]
          /\ udp' = "top"
          /\ main' = "start_sim"
       \/ /\ main' = "closing"
          /\ UNCHANGED <<running, udp>>
    /\ UNCHANGED <<g_running, connected, failed, stopped, arrived, stats, simVars, alarmVars, storeVars,
                   queueVars, hand>>

MainStartSim ==
    /\ main = "start_sim"
    /\ running' = [running EXCEPT !["sim"] = TRUE]
    /\ sim' = "top"
    /\ main' = "start_alarm"
    /\ UNCHANGED <<g_running, connected, failed, stopped, udpVars, processed, simulated, alarmVars,
                   storeVars, queueVars, hand>>

MainStartAlarm ==
    /\ main = "start_alarm"
    /\ running' = [running EXCEPT !["alarm"] = TRUE]
    /\ alarm' = "top"
    /\ main' = "start_http"
    /\ UNCHANGED <<g_running, connected, failed, stopped, udpVars, simVars, handSim, judged, storeVars,
                   queueVars, hand>>

(* When the HTTP server cannot start, main returns 1. *)
MainStartHttp ==
    /\ main = "start_http"
    /\ failed' \in BOOLEAN
    /\ main' = IF failed' THEN "stop" ELSE "loop"
    /\ UNCHANGED <<g_running, connected, running, stopped, udpVars, simVars, alarmVars, storeVars,
                   queueVars, hand>>

MainLoop ==
    /\ main = "loop"
    /\ main' = IF g_running THEN "drain" ELSE "stop"
    /\ UNCHANGED <<g_running, connected, running, failed, stopped, udpVars, simVars, alarmVars, storeVars,
                   queueVars, hand>>

(* Mutant of MainPop: main takes the newest reading, not the oldest. *)
MainPopNewest ==
    /\ main = "drain"
    /\ \/ /\ ~IsEmpty(sensorQueue)
          /\ hand' = [hand EXCEPT !["main"] = sensorQueue.items[Len(sensorQueue.items)]]
          /\ sensorQueue' = [sensorQueue EXCEPT !.items = SubSeq(@, 1, Len(@) - 1)]
          /\ main' = "check"
       \/ /\ IsEmpty(sensorQueue)
          /\ main' = "loop"
          /\ UNCHANGED <<hand, sensorQueue>>
    /\ UNCHANGED <<g_running, connected, running, failed, stopped, udpVars, simVars, alarmVars, storeVars,
                   simulationQueue>>

MainPop ==
    /\ main = "drain"
    /\ \/ /\ ~IsEmpty(sensorQueue)
          /\ hand' = [hand EXCEPT !["main"] = Front(sensorQueue)]
          /\ sensorQueue' = Pop(sensorQueue)
          /\ main' = "check"
       \/ /\ IsEmpty(sensorQueue)
          /\ main' = "loop"
          /\ UNCHANGED <<hand, sensorQueue>>
    /\ UNCHANGED <<g_running, connected, running, failed, stopped, udpVars, simVars, alarmVars, storeVars,
                   simulationQueue>>

(* A reading popped without a connection goes nowhere. *)
MainCheck ==
    /\ main = "check"
    /\ \/ /\ connected
          /\ main' = "insert"
          /\ UNCHANGED <<discarded, hand>>
       \/ /\ ~connected
          /\ discarded' = discarded \cup {hand["main"]}
          /\ hand' = [hand EXCEPT !["main"] = NoMsg]
          /\ main' = "drain"
    /\ UNCHANGED <<g_running, connected, running, failed, stopped, udpVars, simVars, alarmVars, buffered,
                   queueVars>>

(* Sending rows locks mutex_ of the client a second time, in the thread    *)
(* that holds it: with GCC and MinGW the thread waits for ever; next is    *)
(* where it goes if the second lock is repaired.  With MSVC, where lock    *)
(* throws, no row gets here: connect is called before WSAStartup.          *)
AfterSending(next) == {next, "hung"}

(* insert_sensor_data: the row that completes a batch has it sent.         *)
MainInsert ==
    /\ main = "insert"
    /\ buffered' = buffered \cup {hand["main"]}
    /\ hand' = [hand EXCEPT !["main"] = NoMsg]
    /\ main' \in IF Cardinality(buffered') >= BatchSize THEN AfterSending("drain") ELSE {"drain"}
    /\ UNCHANGED <<g_running, connected, running, failed, stopped, udpVars, simVars, alarmVars, discarded,
                   queueVars>>

(* Mutant of MainStop: running_ is not cleared before the join. *)
MainStopStillRunning ==
    /\ main = "stop"
    /\ main' = IF stopped < 3 THEN "join" ELSE "closing"
    /\ UNCHANGED <<g_running, connected, running, failed, stopped, udpVars, simVars, alarmVars, storeVars,
                   queueVars, hand>>

(* stop() of the next module: running_ is cleared, then its thread joined. *)
MainStop ==
    /\ main = "stop"
    /\ \/ /\ stopped < 3
          /\ running' = [running EXCEPT ![StopOrder(stopped + 1)] = FALSE]
          /\ main' = "join"
       \/ /\ stopped = 3
          /\ main' = "closing"
          /\ UNCHANGED running
    /\ UNCHANGED <<g_running, connected, failed, stopped, udpVars, simVars, alarmVars, storeVars,
                   queueVars, hand>>

(* Mutant of MainJoin: the thread is detached, not waited for. *)
MainDetach ==
    /\ main = "join"
    /\ stopped' = stopped + 1
    /\ main' = "stop"
    /\ UNCHANGED <<g_running, connected, running, failed, udpVars, simVars, alarmVars, storeVars,
                   queueVars, hand>>

MainJoin ==
    /\ main = "join"
    /\ Joinable(StopOrder(stopped + 1))
    /\ stopped' = stopped + 1
    /\ main' = "stop"
    /\ UNCHANGED <<g_running, connected, running, failed, udpVars, simVars, alarmVars, storeVars,
                   queueVars, hand>>

(* The ClickHouse client is flushed, by main or by its own destructor, and *)
(* disconnected, and main returns; a flush with rows in the buffer sends.  *)
MainClose ==
    /\ main = "closing"
    /\ connected' = FALSE
    /\ main' \in IF buffered # {} THEN AfterSending("exited") ELSE {"exited"}
    /\ UNCHANGED <<g_running, running, failed, stopped, udpVars, simVars, alarmVars, storeVars, queueVars,
                   hand>>

MainThread ==
    \/ MainConnect \/ MainStartUdp \/ MainStartSim \/ MainStartAlarm \/ MainStartHttp
    \/ MainLoop \/ MainPop \/ MainCheck \/ MainInsert
    \/ MainStop \/ MainJoin \/ MainClose

(* Nothing is left for main to do: the process is gone, or waits forever. *)
Ended ==
    /\ main \in {"exited", "hung"}
    /\ UNCHANGED vars

(* SIGINT or SIGTERM, at any moment. *)
Signal ==
    /\ main # "exited"
    /\ g_running
    /\ g_running' = FALSE
    /\ UNCHANGED <<connected, running, main, failed, stopped, udpVars, simVars, alarmVars, storeVars,
                   queueVars, hand>>

(* Some query of another thread finds the connection broken. *)
ClickHouseLost ==
    /\ connected
    /\ connected' = FALSE
    /\ UNCHANGED <<g_running, running, main, failed, stopped, udpVars, simVars, alarmVars, storeVars,
                   queueVars, hand>>

Next ==
    \/ UdpThread \/ SimThread \/ AlarmThread \/ MainThread
    \/ Signal \/ ClickHouseLost \/ Ended

Spec == Init /\ [][Next]_vars

(* Every thread is an operating system thread the scheduler keeps running. *)
FairSpec ==
    /\ Spec
    /\ WF_vars(UdpThread) /\ WF_vars(SimThread) /\ WF_vars(AlarmThread) /\ WF_vars(MainThread)

-----------------------------------------------------------------------------
(* Properties *)

TypeOK ==
    /\ g_running \in BOOLEAN
    /\ connected \in BOOLEAN
    /\ running \in [Modules -> BOOLEAN]
    /\ udp \in UdpPoints /\ sim \in SimPoints /\ alarm \in AlarmPoints
    /\ main \in MainPoints
    /\ failed \in BOOLEAN
    /\ stopped \in 0..3
    /\ arrived \in 0..MaxPackets
    /\ stats \in [total : Nat, valid : Nat, invalid : Nat, queue_full : Nat]
    /\ IsQueue(sensorQueue, Msgs)
    /\ IsQueue(simulationQueue, Msgs)
    /\ hand \in [Consumers -> Msgs \cup {NoMsg}]
    /\ handSim \in Msgs \cup {NoMsg}
    /\ processed \in Nat
    /\ simulated \subseteq Msgs
    /\ judged \subseteq Msgs \X (Msgs \cup {NoMsg})
    /\ buffered \subseteq Msgs
    /\ discarded \subseteq Msgs

Held(c) == {hand[c]} \ {NoMsg}

Finished(c) ==
    CASE c = "main"  -> buffered \cup discarded
      [] c = "sim"   -> simulated
      [] c = "alarm" -> {j[1] : j \in judged}

(* Every reading that consumer c has popped. *)
Taken(c) == Held(c) \cup Finished(c)

Queued == {sensorQueue.items[i] : i \in DOMAIN sensorQueue.items}

(* The three consumers compete: a reading one of them popped is popped by  *)
(* no other, is not in the queue any more, and is dealt with once.         *)
TakenOnce ==
    /\ \A c, d \in Consumers : c # d => Taken(c) \cap Taken(d) = {}
    /\ \A c \in Consumers : Taken(c) \cap Queued = {} /\ Held(c) \cap Finished(c) = {}
    /\ buffered \cap discarded = {}

(* Between the two lock sections of the receiver one packet is counted as  *)
(* received and not yet as valid or invalid.                               *)
InFlight == IF udp \in {"push", "accept", "full", "reject"} THEN 1 ELSE 0

Refused == IF udp = "full" THEN 1 ELSE 0

(* The receiver's counters, updated in two lock sections around the push,  *)
(* agree with each other and with the queue's own drop counter up to the   *)
(* one packet in between.                                                  *)
Accounting ==
    /\ stats.total = arrived
    /\ stats.total = stats.valid + stats.invalid + InFlight
    /\ sensorQueue.dropped = stats.queue_full + Refused
    /\ stats.queue_full <= stats.invalid

(* The simulation result the alarm judges a reading with never comes from  *)
(* that reading: a reading the alarm pops was not seen by the simulator.   *)
NeverOwnSimulation ==
    \A j \in judged : j[1] # j[2]

(* One simulation result is used for one reading at most. *)
SimulationUsedOnce ==
    \A j, k \in judged : j # k /\ j[2] # NoMsg => j[2] # k[2]

(* A module's threads are joined before main returns, on the ordinary path *)
(* and when start-up fails, so no popped reading is abandoned half-way.    *)
NothingInHandAtExit ==
    main = "exited" =>
        /\ \A m \in Modules : Joinable(m) /\ ~running[m]
        /\ \A c \in Consumers : Held(c) = {}

Stopping == main \in {"stop", "join", "closing", "exited", "hung"}

(* After SIGINT or SIGTERM, whichever step of start-up or of the loop it   *)
(* interrupts, and after a failed start of the receiver or of the HTTP     *)
(* server, the threads are stopped and joined and the process exits,       *)
(* unless main hangs in the ClickHouse client with rows to send.           *)
ShutdownCompletes ==
    (~g_running \/ Stopping) ~> (main = "exited" \/ (main = "hung" /\ buffered # {}))

(* An accepted reading does not stay in the queue of a running service. *)
AcceptedIsTaken ==
    \A m \in Msgs : m \in Queued ~> (m \notin Queued \/ Stopping)

(* sensor_queue with its three consumers is a queue of competing consumers. *)
Delivery == INSTANCE CompetingConsumers
    WITH Messages <- Msgs, waiting <- sensorQueue.items, taken <- [c \in Consumers |-> Taken(c)]

DeliverySpec == Delivery!Spec

-----------------------------------------------------------------------------
(* What the repository says of the pipeline, and the code does not do *)

(* README.md:67-72 has the Seismic Simulator consume the sensor queue, the *)
(* Alarm MQTT consume it too and ClickHouse store the raw data: an         *)
(* accepted reading of a running service then reaches all three, the last  *)
(* as long as it is connected.                                             *)
EveryReadingReachesAll ==
    \A m \in Msgs :
        m \in Queued ~> \/ m \in Finished("sim") \cap Finished("alarm") /\ (m \in buffered \/ ~connected)
                       \/ Stopping

(* main.cpp:213 and start_backend.bat:28: Ctrl+C stops the service.        *)
CtrlCStops == ~g_running ~> main = "exited"
=============================================================================

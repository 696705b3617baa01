------------------------ MODULE SensorPipelineProofs ------------------------
(***************************************************************************)
(* The safety properties of SensorPipeline, proved for every capacity,     *)
(* every number of packets and every batch size.                           *)
(***************************************************************************)
EXTENDS SensorPipeline, TLAPS

(* Where main goes after sending rows is expanded in every proof below.    *)
USE DEF AfterSending

(* A push keeps a queue within its capacity and its items of their type.   *)
LEMMA PushType ==
    ASSUME NEW S, NEW q, IsQueue(q, S), NEW x \in S
    PROVE  IsQueue(Push(q, x), S)
<1>1. CASE HasRoom(q)
  <2>1. Push(q, x) = [q EXCEPT !.items = Append(@, x)]
    BY <1>1 DEF Push
  <2>2. Append(q.items, x) \in Seq(S) /\ Len(Append(q.items, x)) <= Capacity
    BY <1>1, CapacityAssumption DEF IsQueue, HasRoom
  <2> QED BY <2>1, <2>2 DEF IsQueue
<1>2. CASE ~HasRoom(q)
  BY <1>2 DEF IsQueue, Push
<1> QED BY <1>1, <1>2

(* So does a pop of a queue that is not empty, which returns an item.      *)
LEMMA PopType ==
    ASSUME NEW S, NEW q, IsQueue(q, S), ~IsEmpty(q)
    PROVE  IsQueue(Pop(q), S) /\ Front(q) \in S
<1>1. Tail(q.items) \in Seq(S) /\ Len(Tail(q.items)) <= Capacity /\ Head(q.items) \in S
  BY CapacityAssumption DEF IsQueue, IsEmpty
<1> QED BY <1>1 DEF IsQueue, Pop, Front

(* The queue main creates is a queue of whatever it is to carry. *)
LEMMA EmptyType == ASSUME NEW S PROVE IsQueue(EmptyQueue, S)
BY CapacityAssumption DEF IsQueue, EmptyQueue

-----------------------------------------------------------------------------
(* The inductive invariant, in parts *)

(* A consumer holds a reading exactly at the points between its pop and    *)
(* the end of its work; the receiver has a packet in hand after recvfrom.  *)
HandInv ==
    /\ hand["sim"] # NoMsg <=> sim \in {"simulate", "stats"}
    /\ hand["alarm"] # NoMsg <=> alarm \in {"pop_sim", "judge"}
    /\ hand["main"] # NoMsg <=> main \in {"check", "insert"}
    /\ udp \in {"push", "accept", "full", "reject"} => arrived # 0

(* What was published is not newer than the last arrival, and older than a *)
(* packet that is about to be pushed.                                      *)
Older(x) == x < arrived \/ (x = arrived /\ udp # "push")

FreshInv ==
    /\ \A i \in DOMAIN sensorQueue.items : Older(sensorQueue.items[i])
    /\ \A c \in Consumers : \A k \in Taken(c) : Older(k)

(* Readings leave the queue in the order they arrived, each to one         *)
(* consumer, by positions in the queue.                                    *)
QueueOrder ==
    /\ \A i, j \in DOMAIN sensorQueue.items : i < j => sensorQueue.items[i] < sensorQueue.items[j]
    /\ \A c \in Consumers : \A k \in Taken(c) :
          \A i \in DOMAIN sensorQueue.items : k < sensorQueue.items[i]
    /\ \A c, d \in Consumers : c # d => Taken(c) \cap Taken(d) = {}

OnceEach ==
    /\ \A c \in Consumers : Held(c) \cap Finished(c) = {}
    /\ buffered \cap discarded = {}

(* Every simulation result on its way to the alarm, or used by it, is of a *)
(* reading the simulator popped.                                           *)
OriginInv ==
    /\ \A i \in DOMAIN simulationQueue.items : simulationQueue.items[i] \in Taken("sim")
    /\ handSim \in Taken("sim") \cup {NoMsg}
    /\ \A j \in judged : j[2] \in Taken("sim") \cup {NoMsg}

(* Results reach the alarm in the order of their readings: what was used   *)
(* is older than what waits, and that older than what is being pushed.     *)
Used == {j[2] : j \in judged} \cup {handSim}

UseOrder ==
    /\ \A i, j \in DOMAIN simulationQueue.items :
          i < j => simulationQueue.items[i] < simulationQueue.items[j]
    /\ \A u \in Used : \A i \in DOMAIN simulationQueue.items : u < simulationQueue.items[i]
    /\ sim = "simulate" =>
          /\ \A u \in Used : u < hand["sim"]
          /\ \A i \in DOMAIN simulationQueue.items : simulationQueue.items[i] < hand["sim"]
    /\ handSim # NoMsg => \A j \in judged : j[2] # handSim
    /\ SimulationUsedOnce

(* What main has stopped stays stopped; what it has not started yet has    *)
(* never run.                                                              *)
Down(m) == Joinable(m) /\ ~running[m]

StopInv ==
    /\ main \in {"connect", "start_udp"} => \A m \in Modules : Down(m)
    /\ main = "start_sim" => Down("sim") /\ Down("alarm")
    /\ main = "start_alarm" => Down("alarm")
    /\ main \in {"stop", "join"} => \A i \in 1..stopped : Down(StopOrder(i))
    /\ main = "join" => stopped < 3 /\ ~running[StopOrder(stopped + 1)]
    /\ main \in {"closing", "exited"} => \A m \in Modules : Down(m)
    /\ main \notin {"stop", "join", "closing", "exited", "hung"} => stopped = 0

IInv ==
    /\ TypeOK /\ HandInv /\ FreshInv /\ QueueOrder /\ OnceEach /\ OriginInv /\ UseOrder
    /\ StopInv /\ Accounting

-----------------------------------------------------------------------------
(* Types and hands *)

(* The types and the queue bounds hold when main starts. *)
LEMMA InitType == Init => TypeOK
<1> SUFFICES ASSUME Init PROVE TypeOK
  OBVIOUS
<1>1. IsQueue(sensorQueue, Msgs) /\ IsQueue(simulationQueue, Msgs)
  BY EmptyType DEF Init
<1>2. arrived \in 0..MaxPackets
  BY MaxPacketsAssumption DEF Init
<1>3. hand \in [Consumers -> Msgs \cup {NoMsg}] /\ running \in [Modules -> BOOLEAN]
  BY DEF Init
<1>4. stats \in [total : Nat, valid : Nat, invalid : Nat, queue_full : Nat]
  BY DEF Init
<1>5. handSim \in Msgs \cup {NoMsg} /\ judged \subseteq Msgs \X (Msgs \cup {NoMsg})
  BY DEF Init
<1>6. simulated \subseteq Msgs /\ buffered \subseteq Msgs /\ discarded \subseteq Msgs
  BY DEF Init
<1>7. g_running \in BOOLEAN /\ connected \in BOOLEAN /\ failed \in BOOLEAN
  BY DEF Init
<1> QED
  BY <1>1, <1>2, <1>3, <1>4, <1>5, <1>6, <1>7
     DEF Init, TypeOK, UdpPoints, SimPoints, AlarmPoints, MainPoints

(* No step of any thread leaves the types or overfills a queue. *)
LEMMA NextType == TypeOK /\ HandInv /\ StopInv /\ [Next]_vars => TypeOK'
<1> SUFFICES ASSUME TypeOK, HandInv, StopInv, [Next]_vars PROVE TypeOK'
  OBVIOUS
<1> USE DEF TypeOK, mainVars, udpVars, simVars, alarmVars, storeVars, queueVars
<1>1. CASE UdpTop BY <1>1 DEF UdpTop, UdpPoints
<1>2. CASE UdpIdle BY <1>2 DEF UdpIdle, UdpPoints
<1>3. CASE UdpRecv BY <1>3, MaxPacketsAssumption DEF UdpRecv, UdpPoints
<1>4. CASE UdpPush
  <2>1. arrived \in Msgs
    BY <1>4, MaxPacketsAssumption DEF UdpPush, HandInv, Msgs
  <2>2. IsQueue(sensorQueue', Msgs)
    BY <1>4, <2>1, PushType DEF UdpPush
  <2> QED BY <1>4, <2>2 DEF UdpPush, UdpPoints
<1>5. CASE UdpCount
  <2>1. stats' \in [total : Nat, valid : Nat, invalid : Nat, queue_full : Nat]
    <3>1. CASE stats' = [stats EXCEPT !.valid = @ + 1] BY <3>1
    <3>2. CASE stats' = [stats EXCEPT !.queue_full = @ + 1, !.invalid = @ + 1]
      <4>1. stats' = [total |-> stats.total, valid |-> stats.valid,
                      invalid |-> stats.invalid + 1, queue_full |-> stats.queue_full + 1]
        BY <3>2
      <4> QED BY <4>1
    <3>3. CASE stats' = [stats EXCEPT !.invalid = @ + 1] BY <3>3
    <3> QED BY <1>5, <3>1, <3>2, <3>3 DEF UdpCount
  <2> QED BY <1>5, <2>1 DEF UdpCount, UdpPoints
<1>6. CASE SimTop BY <1>6 DEF SimTop, SimPoints
<1>7. CASE SimPop BY <1>7, PopType DEF SimPop, SimPoints, Consumers
<1>8. CASE SimPush
  <2>1. hand["sim"] \in Msgs
    BY <1>8 DEF SimPush, HandInv, Consumers
  <2>2. IsQueue(simulationQueue', Msgs)
    BY <1>8, <2>1, PushType DEF SimPush
  <2> QED BY <1>8, <2>2 DEF SimPush, SimPoints
<1>9. CASE SimStats
  <2>1. hand["sim"] \in Msgs
    BY <1>9 DEF SimStats, HandInv, Consumers
  <2> QED BY <1>9, <2>1 DEF SimStats, SimPoints, Consumers
<1>10. CASE AlarmTop BY <1>10 DEF AlarmTop, AlarmPoints
<1>11. CASE AlarmPop BY <1>11, PopType DEF AlarmPop, AlarmPoints, Consumers
<1>12. CASE AlarmPopSim BY <1>12, PopType DEF AlarmPopSim, AlarmPoints
<1>13. CASE AlarmJudge
  <2>1. hand["alarm"] \in Msgs
    BY <1>13 DEF AlarmJudge, HandInv, Consumers
  <2> QED BY <1>13, <2>1 DEF AlarmJudge, AlarmPoints, Consumers
<1>14. CASE MainConnect BY <1>14 DEF MainConnect, MainPoints
<1>15. CASE MainStartUdp BY <1>15 DEF MainStartUdp, MainPoints, UdpPoints, Modules
<1>16. CASE MainStartSim BY <1>16 DEF MainStartSim, MainPoints, SimPoints, Modules
<1>17. CASE MainStartAlarm BY <1>17 DEF MainStartAlarm, MainPoints, AlarmPoints, Modules
<1>18. CASE MainStartHttp BY <1>18 DEF MainStartHttp, MainPoints
<1>19. CASE MainLoop BY <1>19 DEF MainLoop, MainPoints
<1>20. CASE MainPop BY <1>20, PopType DEF MainPop, MainPoints, Consumers
<1>21. CASE MainCheck
  <2>1. hand["main"] \in Msgs
    BY <1>21 DEF MainCheck, HandInv, Consumers
  <2> QED BY <1>21, <2>1 DEF MainCheck, MainPoints, Consumers
<1>22. CASE MainInsert
  <2>1. hand["main"] \in Msgs
    BY <1>22 DEF MainInsert, HandInv, Consumers
  <2> QED BY <1>22, <2>1 DEF MainInsert, MainPoints, Consumers
<1>23. CASE MainStop BY <1>23 DEF MainStop, MainPoints
<1>24. CASE MainJoin BY <1>24 DEF MainJoin, StopInv, MainPoints
<1>25. CASE MainClose BY <1>25 DEF MainClose, MainPoints
<1>26. CASE Signal BY <1>26 DEF Signal
<1>27. CASE ClickHouseLost BY <1>27 DEF ClickHouseLost
<1>28. CASE UNCHANGED vars BY <1>28 DEF vars
<1> QED
  BY <1>1, <1>2, <1>3, <1>4, <1>5, <1>6, <1>7, <1>8, <1>9, <1>10, <1>11, <1>12, <1>13, <1>14,
     <1>15, <1>16, <1>17, <1>18, <1>19, <1>20, <1>21, <1>22, <1>23, <1>24, <1>25, <1>26, <1>27,
     <1>28 DEF Next, UdpThread, SimThread, AlarmThread, MainThread, Ended

(* A thread holds a reading exactly between its pop and its last use of it. *)
LEMMA NextHand == TypeOK /\ StopInv /\ HandInv /\ [Next]_vars => HandInv'
<1> SUFFICES ASSUME TypeOK, StopInv, HandInv, [Next]_vars PROVE HandInv'
  OBVIOUS
<1> USE DEF HandInv, mainVars, udpVars, simVars, alarmVars, storeVars, queueVars
<1>0. ~IsEmpty(sensorQueue) => Front(sensorQueue) \in Msgs /\ Front(sensorQueue) # NoMsg
  <2>1. ~IsEmpty(sensorQueue) => Front(sensorQueue) \in Msgs
    BY PopType DEF TypeOK
  <2>2. NoMsg \notin Msgs
    BY MaxPacketsAssumption DEF Msgs, NoMsg
  <2> QED BY <2>1, <2>2
<1>1. CASE UdpThread
  BY <1>1, MaxPacketsAssumption
     DEF UdpThread, UdpTop, UdpIdle, UdpRecv, UdpPush, UdpCount, TypeOK
<1>2. CASE SimThread
  BY <1>2, <1>0 DEF SimThread, SimTop, SimPop, SimPush, SimStats, TypeOK, Consumers
<1>3. CASE AlarmThread
  BY <1>3, <1>0
     DEF AlarmThread, AlarmTop, AlarmPop, AlarmPopSim, AlarmJudge, TypeOK, Consumers
<1>4. CASE MainThread
  <2>1. CASE MainPop \/ MainCheck \/ MainInsert
    BY <2>1, <1>0 DEF MainPop, MainCheck, MainInsert, TypeOK, Consumers
  <2>2. CASE MainConnect \/ MainStartUdp \/ MainStartHttp
    BY <2>2 DEF MainConnect, MainStartUdp, MainStartHttp
  <2>3. CASE MainStartSim
    BY <2>3 DEF MainStartSim, StopInv, Down, Joinable, Thread
  <2>4. CASE MainStartAlarm
    BY <2>4 DEF MainStartAlarm, StopInv, Down, Joinable, Thread
  <2>5. CASE MainLoop \/ MainStop \/ MainJoin \/ MainClose
    BY <2>5 DEF MainLoop, MainStop, MainJoin, MainClose
  <2> QED BY <1>4, <2>1, <2>2, <2>3, <2>4, <2>5 DEF MainThread
<1>5. CASE Signal BY <1>5 DEF Signal
<1>6. CASE ClickHouseLost BY <1>6 DEF ClickHouseLost
<1>7. CASE UNCHANGED vars BY <1>7 DEF vars
<1> QED BY <1>1, <1>2, <1>3, <1>4, <1>5, <1>6, <1>7 DEF Next, Ended

-----------------------------------------------------------------------------
(* Shutdown *)

(* main stops the modules one at a time, and what it joined stays down. *)
LEMMA NextStop == TypeOK /\ StopInv /\ [Next]_vars => StopInv'
<1> SUFFICES ASSUME TypeOK, StopInv, [Next]_vars PROVE StopInv'
  OBVIOUS
<1> USE DEF StopInv, Down, Joinable, Thread, Modules, mainVars, udpVars, simVars, alarmVars,
            storeVars, queueVars, TypeOK
<1>1. CASE UdpThread
  <2>1. udp \notin {"unstarted", "stopped"}
    BY <1>1 DEF UdpThread, UdpTop, UdpIdle, UdpRecv, UdpPush, UdpCount
  <2>2. UNCHANGED <<running, main, failed, stopped, sim, alarm>>
    BY <1>1 DEF UdpThread, UdpTop, UdpIdle, UdpRecv, UdpPush, UdpCount
  <2> QED BY <2>1, <2>2 DEF StopOrder
<1>2. CASE SimThread
  <2>1. sim \notin {"unstarted", "stopped"}
    BY <1>2 DEF SimThread, SimTop, SimPop, SimPush, SimStats
  <2>2. UNCHANGED <<running, main, failed, stopped, udp, alarm>>
    BY <1>2 DEF SimThread, SimTop, SimPop, SimPush, SimStats
  <2> QED BY <2>1, <2>2 DEF StopOrder
<1>3. CASE AlarmThread
  <2>1. alarm \notin {"unstarted", "stopped"}
    BY <1>3 DEF AlarmThread, AlarmTop, AlarmPop, AlarmPopSim, AlarmJudge
  <2>2. UNCHANGED <<running, main, failed, stopped, udp, sim>>
    BY <1>3 DEF AlarmThread, AlarmTop, AlarmPop, AlarmPopSim, AlarmJudge
  <2> QED BY <2>1, <2>2 DEF StopOrder
<1>4. CASE MainThread
  <2>1. CASE MainPop \/ MainCheck \/ MainInsert
    BY <2>1 DEF MainPop, MainCheck, MainInsert
  <2>2. CASE MainConnect \/ MainStartUdp \/ MainStartSim \/ MainStartAlarm
    BY <2>2 DEF MainConnect, MainStartUdp, MainStartSim, MainStartAlarm
  <2>3. CASE MainStartHttp \/ MainLoop
    BY <2>3 DEF MainStartHttp, MainLoop
  <2>4. CASE MainStop
    BY <2>4 DEF MainStop, StopOrder
  <2>5. CASE MainJoin
    BY <2>5 DEF MainJoin, StopOrder
  <2>6. CASE MainClose
    BY <2>6 DEF MainClose
  <2> QED BY <1>4, <2>1, <2>2, <2>3, <2>4, <2>5, <2>6 DEF MainThread
<1>5. CASE Signal BY <1>5 DEF Signal, StopOrder
<1>6. CASE ClickHouseLost BY <1>6 DEF ClickHouseLost, StopOrder
<1>7. CASE UNCHANGED vars BY <1>7 DEF vars, StopOrder
<1> QED BY <1>1, <1>2, <1>3, <1>4, <1>5, <1>6, <1>7 DEF Next, Ended

-----------------------------------------------------------------------------
(* Counters *)

(* The counters of the receiver keep agreeing across its two lock sections. *)
LEMMA NextAccounting == TypeOK /\ StopInv /\ Accounting /\ [Next]_vars => Accounting'
<1> SUFFICES ASSUME TypeOK, StopInv, Accounting, [Next]_vars PROVE Accounting'
  OBVIOUS
<1> USE DEF Accounting, mainVars, udpVars, simVars, alarmVars, storeVars, queueVars
<1>1. /\ arrived \in Nat /\ sensorQueue.dropped \in Nat
      /\ stats.total \in Nat /\ stats.valid \in Nat
      /\ stats.invalid \in Nat /\ stats.queue_full \in Nat
  BY DEF TypeOK, IsQueue
<1>2. CASE UdpTop \/ UdpIdle BY <1>2 DEF UdpTop, UdpIdle, InFlight, Refused
<1>3. CASE UdpRecv
  <2>1. /\ stats'.total = stats.total + 1 /\ stats'.valid = stats.valid
        /\ stats'.invalid = stats.invalid /\ stats'.queue_full = stats.queue_full
    BY <1>3 DEF UdpRecv, TypeOK
  <2>2. InFlight = 0 /\ InFlight' = 1 /\ Refused = 0 /\ Refused' = 0
    BY <1>3 DEF UdpRecv, InFlight, Refused
  <2>3. arrived' = arrived + 1 /\ sensorQueue' = sensorQueue
    BY <1>3 DEF UdpRecv
  <2>5. stats'.total = arrived'
    BY <1>1, <2>1, <2>2, <2>3
  <2>6. stats'.total = stats'.valid + stats'.invalid + InFlight'
    BY <1>1, <2>1, <2>2, <2>3
  <2>7. sensorQueue'.dropped = stats'.queue_full + Refused'
    BY <1>1, <2>1, <2>2, <2>3
  <2>8. stats'.queue_full <= stats'.invalid
    BY <1>1, <2>1, <2>2, <2>3
  <2> QED BY <2>5, <2>6, <2>7, <2>8
<1>4. CASE UdpPush
  <2>1. sensorQueue'.dropped = sensorQueue.dropped + (IF HasRoom(sensorQueue) THEN 0 ELSE 1)
    <3>1. CASE HasRoom(sensorQueue) BY <1>4, <3>1 DEF UdpPush, Push, IsQueue, TypeOK
    <3>2. CASE ~HasRoom(sensorQueue) BY <1>4, <3>2 DEF UdpPush, Push, IsQueue, TypeOK
    <3> QED BY <3>1, <3>2
  <2>2. InFlight = 1 /\ InFlight' = 1 /\ Refused = 0
        /\ Refused' = IF HasRoom(sensorQueue) THEN 0 ELSE 1
    BY <1>4 DEF UdpPush, InFlight, Refused
  <2>3. UNCHANGED <<arrived, stats>>
    BY <1>4 DEF UdpPush
  <2>5. stats'.total = arrived'
    BY <1>1, <2>1, <2>2, <2>3
  <2>6. stats'.total = stats'.valid + stats'.invalid + InFlight'
    BY <1>1, <2>1, <2>2, <2>3
  <2>7. sensorQueue'.dropped = stats'.queue_full + Refused'
    BY <1>1, <2>1, <2>2, <2>3
  <2>8. stats'.queue_full <= stats'.invalid
    BY <1>1, <2>1, <2>2, <2>3
  <2> QED BY <2>5, <2>6, <2>7, <2>8
<1>5. CASE UdpCount
  <2>4. UNCHANGED <<arrived, sensorQueue>>
    BY <1>5 DEF UdpCount
  <2>1. CASE udp = "accept"
    <3>1. /\ stats'.total = stats.total /\ stats'.valid = stats.valid + 1
          /\ stats'.invalid = stats.invalid /\ stats'.queue_full = stats.queue_full
      BY <1>5, <2>1 DEF UdpCount, TypeOK
    <3>2. InFlight = 1 /\ InFlight' = 0 /\ Refused = 0 /\ Refused' = 0
      BY <1>5, <2>1 DEF UdpCount, InFlight, Refused
    <3>5. stats'.total = arrived'
      BY <1>1, <3>1, <3>2, <2>4
    <3>6. stats'.total = stats'.valid + stats'.invalid + InFlight'
      BY <1>1, <3>1, <3>2, <2>4
    <3>7. sensorQueue'.dropped = stats'.queue_full + Refused'
      BY <1>1, <3>1, <3>2, <2>4
    <3>8. stats'.queue_full <= stats'.invalid
      BY <1>1, <3>1, <3>2, <2>4
    <3> QED BY <3>5, <3>6, <3>7, <3>8
  <2>2. CASE udp = "full"
    <3>1. /\ stats'.total = stats.total /\ stats'.valid = stats.valid
          /\ stats'.invalid = stats.invalid + 1 /\ stats'.queue_full = stats.queue_full + 1
      <4>1. stats' = [total |-> stats.total, valid |-> stats.valid,
                      invalid |-> stats.invalid + 1, queue_full |-> stats.queue_full + 1]
        BY <1>5, <2>2 DEF UdpCount, TypeOK
      <4> QED BY <4>1
    <3>2. InFlight = 1 /\ InFlight' = 0 /\ Refused = 1 /\ Refused' = 0
      BY <1>5, <2>2 DEF UdpCount, InFlight, Refused
    <3>5. stats'.total = arrived'
      BY <1>1, <3>1, <3>2, <2>4
    <3>6. stats'.total = stats'.valid + stats'.invalid + InFlight'
      BY <1>1, <3>1, <3>2, <2>4
    <3>7. sensorQueue'.dropped = stats'.queue_full + Refused'
      BY <1>1, <3>1, <3>2, <2>4
    <3>8. stats'.queue_full <= stats'.invalid
      BY <1>1, <3>1, <3>2, <2>4
    <3> QED BY <3>5, <3>6, <3>7, <3>8
  <2>3. CASE udp = "reject"
    <3>1. /\ stats'.total = stats.total /\ stats'.valid = stats.valid
          /\ stats'.invalid = stats.invalid + 1 /\ stats'.queue_full = stats.queue_full
      BY <1>5, <2>3 DEF UdpCount, TypeOK
    <3>2. InFlight = 1 /\ InFlight' = 0 /\ Refused = 0 /\ Refused' = 0
      BY <1>5, <2>3 DEF UdpCount, InFlight, Refused
    <3>5. stats'.total = arrived'
      BY <1>1, <3>1, <3>2, <2>4
    <3>6. stats'.total = stats'.valid + stats'.invalid + InFlight'
      BY <1>1, <3>1, <3>2, <2>4
    <3>7. sensorQueue'.dropped = stats'.queue_full + Refused'
      BY <1>1, <3>1, <3>2, <2>4
    <3>8. stats'.queue_full <= stats'.invalid
      BY <1>1, <3>1, <3>2, <2>4
    <3> QED BY <3>5, <3>6, <3>7, <3>8
  <2> QED BY <1>5, <2>1, <2>2, <2>3 DEF UdpCount
<1>6. CASE \/ UNCHANGED <<arrived, stats, udp, sensorQueue>>
           \/ UNCHANGED <<arrived, stats, udp>> /\ sensorQueue' = Pop(sensorQueue)
  BY <1>6 DEF Pop, IsQueue, TypeOK, InFlight, Refused
<1>7. CASE SimThread
  BY <1>6, <1>7 DEF SimThread, SimTop, SimPop, SimPush, SimStats
<1>8. CASE AlarmThread
  BY <1>6, <1>8 DEF AlarmThread, AlarmTop, AlarmPop, AlarmPopSim, AlarmJudge
<1>9. CASE MainThread
  <2>1. CASE MainPop \/ MainCheck \/ MainInsert
    BY <1>6, <2>1 DEF MainPop, MainCheck, MainInsert
  <2>2. CASE MainStartUdp
    BY <2>2 DEF MainStartUdp, InFlight, Refused, StopInv, Down, Joinable, Thread, Modules
  <2>3. CASE MainConnect \/ MainStartSim \/ MainStartAlarm \/ MainStartHttp
    BY <1>6, <2>3 DEF MainConnect, MainStartSim, MainStartAlarm, MainStartHttp
  <2>4. CASE MainLoop \/ MainStop \/ MainJoin \/ MainClose
    BY <1>6, <2>4 DEF MainLoop, MainStop, MainJoin, MainClose
  <2> QED BY <1>9, <2>1, <2>2, <2>3, <2>4 DEF MainThread
<1>10. CASE Signal \/ ClickHouseLost BY <1>6, <1>10 DEF Signal, ClickHouseLost
<1>11. CASE UNCHANGED vars BY <1>6, <1>11 DEF vars
<1> QED
  BY <1>2, <1>3, <1>4, <1>5, <1>7, <1>8, <1>9, <1>10, <1>11 DEF Next, UdpThread, Ended

-----------------------------------------------------------------------------
(* The queue and what has been taken from it *)

(* No step of the system but a push and the three pops touches the queue   *)
(* or the readings taken from it: the end of a consumer's work only moves  *)
(* a reading from its hand to what it has finished.                        *)
Rest ==
    /\ sensorQueue'.items = sensorQueue.items
    /\ \A c \in Consumers : Taken(c)' = Taken(c)

Published ==
    /\ udp = "push" /\ udp' = "accept" /\ UNCHANGED arrived
    /\ HasRoom(sensorQueue)
    /\ sensorQueue'.items = Append(sensorQueue.items, arrived)
    /\ \A c \in Consumers : Taken(c)' = Taken(c)

TakenBy(c) ==
    /\ ~IsEmpty(sensorQueue)
    /\ sensorQueue'.items = Tail(sensorQueue.items)
    /\ Taken(c)' = Taken(c) \cup {Front(sensorQueue)}
    /\ \A d \in Consumers \ {c} : Taken(d)' = Taken(d)

(* What a pop or a use does to the set of readings a consumer has taken. *)
LEMMA TakenStep ==
    TypeOK /\ HandInv /\ [Next]_vars => Rest \/ Published \/ \E c \in Consumers : TakenBy(c)
<1> SUFFICES ASSUME TypeOK, HandInv, [Next]_vars
             PROVE  Rest \/ Published \/ \E c \in Consumers : TakenBy(c)
  OBVIOUS
<1> USE DEF mainVars, udpVars, simVars, alarmVars, storeVars, queueVars
<1>1. /\ Taken("main") = Held("main") \cup (buffered \cup discarded)
      /\ Taken("sim") = Held("sim") \cup simulated
      /\ Taken("alarm") = Held("alarm") \cup {j[1] : j \in judged}
      /\ Taken("main")' = Held("main")' \cup (buffered' \cup discarded')
      /\ Taken("sim")' = Held("sim")' \cup simulated'
      /\ Taken("alarm")' = Held("alarm")' \cup {j[1] : j \in judged'}
  BY DEF Taken, Finished
<1>2. ~IsEmpty(sensorQueue) => Front(sensorQueue) # NoMsg
  <2>1. ~IsEmpty(sensorQueue) => Front(sensorQueue) \in Msgs
    BY PopType DEF TypeOK
  <2> QED BY <2>1, MaxPacketsAssumption DEF Msgs, NoMsg
<1>3. Pop(sensorQueue).items = Tail(sensorQueue.items)
  BY DEF TypeOK, IsQueue, Pop
<1>4. CASE UNCHANGED <<sensorQueue, hand, buffered, discarded, simulated, judged>>
  BY <1>1, <1>4 DEF Rest, Held, Consumers
<1>5. CASE UdpPush
  <2>1. CASE HasRoom(sensorQueue)
    BY <1>1, <1>5, <2>1 DEF UdpPush, Published, Push, TypeOK, IsQueue, Held, Consumers
  <2>2. CASE ~HasRoom(sensorQueue)
    BY <1>1, <1>5, <2>2 DEF UdpPush, Rest, Push, TypeOK, IsQueue, Held, Consumers
  <2> QED BY <2>1, <2>2
<1>6. CASE SimPop
  <2>1. CASE IsEmpty(sensorQueue)
    BY <1>4, <1>6, <2>1 DEF SimPop
  <2>2. CASE ~IsEmpty(sensorQueue)
    <3>1. Held("sim") = {} /\ Held("sim")' = {Front(sensorQueue)}
      BY <1>2, <1>6, <2>2 DEF SimPop, Held, HandInv, TypeOK, Consumers
    <3>2. UNCHANGED <<Held("main"), Held("alarm"), buffered, discarded, simulated, judged>>
      BY <1>6, <2>2 DEF SimPop, Held, TypeOK, Consumers
    <3>3. TakenBy("sim")
      BY <1>1, <1>3, <1>6, <2>2, <3>1, <3>2 DEF SimPop, TakenBy, Consumers
    <3> QED BY <3>3 DEF Consumers
  <2> QED BY <2>1, <2>2
<1>7. CASE AlarmPop
  <2>1. CASE IsEmpty(sensorQueue)
    BY <1>4, <1>7, <2>1 DEF AlarmPop
  <2>2. CASE ~IsEmpty(sensorQueue)
    <3>1. Held("alarm") = {} /\ Held("alarm")' = {Front(sensorQueue)}
      BY <1>2, <1>7, <2>2 DEF AlarmPop, Held, HandInv, TypeOK, Consumers
    <3>2. UNCHANGED <<Held("main"), Held("sim"), buffered, discarded, simulated, judged>>
      BY <1>7, <2>2 DEF AlarmPop, Held, TypeOK, Consumers
    <3>3. TakenBy("alarm")
      BY <1>1, <1>3, <1>7, <2>2, <3>1, <3>2 DEF AlarmPop, TakenBy, Consumers
    <3> QED BY <3>3 DEF Consumers
  <2> QED BY <2>1, <2>2
<1>8. CASE MainPop
  <2>1. CASE IsEmpty(sensorQueue)
    BY <1>4, <1>8, <2>1 DEF MainPop
  <2>2. CASE ~IsEmpty(sensorQueue)
    <3>1. Held("main") = {} /\ Held("main")' = {Front(sensorQueue)}
      BY <1>2, <1>8, <2>2 DEF MainPop, Held, HandInv, TypeOK, Consumers
    <3>2. UNCHANGED <<Held("sim"), Held("alarm"), buffered, discarded, simulated, judged>>
      BY <1>8, <2>2 DEF MainPop, Held, TypeOK, Consumers
    <3>3. TakenBy("main")
      BY <1>1, <1>3, <1>8, <2>2, <3>1, <3>2 DEF MainPop, TakenBy, Consumers
    <3> QED BY <3>3 DEF Consumers
  <2> QED BY <2>1, <2>2
<1>9. CASE SimStats
  <2>1. Held("sim") = {hand["sim"]} /\ Held("sim")' = {}
    BY <1>9 DEF SimStats, Held, HandInv, TypeOK, Consumers
  <2>2. UNCHANGED <<Held("main"), Held("alarm")>>
    BY <1>9 DEF SimStats, Held, TypeOK, Consumers
  <2> QED BY <1>1, <1>9, <2>1, <2>2 DEF SimStats, Rest, Consumers
<1>10. CASE AlarmJudge
  <2>1. Held("alarm") = {hand["alarm"]} /\ Held("alarm")' = {}
    BY <1>10 DEF AlarmJudge, Held, HandInv, TypeOK, Consumers
  <2>2. UNCHANGED <<Held("main"), Held("sim")>>
    BY <1>10 DEF AlarmJudge, Held, TypeOK, Consumers
  <2>3. {j[1] : j \in judged'} = {j[1] : j \in judged} \cup {hand["alarm"]}
    <3>1. judged' = judged \cup {<<hand["alarm"], handSim>>}
      BY <1>10 DEF AlarmJudge
    <3>2. <<hand["alarm"], handSim>>[1] = hand["alarm"]
      OBVIOUS
    <3>3. \A x : x \in {j[1] : j \in judged'} <=> x \in {j[1] : j \in judged} \cup {hand["alarm"]}
      BY <3>1, <3>2
    <3> QED BY <3>3
  <2> QED BY <1>1, <1>10, <2>1, <2>2, <2>3 DEF AlarmJudge, Rest, Consumers
<1>11. CASE MainCheck
  <2>1. CASE connected
    BY <1>4, <1>11, <2>1 DEF MainCheck
  <2>2. CASE ~connected
    <3>1. Held("main") = {hand["main"]} /\ Held("main")' = {}
      BY <1>11, <2>2 DEF MainCheck, Held, HandInv, TypeOK, Consumers
    <3>2. UNCHANGED <<Held("sim"), Held("alarm")>>
      BY <1>11, <2>2 DEF MainCheck, Held, TypeOK, Consumers
    <3> QED BY <1>1, <1>11, <2>2, <3>1, <3>2 DEF MainCheck, Rest, Consumers
  <2> QED BY <2>1, <2>2
<1>12. CASE MainInsert
  <2>1. Held("main") = {hand["main"]} /\ Held("main")' = {}
    BY <1>12 DEF MainInsert, Held, HandInv, TypeOK, Consumers
  <2>2. UNCHANGED <<Held("sim"), Held("alarm")>>
    BY <1>12 DEF MainInsert, Held, TypeOK, Consumers
  <2> QED BY <1>1, <1>12, <2>1, <2>2 DEF MainInsert, Rest, Consumers
<1>13. CASE UdpTop \/ UdpIdle \/ UdpRecv \/ UdpCount
  BY <1>4, <1>13 DEF UdpTop, UdpIdle, UdpRecv, UdpCount
<1>14. CASE SimTop \/ SimPush \/ AlarmTop \/ AlarmPopSim
  BY <1>4, <1>14 DEF SimTop, SimPush, AlarmTop, AlarmPopSim
<1>15. CASE \/ MainConnect \/ MainStartUdp \/ MainStartSim \/ MainStartAlarm \/ MainStartHttp
            \/ MainLoop \/ MainStop \/ MainJoin \/ MainClose
  BY <1>4, <1>15
     DEF MainConnect, MainStartUdp, MainStartSim, MainStartAlarm, MainStartHttp,
         MainLoop, MainStop, MainJoin, MainClose
<1>16. CASE Signal \/ ClickHouseLost \/ UNCHANGED vars
  BY <1>4, <1>16 DEF Signal, ClickHouseLost, vars
<1> QED
  BY <1>5, <1>6, <1>7, <1>8, <1>9, <1>10, <1>11, <1>12, <1>13, <1>14, <1>15, <1>16
     DEF Next, UdpThread, SimThread, AlarmThread, MainThread, Ended

(* What the queue holds after a push, and after a pop.                     *)
LEMMA AppendItems ==
    ASSUME NEW S, NEW s \in Seq(S), NEW x \in S
    PROVE  /\ DOMAIN Append(s, x) = 1..Len(s) + 1
           /\ DOMAIN s = 1..Len(s)
           /\ \A i \in DOMAIN s : i \in Nat /\ Append(s, x)[i] = s[i]
           /\ Append(s, x)[Len(s) + 1] = x
           /\ \A i \in DOMAIN Append(s, x) : i \in DOMAIN s \/ i = Len(s) + 1
OBVIOUS

(* The items of a queue after its front has been popped. *)
LEMMA TailItems ==
    ASSUME NEW S, NEW s \in Seq(S), s # <<>>
    PROVE  /\ Head(s) = s[1]
           /\ 1 \in DOMAIN s
           /\ \A i \in DOMAIN Tail(s) : i \in Nat /\ 1 < i + 1 /\ i + 1 \in DOMAIN s
           /\ \A i \in DOMAIN Tail(s) : Tail(s)[i] = s[i + 1]
OBVIOUS

(* A reading about to be pushed is newer than all that was ever queued. *)
LEMMA NextFresh == TypeOK /\ HandInv /\ FreshInv /\ [Next]_vars => FreshInv'
<1> SUFFICES ASSUME TypeOK, HandInv, FreshInv, [Next]_vars PROVE FreshInv'
  OBVIOUS
<1>1. \/ udp' = "push" /\ arrived' = arrived + 1
      \/ udp' # "push" /\ arrived' \in {arrived, arrived + 1}
      \/ UNCHANGED <<udp, arrived>>
  <2> USE DEF mainVars, udpVars, simVars, alarmVars, storeVars, queueVars
  <2>1. CASE UdpThread
    BY <2>1 DEF UdpThread, UdpTop, UdpIdle, UdpRecv, UdpPush, UdpCount
  <2>2. CASE SimThread
    BY <2>2 DEF SimThread, SimTop, SimPop, SimPush, SimStats
  <2>3. CASE AlarmThread
    BY <2>3 DEF AlarmThread, AlarmTop, AlarmPop, AlarmPopSim, AlarmJudge
  <2>4. CASE MainThread
    BY <2>4 DEF MainThread, MainConnect, MainStartUdp, MainStartSim, MainStartAlarm,
                MainStartHttp, MainLoop, MainPop, MainCheck, MainInsert, MainStop, MainJoin,
                MainClose
  <2>5. CASE Signal \/ ClickHouseLost \/ UNCHANGED vars
    BY <2>5 DEF Signal, ClickHouseLost, vars
  <2> QED BY <2>1, <2>2, <2>3, <2>4, <2>5 DEF Next, Ended
<1>2. arrived \in Nat
  BY MaxPacketsAssumption DEF TypeOK
<1> DEFINE OlderThen(x) == x < arrived' \/ (x = arrived' /\ udp' # "push")
<1>3. \A x \in Nat : Older(x) => OlderThen(x)
  BY <1>1, <1>2 DEF Older
<1>4. /\ sensorQueue.items \in Seq(Msgs)
      /\ \A i \in DOMAIN sensorQueue.items : sensorQueue.items[i] \in Nat
      /\ \A c \in Consumers : \A k \in Taken(c) : k \in Nat
  <2>1. sensorQueue.items \in Seq(Msgs)
    BY DEF TypeOK, IsQueue
  <2>2. \A k \in Msgs : k \in Nat
    BY MaxPacketsAssumption DEF Msgs
  <2>3. \A c \in Consumers : Taken(c) \subseteq Msgs
    BY DEF Taken, Held, Finished, TypeOK, Consumers
  <2> QED BY <2>1, <2>2, <2>3
<1>5. FreshInv' <=>
        /\ \A i \in DOMAIN sensorQueue'.items : OlderThen(sensorQueue'.items[i])
        /\ \A c \in Consumers : \A k \in Taken(c)' : OlderThen(k)
  BY DEF FreshInv, Older
<1> HIDE DEF OlderThen
<1>6. CASE Rest
  BY <1>3, <1>4, <1>5, <1>6 DEF Rest, FreshInv
<1>7. CASE Published
  <2>1. OlderThen(arrived) /\ arrived \in Msgs
    BY <1>2, <1>7, MaxPacketsAssumption DEF Published, OlderThen, HandInv, TypeOK, Msgs
  <2>2. \A i \in DOMAIN sensorQueue'.items : OlderThen(sensorQueue'.items[i])
    BY <1>3, <1>4, <1>7, <2>1, AppendItems DEF Published, FreshInv
  <2> QED BY <1>3, <1>4, <1>5, <1>7, <2>2 DEF Published, FreshInv
<1>8. ASSUME NEW c \in Consumers, TakenBy(c) PROVE FreshInv'
  <2>1. sensorQueue.items # <<>> /\ Front(sensorQueue) = sensorQueue.items[1]
    BY <1>4, <1>8, TailItems DEF TakenBy, IsEmpty, Front
  <2>2. \A i \in DOMAIN sensorQueue'.items : OlderThen(sensorQueue'.items[i])
    BY <1>3, <1>4, <1>8, <2>1, TailItems DEF TakenBy, FreshInv
  <2>3. \A d \in Consumers : \A k \in Taken(d)' : OlderThen(k)
    BY <1>3, <1>4, <1>8, <2>1, TailItems DEF TakenBy, FreshInv
  <2> QED BY <1>5, <2>2, <2>3
<1> QED BY <1>6, <1>7, <1>8, TakenStep

(* The queues stay sorted, and newer than everything taken from them. *)
LEMMA NextQueueOrder ==
    /\ TypeOK /\ HandInv /\ FreshInv /\ QueueOrder /\ [Next]_vars => QueueOrder'
<1> SUFFICES ASSUME TypeOK, HandInv, FreshInv, QueueOrder, [Next]_vars PROVE QueueOrder'
  OBVIOUS
<1>1. /\ sensorQueue.items \in Seq(Msgs)
      /\ \A i \in DOMAIN sensorQueue.items : sensorQueue.items[i] \in Nat
      /\ \A c \in Consumers : \A k \in Taken(c) : k \in Nat
  <2>1. sensorQueue.items \in Seq(Msgs)
    BY DEF TypeOK, IsQueue
  <2>2. \A k \in Msgs : k \in Nat
    BY MaxPacketsAssumption DEF Msgs
  <2>3. \A c \in Consumers : Taken(c) \subseteq Msgs
    BY DEF Taken, Held, Finished, TypeOK, Consumers
  <2> QED BY <2>1, <2>2, <2>3
<1> DEFINE q == sensorQueue.items
<1>2. CASE Rest
  BY <1>2 DEF Rest, QueueOrder
<1>3. CASE Published
  <2>1. arrived \in Msgs
    BY <1>3, MaxPacketsAssumption DEF Published, HandInv, TypeOK, Msgs
  <2>2. /\ \A i \in DOMAIN q : q[i] < arrived
        /\ \A c \in Consumers : \A k \in Taken(c) : k < arrived
    BY <1>3 DEF Published, FreshInv, Older
  <2>3. \A i, j \in DOMAIN Append(q, arrived) : i < j => Append(q, arrived)[i] < Append(q, arrived)[j]
    <3> SUFFICES ASSUME NEW i \in DOMAIN Append(q, arrived), NEW j \in DOMAIN Append(q, arrived), i < j
                 PROVE  Append(q, arrived)[i] < Append(q, arrived)[j]
      OBVIOUS
    <3>1. i \in DOMAIN q
      BY <1>1, <2>1
    <3>2. CASE j \in DOMAIN q
      BY <1>1, <2>1, <3>1, <3>2, AppendItems DEF QueueOrder
    <3>3. CASE j = Len(q) + 1
      BY <1>1, <2>1, <2>2, <3>1, <3>3, AppendItems
    <3> QED BY <1>1, <2>1, <3>2, <3>3, AppendItems
  <2>4. \A c \in Consumers : \A k \in Taken(c) :
          \A i \in DOMAIN Append(q, arrived) : k < Append(q, arrived)[i]
    BY <1>1, <2>1, <2>2, AppendItems DEF QueueOrder
  <2> QED BY <1>3, <2>3, <2>4 DEF Published, QueueOrder
<1>4. ASSUME NEW c \in Consumers, TakenBy(c) PROVE QueueOrder'
  <2>1. q # <<>> /\ Front(sensorQueue) = q[1]
    BY <1>1, <1>4, TailItems DEF TakenBy, IsEmpty, Front
  <2>2. \A i, j \in DOMAIN Tail(q) : i < j => Tail(q)[i] < Tail(q)[j]
    BY <1>1, <2>1, TailItems DEF QueueOrder
  <2>3. \A i \in DOMAIN Tail(q) : q[1] < Tail(q)[i]
    BY <1>1, <2>1, TailItems DEF QueueOrder
  <2>4. \A d \in Consumers : \A k \in Taken(d) : \A i \in DOMAIN Tail(q) : k < Tail(q)[i]
    BY <1>1, <2>1, TailItems DEF QueueOrder
  <2>5. \A d \in Consumers : q[1] \notin Taken(d)
    <3>1. \A k \in Nat : ~(k < k)
      OBVIOUS
    <3> QED BY <1>1, <2>1, <3>1, TailItems DEF QueueOrder
  <2>6. \A d, e \in Consumers : d # e => Taken(d)' \cap Taken(e)' = {}
    BY <1>4, <2>1, <2>5 DEF TakenBy, QueueOrder
  <2> QED BY <1>4, <2>1, <2>2, <2>3, <2>4, <2>6 DEF TakenBy, QueueOrder
<1> QED BY <1>2, <1>3, <1>4, TakenStep

(* A reading is dealt with by one consumer, and by it once. *)
LEMMA NextOnceEach ==
    TypeOK /\ HandInv /\ QueueOrder /\ OnceEach /\ [Next]_vars => OnceEach'
<1> SUFFICES ASSUME TypeOK, HandInv, QueueOrder, OnceEach, [Next]_vars PROVE OnceEach'
  OBVIOUS
<1> USE DEF mainVars, udpVars, simVars, alarmVars, storeVars, queueVars
<1>1. ASSUME NEW c \in Consumers, ~IsEmpty(sensorQueue)
      PROVE  Front(sensorQueue) \notin Finished(c)
  <2>1. sensorQueue.items \in Seq(Msgs) /\ \A k \in Msgs : ~(k < k)
    BY MaxPacketsAssumption DEF TypeOK, IsQueue, Msgs
  <2>2. Front(sensorQueue) = sensorQueue.items[1] /\ 1 \in DOMAIN sensorQueue.items
    BY <1>1, <2>1, TailItems DEF IsEmpty, Front
  <2> QED BY <2>1, <2>2 DEF QueueOrder, Taken
<1>2. /\ Finished("main") = buffered \cup discarded
      /\ Finished("sim") = simulated
      /\ Finished("alarm") = {j[1] : j \in judged}
      /\ Finished("main")' = buffered' \cup discarded'
      /\ Finished("sim")' = simulated'
      /\ Finished("alarm")' = {j[1] : j \in judged'}
  BY DEF Finished
<1>3. CASE UNCHANGED <<hand, buffered, discarded, simulated, judged>>
  BY <1>2, <1>3 DEF OnceEach, Held, Consumers
<1>4. CASE SimPop
  BY <1>1, <1>2, <1>4 DEF SimPop, OnceEach, Held, TypeOK, Consumers
<1>5. CASE AlarmPop
  BY <1>1, <1>2, <1>5 DEF AlarmPop, OnceEach, Held, TypeOK, Consumers
<1>6. CASE MainPop
  BY <1>1, <1>2, <1>6 DEF MainPop, OnceEach, Held, TypeOK, Consumers
<1>7. CASE SimStats
  BY <1>2, <1>7 DEF SimStats, OnceEach, Held, TypeOK, Consumers
<1>8. CASE AlarmJudge
  BY <1>2, <1>8 DEF AlarmJudge, OnceEach, Held, TypeOK, Consumers
<1>9. CASE MainCheck \/ MainInsert
  <2>1. CASE hand' = hand
    BY <1>3, <1>9, <2>1, <1>2 DEF MainCheck, MainInsert, OnceEach, Held, HandInv, TypeOK, Consumers
  <2>2. CASE hand' # hand
    <3>1. Held("main")' = {} /\ UNCHANGED <<Held("sim"), Held("alarm"), simulated, judged>>
      BY <1>9, <2>2 DEF MainCheck, MainInsert, Held, TypeOK, Consumers
    <3>2. hand["main"] \notin buffered \cup discarded
      BY <1>2, <1>9 DEF MainCheck, MainInsert, OnceEach, Held, HandInv, Consumers
    <3>3. buffered' \cap discarded' = {}
      BY <1>9, <3>2 DEF MainCheck, MainInsert, OnceEach
    <3> QED BY <1>2, <3>1, <3>3 DEF OnceEach, Consumers
  <2> QED BY <2>1, <2>2
<1>10. CASE UdpThread
  BY <1>3, <1>10 DEF UdpThread, UdpTop, UdpIdle, UdpRecv, UdpPush, UdpCount
<1>11. CASE SimTop \/ SimPush \/ AlarmTop \/ AlarmPopSim
  BY <1>3, <1>11 DEF SimTop, SimPush, AlarmTop, AlarmPopSim
<1>12. CASE \/ MainConnect \/ MainStartUdp \/ MainStartSim \/ MainStartAlarm \/ MainStartHttp
            \/ MainLoop \/ MainStop \/ MainJoin \/ MainClose
  BY <1>3, <1>12
     DEF MainConnect, MainStartUdp, MainStartSim, MainStartAlarm, MainStartHttp,
         MainLoop, MainStop, MainJoin, MainClose
<1>13. CASE Signal \/ ClickHouseLost \/ UNCHANGED vars
  BY <1>3, <1>13 DEF Signal, ClickHouseLost, vars
<1> QED
  BY <1>4, <1>5, <1>6, <1>7, <1>8, <1>9, <1>10, <1>11, <1>12, <1>13
     DEF Next, SimThread, AlarmThread, MainThread, Ended

-----------------------------------------------------------------------------
(* Where simulation results come from *)

(* A simulation result always comes from a reading the simulator took. *)
LEMMA NextOrigin == TypeOK /\ HandInv /\ OriginInv /\ [Next]_vars => OriginInv'
<1> SUFFICES ASSUME TypeOK, HandInv, OriginInv, [Next]_vars PROVE OriginInv'
  OBVIOUS
<1> USE DEF mainVars, udpVars, simVars, alarmVars, storeVars, queueVars
<1> DEFINE T == Taken("sim")
           q == simulationQueue.items
<1>1. T \subseteq T'
  <2>1. "sim" \in Consumers
    BY DEF Consumers
  <2> QED BY <2>1, TakenStep DEF Rest, Published, TakenBy
<1>2. q \in Seq(Msgs) /\ simulationQueue \in [items : Seq(Msgs), dropped : Nat]
  BY DEF TypeOK, IsQueue
<1> HIDE DEF T
<1>3. /\ \A i \in DOMAIN q : q[i] \in T
      /\ handSim \in T \cup {NoMsg}
      /\ \A j \in judged : j[2] \in T \cup {NoMsg}
  BY DEF OriginInv, T
<1>4. ASSUME \A i \in DOMAIN q' : q'[i] \in T',
             handSim' \in T' \cup {NoMsg},
             \A j \in judged' : j[2] \in T' \cup {NoMsg}
      PROVE  OriginInv'
  BY <1>4 DEF OriginInv, T
<1>5. CASE UNCHANGED <<simulationQueue, handSim, judged>>
  BY <1>1, <1>3, <1>4, <1>5
<1>6. CASE SimPush
  <2>1. hand["sim"] \in T /\ hand["sim"] \in Msgs
    BY <1>6 DEF SimPush, HandInv, T, Taken, Held, TypeOK, Consumers
  <2>2. q' = q \/ q' = Append(q, hand["sim"])
    BY <1>2, <1>6 DEF SimPush, Push
  <2>3. \A i \in DOMAIN q' : q'[i] \in T'
    BY <1>1, <1>2, <1>3, <2>1, <2>2, AppendItems
  <2> QED BY <1>1, <1>3, <1>4, <1>6, <2>3 DEF SimPush
<1>7. CASE AlarmPopSim
  <2>1. CASE IsEmpty(simulationQueue)
    BY <1>1, <1>3, <1>4, <1>7, <2>1 DEF AlarmPopSim
  <2>2. CASE ~IsEmpty(simulationQueue)
    <3>1. q' = Tail(q) /\ handSim' = Head(q) /\ q # <<>>
      BY <1>2, <1>7, <2>2 DEF AlarmPopSim, Pop, Front, IsEmpty
    <3>2. \A i \in DOMAIN q' : q'[i] \in T'
      BY <1>1, <1>2, <1>3, <3>1, TailItems
    <3>3. handSim' \in T'
      BY <1>1, <1>2, <1>3, <3>1, TailItems
    <3> QED BY <1>1, <1>3, <1>4, <1>7, <3>2, <3>3 DEF AlarmPopSim
  <2> QED BY <2>1, <2>2
<1>8. CASE AlarmJudge
  <2>1. judged' = judged \cup {<<hand["alarm"], handSim>>} /\ handSim' = NoMsg /\ q' = q
    BY <1>8 DEF AlarmJudge
  <2>2. \A j \in judged' : j \in judged \/ j[2] = handSim
    BY <2>1
  <2> QED BY <1>1, <1>3, <1>4, <2>1, <2>2
<1>9. CASE UdpThread
  BY <1>5, <1>9 DEF UdpThread, UdpTop, UdpIdle, UdpRecv, UdpPush, UdpCount
<1>10. CASE SimTop \/ SimPop \/ SimStats \/ AlarmTop \/ AlarmPop
  BY <1>5, <1>10 DEF SimTop, SimPop, SimStats, AlarmTop, AlarmPop
<1>11. CASE MainThread
  BY <1>5, <1>11
     DEF MainThread, MainConnect, MainStartUdp, MainStartSim, MainStartAlarm, MainStartHttp,
         MainLoop, MainPop, MainCheck, MainInsert, MainStop, MainJoin, MainClose
<1>12. CASE Signal \/ ClickHouseLost \/ UNCHANGED vars
  BY <1>5, <1>12 DEF Signal, ClickHouseLost, vars
<1> QED
  BY <1>6, <1>7, <1>8, <1>9, <1>10, <1>11, <1>12 DEF Next, SimThread, AlarmThread, Ended

(* The alarm worker uses the results in order, hence each at most once. *)
LEMMA NextUseOrder ==
    TypeOK /\ HandInv /\ QueueOrder /\ OriginInv /\ UseOrder /\ [Next]_vars => UseOrder'
<1> SUFFICES ASSUME TypeOK, HandInv, QueueOrder, OriginInv, UseOrder, [Next]_vars PROVE UseOrder'
  OBVIOUS
<1> USE DEF mainVars, udpVars, simVars, alarmVars, storeVars, queueVars
<1> DEFINE q == simulationQueue.items
<1>1. q \in Seq(Msgs) /\ simulationQueue \in [items : Seq(Msgs), dropped : Nat]
  BY DEF TypeOK, IsQueue
<1>2. \A k \in Msgs : k \in Nat /\ NoMsg < k
  BY MaxPacketsAssumption DEF Msgs, NoMsg
<1>3. \A u \in Used : u \in Nat
  BY <1>2 DEF Used, TypeOK, NoMsg
<1>4. CASE UNCHANGED <<simulationQueue, handSim, judged>> /\ (sim' # "simulate" \/ UNCHANGED <<sim, hand["sim"]>>)
  BY <1>4 DEF UseOrder, Used, SimulationUsedOnce
<1>5. CASE SimPop
  <2>1. CASE IsEmpty(sensorQueue)
    BY <1>4, <1>5, <2>1 DEF SimPop
  <2>2. CASE ~IsEmpty(sensorQueue)
    <3> DEFINE h == sensorQueue.items[1]
    <3>1. sensorQueue.items \in Seq(Msgs)
      BY DEF TypeOK, IsQueue
    <3>2. h \in Msgs /\ 1 \in DOMAIN sensorQueue.items /\ Front(sensorQueue) = h
      BY <2>2, <3>1, TailItems DEF IsEmpty, Front
    <3>3. \A k \in Taken("sim") : k < h
      BY <3>2 DEF QueueOrder, Consumers
    <3>4. \A u \in Used : u < h
      BY <1>2, <3>2, <3>3 DEF OriginInv, Used
    <3>5. \A i \in DOMAIN q : q[i] < h
      BY <3>3 DEF OriginInv
    <3>6. hand'["sim"] = h /\ UNCHANGED <<simulationQueue, handSim, judged>>
      BY <1>5, <2>2, <3>2 DEF SimPop, TypeOK, Consumers
    <3> HIDE DEF h
    <3> QED BY <3>4, <3>5, <3>6 DEF UseOrder, Used, SimulationUsedOnce
  <2> QED BY <2>1, <2>2
<1>6. CASE SimPush
  <2>1. hand["sim"] \in Msgs /\ sim' # "simulate" /\ UNCHANGED <<handSim, judged>>
    BY <1>6 DEF SimPush, HandInv, TypeOK, Consumers
  <2>2. CASE q' = q
    BY <2>1, <2>2 DEF UseOrder, Used, SimulationUsedOnce
  <2>3. CASE q' = Append(q, hand["sim"])
    <3>1. \A i \in DOMAIN q : q[i] < hand["sim"]
      BY <1>6 DEF SimPush, UseOrder
    <3>2. \A i, j \in DOMAIN q' : i < j => q'[i] < q'[j]
      <4> SUFFICES ASSUME NEW i \in DOMAIN q', NEW j \in DOMAIN q', i < j PROVE q'[i] < q'[j]
        OBVIOUS
      <4>1. i \in DOMAIN q
        BY <1>1, <2>1, <2>3
      <4>2. CASE j \in DOMAIN q
        BY <1>1, <2>1, <2>3, <4>1, <4>2, AppendItems DEF UseOrder
      <4>3. CASE j = Len(q) + 1
        BY <1>1, <2>1, <2>3, <3>1, <4>1, <4>3, AppendItems
      <4> QED BY <1>1, <2>1, <2>3, <4>2, <4>3, AppendItems
    <3>3. \A u \in Used : \A i \in DOMAIN q' : u < q'[i]
      BY <1>1, <1>6, <2>1, <2>3, AppendItems DEF SimPush, UseOrder
    <3> QED BY <2>1, <3>2, <3>3 DEF UseOrder, Used, SimulationUsedOnce
  <2> QED BY <1>1, <1>6, <2>2, <2>3 DEF SimPush, Push
<1>7. CASE AlarmPopSim
  <2>1. UNCHANGED <<sim, hand, judged>>
    BY <1>7 DEF AlarmPopSim
  <2>2. CASE IsEmpty(simulationQueue)
    <3>1. handSim' = NoMsg /\ q' = q
      BY <1>7, <2>2 DEF AlarmPopSim
    <3>2. \A u \in Used' : u \in Used \/ u = NoMsg
      BY <2>1, <3>1 DEF Used
    <3>3. \A i \in DOMAIN q : q[i] \in Msgs
      BY <1>1
    <3>4. sim = "simulate" => hand["sim"] \in Msgs
      BY DEF HandInv, TypeOK, Consumers
    <3> QED BY <1>2, <2>1, <3>1, <3>2, <3>3, <3>4 DEF UseOrder, SimulationUsedOnce
  <2>3. CASE ~IsEmpty(simulationQueue)
    <3>1. q' = Tail(q) /\ handSim' = q[1] /\ q # <<>>
      BY <1>1, <1>7, <2>3, TailItems DEF AlarmPopSim, Pop, Front, IsEmpty
    <3>2. \A i, j \in DOMAIN q' : i < j => q'[i] < q'[j]
      BY <1>1, <3>1, TailItems DEF UseOrder
    <3>3. \A u \in Used : \A i \in DOMAIN q' : u < q'[i]
      BY <1>1, <3>1, TailItems DEF UseOrder
    <3>4. \A i \in DOMAIN q' : q[1] < q'[i]
      BY <1>1, <3>1, TailItems DEF UseOrder
    <3>5. \A u \in Used' : u \in Used \/ u = q[1]
      BY <2>1, <3>1 DEF Used
    <3>6. sim = "simulate" =>
            /\ \A u \in Used' : u < hand["sim"]
            /\ \A i \in DOMAIN q' : q'[i] < hand["sim"]
      BY <1>1, <3>1, <3>5, TailItems DEF UseOrder
    <3>7. \A j \in judged : j[2] # q[1]
      <4>1. \A j \in judged : j[2] < q[1]
        BY <1>1, <3>1, TailItems DEF UseOrder, Used
      <4>2. \A k \in Msgs : ~(k < k)
        BY <1>2
      <4>3. q[1] \in Msgs
        BY <1>1, <3>1
      <4> QED BY <4>1, <4>2, <4>3
    <3> QED BY <2>1, <3>1, <3>2, <3>3, <3>4, <3>5, <3>6, <3>7 DEF UseOrder, SimulationUsedOnce
  <2> QED BY <2>2, <2>3
<1>8. CASE AlarmJudge
  <2>1. /\ judged' = judged \cup {<<hand["alarm"], handSim>>}
        /\ handSim' = NoMsg
        /\ UNCHANGED <<simulationQueue, sim>> /\ hand'["sim"] = hand["sim"]
    BY <1>8 DEF AlarmJudge, TypeOK, Consumers
  <2>2. \A j \in judged' : j \in judged \/ (j = <<hand["alarm"], handSim>> /\ j[2] = handSim)
    BY <2>1
  <2>3. \A u \in Used' : u \in Used \/ u = NoMsg
    BY <2>1, <2>2 DEF Used
  <2>4. SimulationUsedOnce'
    BY <2>1, <2>2 DEF UseOrder, SimulationUsedOnce
  <2>5. sim = "simulate" => hand["sim"] \in Msgs
    BY DEF HandInv, TypeOK, Consumers
  <2>6. \A i \in DOMAIN q : q[i] \in Msgs
    BY <1>1
  <2> QED BY <1>2, <2>1, <2>3, <2>4, <2>5, <2>6 DEF UseOrder
<1>9. CASE UdpThread
  BY <1>4, <1>9 DEF UdpThread, UdpTop, UdpIdle, UdpRecv, UdpPush, UdpCount
<1>10. CASE SimTop \/ SimStats \/ AlarmTop
  BY <1>4, <1>10 DEF SimTop, SimStats, AlarmTop
<1>11. CASE AlarmPop
  BY <1>4, <1>11 DEF AlarmPop, TypeOK, Consumers
<1>12. CASE MainPop \/ MainCheck \/ MainInsert
  BY <1>4, <1>12 DEF MainPop, MainCheck, MainInsert, TypeOK, Consumers
<1>13. CASE \/ MainConnect \/ MainStartUdp \/ MainStartSim \/ MainStartAlarm \/ MainStartHttp
            \/ MainLoop \/ MainStop \/ MainJoin \/ MainClose
  BY <1>4, <1>13
     DEF MainConnect, MainStartUdp, MainStartSim, MainStartAlarm, MainStartHttp,
         MainLoop, MainStop, MainJoin, MainClose
<1>14. CASE Signal \/ ClickHouseLost \/ UNCHANGED vars
  BY <1>4, <1>14 DEF Signal, ClickHouseLost, vars
<1> QED
  BY <1>5, <1>6, <1>7, <1>8, <1>9, <1>10, <1>11, <1>12, <1>13, <1>14
     DEF Next, SimThread, AlarmThread, MainThread, Ended

-----------------------------------------------------------------------------
(* The theorems *)

(* The inductive invariant holds when main starts. *)
LEMMA InitIInv == Init => IInv
<1> SUFFICES ASSUME Init PROVE IInv
  OBVIOUS
<1>1. TypeOK BY InitType
<1>2. HandInv BY DEF Init, HandInv, Consumers
<1>3. /\ Taken("main") = {} /\ Taken("sim") = {} /\ Taken("alarm") = {}
      /\ Held("main") = {} /\ Held("sim") = {} /\ Held("alarm") = {}
  BY DEF Init, Taken, Held, Finished, Consumers
<1>4. DOMAIN sensorQueue.items = {} /\ DOMAIN simulationQueue.items = {}
  BY DEF Init, EmptyQueue
<1>5. FreshInv /\ QueueOrder
  BY <1>3, <1>4 DEF FreshInv, QueueOrder, Consumers
<1>6. OnceEach
  BY <1>3 DEF Init, OnceEach, Consumers
<1>7. OriginInv /\ UseOrder
  BY <1>4 DEF Init, OriginInv, UseOrder, SimulationUsedOnce
<1>8. StopInv
  BY DEF Init, StopInv, Down, Joinable, Thread, Modules
<1>9. Accounting
  <2>1. /\ stats.total = 0 /\ stats.valid = 0 /\ stats.invalid = 0 /\ stats.queue_full = 0
        /\ sensorQueue.dropped = 0 /\ arrived = 0 /\ InFlight = 0 /\ Refused = 0
    BY DEF Init, EmptyQueue, InFlight, Refused
  <2> QED BY <2>1 DEF Accounting
<1> QED BY <1>1, <1>2, <1>5, <1>6, <1>7, <1>8, <1>9 DEF IInv

(* Every step of every thread preserves the inductive invariant. *)
LEMMA NextIInv == IInv /\ [Next]_vars => IInv'
BY NextType, NextHand, NextFresh, NextQueueOrder, NextOnceEach, NextOrigin, NextUseOrder,
   NextStop, NextAccounting
   DEF IInv

(* The inductive invariant holds in every reachable state.                 *)
THEOREM Invariant == Spec => []IInv
BY InitIInv, NextIInv, PTL DEF Spec

(* Every variable keeps its type, both queues their capacity.              *)
THEOREM TypeCorrect == Spec => []TypeOK
BY Invariant, PTL DEF IInv

(* Every reading is popped by one consumer at most and dealt with once.    *)
THEOREM EachTakenOnce == Spec => []TakenOnce
<1>1. IInv => TakenOnce
  <2> SUFFICES ASSUME IInv PROVE TakenOnce
    OBVIOUS
  <2>1. \A c \in Consumers : Taken(c) \subseteq Msgs
    BY DEF Taken, Held, Finished, IInv, TypeOK, Consumers
  <2>2. \A k \in Msgs : ~(k < k)
    BY MaxPacketsAssumption DEF Msgs
  <2>3. \A c \in Consumers : Taken(c) \cap Queued = {}
    BY <2>1, <2>2 DEF Queued, IInv, QueueOrder
  <2> QED BY <2>3 DEF TakenOnce, IInv, QueueOrder, OnceEach
<1> QED BY <1>1, Invariant, PTL

(* The receiver's counters and the queue's drop counter agree.             *)
THEOREM CountersAgree == Spec => []Accounting
BY Invariant, PTL DEF IInv

(* The alarm never judges a reading with the simulation of that reading.   *)
THEOREM ForeignSimulation == Spec => []NeverOwnSimulation
<1>1. IInv => NeverOwnSimulation
  <2> SUFFICES ASSUME IInv, NEW j \in judged PROVE j[1] # j[2]
    BY DEF NeverOwnSimulation
  <2>1. j[1] \in Taken("alarm")
    BY DEF Taken, Finished
  <2>2. j[1] \in Msgs /\ NoMsg \notin Msgs
    BY MaxPacketsAssumption DEF IInv, TypeOK, Msgs, NoMsg
  <2>3. j[2] \in Taken("sim") \cup {NoMsg}
    BY DEF IInv, OriginInv
  <2>4. Taken("alarm") \cap Taken("sim") = {}
    BY DEF IInv, QueueOrder, Consumers
  <2> QED BY <2>1, <2>2, <2>3, <2>4
<1> QED BY <1>1, Invariant, PTL

(* A simulation result is used for one reading at most.                    *)
THEOREM EachResultUsedOnce == Spec => []SimulationUsedOnce
BY Invariant, PTL DEF IInv, UseOrder

(* When main returns, every thread is gone and no reading is half handled. *)
THEOREM CleanExit == Spec => []NothingInHandAtExit
<1>1. IInv => NothingInHandAtExit
  BY DEF IInv, StopInv, HandInv, NothingInHandAtExit, Down, Joinable, Thread, Held, Modules, Consumers
<1> QED BY <1>1, Invariant, PTL

(* sensor_queue implements the abstract queue of competing consumers.      *)
THEOREM Refinement == Spec => DeliverySpec
<1>1. Init => Delivery!Init
  BY DEF Init, Delivery!Init, EmptyQueue, Taken, Held, Finished, Consumers
<1>2. IInv /\ [Next]_vars => [Delivery!Next]_Delivery!vars
  <2> SUFFICES ASSUME IInv, [Next]_vars PROVE [Delivery!Next]_Delivery!vars
    OBVIOUS
  <2>1. CASE Rest
    BY <2>1 DEF Rest, Delivery!vars
  <2>2. CASE Published
    <3>1. arrived \in Msgs
      BY <2>2, MaxPacketsAssumption DEF Published, IInv, HandInv, TypeOK, Msgs
    <3>2. Delivery!Newest(arrived)
      BY <2>2 DEF Published, IInv, FreshInv, Older, Delivery!Newest
    <3>3. Delivery!Publish(arrived)
      BY <2>2, <3>2 DEF Published, HasRoom, Delivery!Publish
    <3> QED BY <3>1, <3>3 DEF Delivery!Next
  <2>3. ASSUME NEW c \in Consumers, TakenBy(c) PROVE Delivery!Next
    <3>1. Delivery!Take(c)
      BY <2>3 DEF TakenBy, IsEmpty, Front, Delivery!Take
    <3> QED BY <3>1 DEF Delivery!Next
  <2> QED BY <2>1, <2>2, <2>3, TakenStep DEF IInv
<1> QED BY <1>1, <1>2, Invariant, PTL DEF Spec, DeliverySpec, Delivery!Spec
=============================================================================

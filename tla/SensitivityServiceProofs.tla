---------------------- MODULE SensitivityServiceProofs ----------------------
(***************************************************************************)
(* Proofs about the sensitivity path, for any capacity of its queue, any   *)
(* number of results in an analysis, of rounds and of tasks.               *)
(***************************************************************************)
EXTENDS SensitivityService, SequenceTheorems, TLAPS

-----------------------------------------------------------------------------
(* The invariant, in parts *)

Points == {"top", "wait", "analyze", "push", "release", "stopped", "sleep", "repeat", "range"}
Types == {"scan", "auto"}
AnyResult == [analysis : Nat, step : 1..Steps, type : Types, trials : BOOLEAN]

(* An analyst that has results to push, or has just pushed its last.       *)
Holding(t) == pc[t] \in {"push", "release"}

BaseInv ==
    /\ {g_running, running, alarmUp, simulation} \subseteq BOOLEAN
    /\ tasks \in Nat /\ scheduled \in Nat /\ discarded \in Nat /\ ran \in Nat
    /\ scheduled <= MaxTasks
    /\ rounds \in 0..MaxRounds
    /\ pc \in [Analysts -> Points]
    /\ pc["worker"] \in WorkerPoints /\ pc["auto"] \in AutoPoints
    /\ next \in [Analysts -> 1..Steps + 1]
    /\ analysis \in [Analysts -> Nat]
    /\ analyses \in Nat
    /\ analysisMutex \in Analysts \cup {NoOne}
    /\ IsQueue(sensitivityQueue, AnyResult)
    /\ handled \in Seq(AnyResult)
    /\ main \in {"serve", "stop", "clear", "join", "alarm", "exited"}

(* Holding analysis_mutex_ is having results to push, those of the last    *)
(* analysis that was counted.                                              *)
LockInv ==
    \A t \in Analysts :
        /\ Holding(t) <=> analysisMutex = t
        /\ pc[t] = "push" => next[t] <= Steps
        /\ analysis[t] <= analyses
        /\ Holding(t) => /\ analysis[t] = analyses
                         /\ \A u \in Analysts \ {t} : analysis[u] < analyses
        /\ t = "auto" /\ pc[t] = "repeat" => analysis[t] > 0
        /\ Holding(t) => analyses > 0

(* An analysis that began and was not interrupted is counted.              *)
Begun == IF Holding("worker") THEN 1 ELSE 0
Owed == IF pc["auto"] = "analyze" THEN 2
        ELSE IF pc["auto"] \in {"push", "release", "repeat", "range"} THEN 1 ELSE 0

CountInv == analyses + Owed = ran + Begun + 2 * rounds

(* What has been pushed when the next result of an analysis is.            *)
Before(r, n, step) == r.analysis < n \/ (Scan(r) /\ r.analysis = n /\ r.step < step)

OrderInv ==
    /\ \A i \in DOMAIN Delivered : Delivered[i].analysis \in 1..analyses
    /\ \A t \in Analysts : pc[t] = "push" => \A i \in DOMAIN Delivered : Before(Delivered[i], analyses, next[t])
    /\ ScansNotMixed

ServiceInv == BaseInv /\ LockInv /\ TasksAccounted /\ CountInv /\ OrderInv /\ ResultsAccounted

-----------------------------------------------------------------------------
(* The queue and what has been delivered *)

LEMMA ResultType ==
    ASSUME BaseInv, NEW n \in Nat, NEW step \in 1..Steps, NEW type \in Types
    PROVE  Result(n, step, type) \in AnyResult
BY DEF Result, AnyResult, BaseInv

LEMMA MiddleStep == Steps \div 2 + 1 \in 1..Steps
BY StepsAssumption

(* A push delivers its item, or counts it as dropped.                      *)
LEMMA PushDelivers ==
    ASSUME BaseInv, NEW r \in AnyResult, sensitivityQueue' = Push(sensitivityQueue, r), handled' = handled
    PROVE  /\ IsQueue(sensitivityQueue', AnyResult)
           /\ Len(Delivered') + sensitivityQueue'.dropped = Len(Delivered) + sensitivityQueue.dropped + 1
           /\ \A i \in DOMAIN Delivered' :
                 \/ i \in DOMAIN Delivered /\ Delivered'[i] = Delivered[i]
                 \/ Delivered'[i] = r /\ \A j \in DOMAIN Delivered' : j <= i
<1>0. /\ sensitivityQueue.items \in Seq(AnyResult) /\ sensitivityQueue.dropped \in Nat
      /\ sensitivityQueue \in [items : Seq(AnyResult), dropped : Nat]
      /\ Len(sensitivityQueue.items) <= Capacity /\ handled \in Seq(AnyResult)
  BY DEF BaseInv, IsQueue
<1>1. CASE HasRoom(sensitivityQueue)
  <2>1. /\ sensitivityQueue' = [sensitivityQueue EXCEPT !.items = Append(sensitivityQueue.items, r)]
        /\ sensitivityQueue'.items = Append(sensitivityQueue.items, r)
        /\ sensitivityQueue'.dropped = sensitivityQueue.dropped
    BY <1>0, <1>1 DEF Push
  <2>2. Append(sensitivityQueue.items, r) \in Seq(AnyResult)
        /\ Len(Append(sensitivityQueue.items, r)) <= Capacity
    BY <1>0, <1>1, CapacityAssumption DEF HasRoom
  <2>3. IsQueue(sensitivityQueue', AnyResult)
    BY <1>0, <2>1, <2>2 DEF IsQueue
  <2> DEFINE h == handled
             q == sensitivityQueue.items
  <2>4. Delivered' = h \o Append(q, r) /\ Delivered = h \o q
    BY <2>1 DEF Delivered
  <2>5. Len(h \o Append(q, r)) = Len(h \o q) + 1
    BY <1>0
  <2>6. ASSUME NEW i \in DOMAIN (h \o Append(q, r))
        PROVE  \/ i \in DOMAIN (h \o q) /\ (h \o Append(q, r))[i] = (h \o q)[i]
               \/ (h \o Append(q, r))[i] = r /\ \A j \in DOMAIN (h \o Append(q, r)) : j <= i
    BY <1>0, <2>6
  <2>7. Len(Delivered') + sensitivityQueue'.dropped = Len(Delivered) + sensitivityQueue.dropped + 1
    BY <1>0, <2>1, <2>4, <2>5
  <2> QED  BY <2>3, <2>4, <2>6, <2>7
<1>2. CASE ~HasRoom(sensitivityQueue)
  <2>1. sensitivityQueue' = [sensitivityQueue EXCEPT !.dropped = sensitivityQueue.dropped + 1]
    BY <1>2 DEF Push
  <2>2. /\ sensitivityQueue'.items = sensitivityQueue.items
        /\ sensitivityQueue'.dropped = sensitivityQueue.dropped + 1
    BY <1>0, <2>1
  <2>3. IsQueue(sensitivityQueue', AnyResult)
    BY <1>0, <2>1 DEF IsQueue
  <2>4. Delivered' = Delivered /\ Len(Delivered) \in Nat
    BY <1>0, <2>2 DEF Delivered
  <2> QED  BY <1>0, <2>2, <2>3, <2>4
<1> QED  BY <1>1, <1>2

(* A pop by the alarm worker only moves the first item.                    *)
LEMMA PopDelivers ==
    ASSUME BaseInv, AlarmPop
    PROVE  /\ IsQueue(sensitivityQueue', AnyResult) /\ handled' \in Seq(AnyResult)
           /\ Delivered' = Delivered /\ sensitivityQueue'.dropped = sensitivityQueue.dropped
<1> DEFINE h == handled
           q == sensitivityQueue.items
<1>0. /\ q \in Seq(AnyResult) /\ sensitivityQueue \in [items : Seq(AnyResult), dropped : Nat]
      /\ Len(q) <= Capacity /\ h \in Seq(AnyResult) /\ q # <<>> /\ Capacity \in Nat
  BY CapacityAssumption DEF BaseInv, IsQueue, AlarmPop, IsEmpty
<1>1. /\ sensitivityQueue' = [sensitivityQueue EXCEPT !.items = Tail(q)]
      /\ sensitivityQueue'.items = Tail(q) /\ sensitivityQueue'.dropped = sensitivityQueue.dropped
      /\ handled' = Append(h, Head(q))
  BY <1>0 DEF AlarmPop, Pop, Front
<1>2. Tail(q) \in Seq(AnyResult) /\ Head(q) \in AnyResult /\ Len(Tail(q)) = Len(q) - 1
  BY <1>0, HeadTailProperties
<1>3. Append(h, Head(q)) \in Seq(AnyResult)
  BY <1>0, <1>2
<1>4. IsQueue(sensitivityQueue', AnyResult)
  <2>1. Len(Tail(q)) <= Capacity
    BY <1>0, <1>2
  <2>2. sensitivityQueue' \in [items : Seq(AnyResult), dropped : Nat]
    BY <1>0, <1>1, <1>2
  <2> QED  BY <1>1, <2>1, <2>2 DEF IsQueue
<1>5. Append(h, Head(q)) \o Tail(q) = h \o q
  <2>1. /\ Append(h, Head(q)) \o Tail(q) \in Seq(AnyResult) /\ h \o q \in Seq(AnyResult)
        /\ Len(Append(h, Head(q)) \o Tail(q)) = Len(h \o q)
    BY <1>0, <1>2, <1>3
  <2>2. ASSUME NEW i \in 1..Len(h \o q) PROVE (Append(h, Head(q)) \o Tail(q))[i] = (h \o q)[i]
    BY <1>0, <1>2, <1>3, <2>2
  <2> QED  BY <2>1, <2>2, SeqEqual
<1> QED  BY <1>1, <1>3, <1>4, <1>5 DEF Delivered

-----------------------------------------------------------------------------
(* The steps *)

LEMMA ServiceStart == Init => ServiceInv
<1> SUFFICES ASSUME Init PROVE ServiceInv
  OBVIOUS
<1>0. <<>> \in Seq(AnyResult) /\ Len(<<>>) = 0 /\ sensitivityQueue = [items |-> <<>>, dropped |-> 0] /\ handled = <<>>
  BY DEF Init, EmptyQueue
<1>1. pc["worker"] = "top" /\ pc["auto"] = "sleep" /\ pc \in [Analysts -> Points] /\ analysisMutex = NoOne
  BY DEF Init, Points, Analysts
<1>2. BaseInv
  <2>1. IsQueue(sensitivityQueue, AnyResult)
    BY <1>0, CapacityAssumption DEF IsQueue
  <2>2. next \in [Analysts -> 1..Steps + 1] /\ analysis \in [Analysts -> Nat]
    BY StepsAssumption DEF Init
  <2>4. {g_running, running, alarmUp, simulation} \subseteq BOOLEAN
    BY Zenon DEF Init
  <2>3. /\ tasks \in Nat /\ scheduled \in Nat /\ discarded \in Nat /\ ran \in Nat /\ analyses \in Nat
        /\ scheduled <= MaxTasks /\ rounds \in 0..MaxRounds /\ main = "serve"
    BY BoundsAssumption DEF Init
  <2> QED  BY <1>0, <1>1, <2>1, <2>2, <2>3, <2>4 DEF BaseInv, WorkerPoints, AutoPoints, NoOne
<1>3. LockInv
  BY <1>1 DEF Init, LockInv, Holding, Analysts, NoOne
<1>4. TasksAccounted /\ CountInv
  BY <1>1 DEF Init, TasksAccounted, Busy, CountInv, Begun, Owed, Holding
<1>5. Delivered = <<>>
  BY <1>0 DEF Delivered
<1>6. OrderInv
  BY <1>5 DEF OrderInv, ScansNotMixed
<1>7. ResultsAccounted
  <2>1. Len(Delivered) + sensitivityQueue.dropped = 0
    BY <1>0, <1>5
  <2>2. Pending("worker") = 0 /\ Pending("auto") = 0
    <3>1. pc["worker"] # "push" /\ pc["worker"] # "release" /\ pc["auto"] # "push" /\ pc["auto"] # "release"
      BY <1>1
    <3> QED  BY <3>1, Zenon DEF Pending
  <2>3. Scanned = 0 /\ Repeated = 0 /\ ran = 0
    <3>1. rounds = 0 /\ ran = 0
      BY DEF Init
    <3>2. pc["auto"] \notin {"analyze", "push", "release"} /\ pc["auto"] \notin {"analyze", "push", "release", "repeat"}
      BY <1>1
    <3>3. Scanned = 0 - 0 /\ Repeated = 0 - 0
      BY <3>1, <3>2, Zenon DEF Scanned, Repeated
    <3> QED  BY <3>1, <3>3
  <2> QED  BY <2>1, <2>2, <2>3, StepsAssumption DEF ResultsAccounted
<1> QED  BY <1>2, <1>3, <1>4, <1>6, <1>7 DEF ServiceInv

(* The steps of the service that leave the analyses and the results alone. *)
Aside == Schedule \/ WorkerTop \/ WorkerWake \/ AutoSleep \/ Signal \/ Main \/ UNCHANGED vars

LEMMA StepsOf ==
    [Next]_vars => \/ Aside \/ AlarmPop \/ AutoRepeat \/ AutoRange
                   \/ \E t \in Analysts : Analyze(t) \/ PushResult(t) \/ Release(t)
<1> SUFFICES ASSUME [Next]_vars
             PROVE  \/ Aside \/ AlarmPop \/ AutoRepeat \/ AutoRange
                    \/ \E t \in Analysts : Analyze(t) \/ PushResult(t) \/ Release(t)
  OBVIOUS
<1>0. "worker" \in Analysts /\ "auto" \in Analysts
  BY DEF Analysts
<1>1. CASE Worker
  BY <1>0, <1>1, Zenon DEF Worker, Aside
<1>2. CASE AutoThread
  BY <1>0, <1>2, Zenon DEF AutoThread, Aside
<1>3. CASE Schedule \/ AlarmPop \/ Signal \/ Main \/ Ended \/ UNCHANGED vars
  BY <1>3 DEF Aside, Ended
<1> QED  BY <1>1, <1>2, <1>3 DEF Next

LEMMA AsideKeeps ==
    Aside => UNCHANGED <<engineVars, sensitivityQueue, handled, ran, Delivered>>
BY DEF Aside, Schedule, WorkerTop, WorkerWake, AutoSleep, Signal, Main, MainJoinAuto, MainStop, MainClear,
       MainJoinWorker, MainStopAlarm, taskVars, vars, Delivered

LEMMA BaseStep == ASSUME BaseInv, LockInv, TasksAccounted, [Next]_vars PROVE BaseInv'
<1> USE DEF engineVars, taskVars, Analysts
<1>1. CASE Aside
  <2>1. CASE Schedule
    BY <2>1, BoundsAssumption DEF Schedule, BaseInv
  <2>2. CASE WorkerTop \/ WorkerWake
    BY <2>2 DEF WorkerTop, WorkerWake, BaseInv, WorkerPoints, Points
  <2>3. CASE AutoSleep
    BY <2>3, BoundsAssumption DEF AutoSleep, BaseInv, AutoPoints, Points
  <2>4. CASE Signal \/ Main
    <3>1. CASE MainClear
      BY <3>1 DEF MainClear, BaseInv
    <3>2. CASE Signal \/ MainJoinAuto \/ MainStop \/ MainJoinWorker \/ MainStopAlarm
      BY <3>2 DEF Signal, MainJoinAuto, MainStop, MainJoinWorker, MainStopAlarm, BaseInv
    <3> QED  BY <2>4, <3>1, <3>2 DEF Main
  <2>5. CASE UNCHANGED vars
    BY <2>5 DEF vars, BaseInv
  <2> QED  BY <1>1, <2>1, <2>2, <2>3, <2>4, <2>5 DEF Aside
<1>2. CASE AlarmPop
  <2>1. UNCHANGED <<g_running, running, taskVars, pc, engineVars, rounds, alarmUp, main>>
    BY <1>2 DEF AlarmPop
  <2> QED  BY <1>2, <2>1, PopDelivers DEF BaseInv
<1>3. CASE AutoRepeat
  <2>1. Result(analysis["auto"], Steps \div 2 + 1, "auto") \in AnyResult
    BY ResultType, MiddleStep DEF BaseInv, Types
  <2>2. IsQueue(sensitivityQueue', AnyResult)
    BY <1>3, <2>1, PushDelivers DEF AutoRepeat
  <2> QED  BY <1>3, <2>2 DEF AutoRepeat, BaseInv, AutoPoints, Points
<1>4. CASE AutoRange
  BY <1>4 DEF AutoRange, BaseInv, AutoPoints, Points
<1>5. ASSUME NEW t \in Analysts, Analyze(t) PROVE BaseInv'
  BY <1>5, StepsAssumption DEF Analyze, BaseInv, WorkerPoints, AutoPoints, Points
<1>6. ASSUME NEW t \in Analysts, PushResult(t) PROVE BaseInv'
  <2>1. next[t] \in 1..Steps /\ analysis[t] \in Nat
    BY <1>6, StepsAssumption DEF PushResult, BaseInv, LockInv
  <2>2. Result(analysis[t], next[t], "scan") \in AnyResult
    BY <2>1, ResultType DEF Types
  <2>3. IsQueue(sensitivityQueue', AnyResult)
    BY <1>6, <2>2, PushDelivers DEF PushResult
  <2>4. next' \in [Analysts -> 1..Steps + 1]
    BY <1>6, <2>1, StepsAssumption DEF PushResult, BaseInv
  <2> QED  BY <1>6, <2>3, <2>4 DEF PushResult, BaseInv, WorkerPoints, AutoPoints, Points
<1>7. ASSUME NEW t \in Analysts, Release(t) PROVE BaseInv'
  BY <1>7 DEF Release, BaseInv, WorkerPoints, AutoPoints, Points
<1> QED  BY <1>1, <1>2, <1>3, <1>4, <1>5, <1>6, <1>7, StepsOf

LEMMA LockStep == ASSUME BaseInv, LockInv, [Next]_vars PROVE LockInv'
<1> USE DEF engineVars, Analysts, LockInv, Holding, NoOne
<1>1. CASE Aside
  <2>1. UNCHANGED engineVars
    BY <1>1, AsideKeeps
  <2>2. \A t \in Analysts : (pc'[t] \in {"push", "release", "repeat"} \/ pc[t] \in {"push", "release"}) => pc'[t] = pc[t]
    BY <1>1 DEF Aside, Schedule, WorkerTop, WorkerWake, AutoSleep, Signal, Main, MainJoinAuto, MainStop, MainClear,
                MainJoinWorker, MainStopAlarm, vars, BaseInv
  <2> QED  BY <2>1, <2>2
<1>2. CASE AlarmPop
  BY <1>2 DEF AlarmPop
<1>3. CASE AutoRepeat
  BY <1>3 DEF AutoRepeat, BaseInv
<1>4. CASE AutoRange
  BY <1>4 DEF AutoRange, BaseInv
<1>5. ASSUME NEW t \in Analysts, Analyze(t) PROVE LockInv'
  BY <1>5, StepsAssumption DEF Analyze, BaseInv
<1>6. ASSUME NEW t \in Analysts, PushResult(t) PROVE LockInv'
  BY <1>6, StepsAssumption DEF PushResult, BaseInv
<1>7. ASSUME NEW t \in Analysts, Release(t) PROVE LockInv'
  BY <1>7 DEF Release, BaseInv
<1> QED  BY <1>1, <1>2, <1>3, <1>4, <1>5, <1>6, <1>7, StepsOf

(* How a step moves the terms of the two sums.                             *)
LEMMA TasksStep == ASSUME BaseInv, TasksAccounted, CountInv, LockInv, [Next]_vars PROVE TasksAccounted' /\ CountInv'
<1> DEFINE InTask == IF Busy THEN 1 ELSE 0
<1>0. /\ scheduled = tasks + discarded + ran + InTask /\ analyses + Owed = ran + Begun + 2 * rounds
      /\ tasks \in Nat /\ scheduled \in Nat /\ discarded \in Nat /\ ran \in Nat /\ rounds \in Nat /\ analyses \in Nat
      /\ pc \in [Analysts -> Points] /\ pc["worker"] \in WorkerPoints /\ pc["auto"] \in AutoPoints
      /\ Owed \in 0..2 /\ Begun \in 0..1 /\ InTask \in 0..1
  <2>1. Owed \in 0..2 /\ Begun \in 0..1 /\ InTask \in 0..1
    BY DEF Owed, Begun
  <2> QED  BY <2>1, BoundsAssumption DEF BaseInv, TasksAccounted, CountInv
<1>a. ASSUME scheduled' = tasks' + discarded' + ran' + InTask', analyses' + Owed' = ran' + Begun' + 2 * rounds'
      PROVE  TasksAccounted' /\ CountInv'
  BY <1>a DEF TasksAccounted, CountInv
<1>b. ASSUME pc' = pc PROVE InTask' = InTask /\ Owed' = Owed /\ Begun' = Begun
  BY <1>b DEF Busy, Owed, Begun, Holding
<1>c. ASSUME NEW to, pc' = [pc EXCEPT !["worker"] = to] PROVE Owed' = Owed
  BY <1>0, <1>c DEF Owed, Analysts
<1>d. ASSUME NEW to, pc' = [pc EXCEPT !["auto"] = to] PROVE InTask' = InTask /\ Begun' = Begun
  BY <1>0, <1>d DEF Busy, Begun, Holding, Analysts
<1> USE DEF engineVars, taskVars
<1>1. CASE Schedule
  BY <1>0, <1>a, <1>b, <1>1 DEF Schedule
<1>2. CASE WorkerTop
  <2>1. InTask' = InTask /\ Begun' = Begun
    BY <1>0, <1>2 DEF WorkerTop, Busy, Begun, Holding, Analysts
  <2>2. Owed' = Owed
    BY <1>0, <1>2 DEF WorkerTop, Owed, Analysts
  <2> QED  BY <1>0, <1>a, <1>2, <2>1, <2>2 DEF WorkerTop
<1>3. CASE WorkerWake
  <2>1. Begun' = Begun
    BY <1>0, <1>3 DEF WorkerWake, Begun, Holding, Analysts
  <2>2. Owed' = Owed
    BY <1>0, <1>3 DEF WorkerWake, Owed, Analysts
  <2>3. UNCHANGED <<scheduled, discarded, ran, analyses, rounds>>
    BY <1>3 DEF WorkerWake
  <2>4. analyses' + Owed' = ran' + Begun' + 2 * rounds'
    BY <1>0, <2>1, <2>2, <2>3
  <2>5. scheduled' = tasks' + discarded' + ran' + InTask'
    <3>1. scheduled' = scheduled /\ discarded' = discarded /\ ran' = ran
      BY <2>3
    <3>2. pc["worker"] = "wait" /\ ~Busy
      BY <1>3 DEF WorkerWake, Busy
    <3>3. \/ tasks' = tasks - 1 /\ pc' = [pc EXCEPT !["worker"] = "analyze"]
          \/ tasks' = tasks /\ pc' = [pc EXCEPT !["worker"] = IF running THEN "top" ELSE "stopped"]
      BY <1>3, Zenon DEF WorkerWake
    <3>4. scheduled = tasks + discarded + ran
      BY <1>0, <3>2
    <3>5. CASE tasks' = tasks - 1 /\ pc' = [pc EXCEPT !["worker"] = "analyze"]
      <4>0. pc'["worker"] = "analyze"
        BY <1>0, <3>5 DEF Analysts
      <4>1. InTask' = 1
        BY <4>0 DEF Busy
      <4>2. scheduled = tasks' + discarded + ran + 1
        BY <1>0, <3>4, <3>5
      <4> QED  BY <3>1, <4>1, <4>2
    <3>6. CASE tasks' = tasks /\ pc' = [pc EXCEPT !["worker"] = IF running THEN "top" ELSE "stopped"]
      <4>0. pc'["worker"] = "top" \/ pc'["worker"] = "stopped"
        BY <1>0, <3>6 DEF Analysts
      <4>1. InTask' = 0
        BY <4>0 DEF Busy
      <4>2. scheduled = tasks' + discarded + ran + 0
        BY <1>0, <3>4, <3>6
      <4> QED  BY <3>1, <4>1, <4>2
    <3> QED  BY <3>3, <3>5, <3>6
  <2> QED  BY <1>a, <2>4, <2>5
<1>4. CASE AutoSleep
  <2>1. pc["auto"] = "sleep" /\ Owed = 0
    BY <1>4 DEF AutoSleep, Owed
  <2>3. CASE rounds' = rounds + 1 /\ pc' = [pc EXCEPT !["auto"] = "analyze"]
    <3>0. pc'["auto"] = "analyze"
      BY <1>0, <2>3 DEF Analysts
    <3>1. Owed' = 2
      BY <3>0 DEF Owed
    <3>2. InTask' = InTask /\ Begun' = Begun
      BY <1>d, <2>3
    <3> QED  BY <1>0, <1>a, <1>4, <2>1, <2>3, <3>1, <3>2 DEF AutoSleep
  <2>4. CASE rounds' = rounds /\ pc' = [pc EXCEPT !["auto"] = "stopped"]
    <3>0. pc'["auto"] = "stopped"
      BY <1>0, <2>4 DEF Analysts
    <3>1. Owed' = 0
      BY <3>0 DEF Owed
    <3>2. InTask' = InTask /\ Begun' = Begun
      BY <1>d, <2>4
    <3> QED  BY <1>0, <1>a, <1>4, <2>1, <2>4, <3>1, <3>2 DEF AutoSleep
  <2> QED  BY <1>4, <2>3, <2>4 DEF AutoSleep
<1>5. CASE MainClear
  BY <1>0, <1>a, <1>b, <1>5 DEF MainClear
<1>6. CASE MainJoinAuto \/ MainStop \/ MainJoinWorker \/ MainStopAlarm \/ Signal \/ AlarmPop \/ UNCHANGED vars
  <2>1. UNCHANGED <<pc, taskVars, analyses, rounds>>
    BY <1>6 DEF MainJoinAuto, MainStop, MainJoinWorker, MainStopAlarm, Signal, AlarmPop, vars
  <2> QED  BY <1>0, <1>a, <1>b, <2>1
<1>7. CASE AutoRepeat
  <2>1. Owed' = Owed
    BY <1>0, <1>7 DEF AutoRepeat, Owed, Analysts
  <2> QED  BY <1>0, <1>a, <1>d, <1>7, <2>1 DEF AutoRepeat
<1>8. CASE AutoRange
  <2>1. Owed' = Owed - 1
    BY <1>0, <1>8 DEF AutoRange, Owed, Analysts
  <2>2. InTask' = InTask /\ Begun' = Begun
    BY <1>d, <1>8 DEF AutoRange
  <2> QED  BY <1>0, <1>a, <1>8, <2>1, <2>2 DEF AutoRange
<1>9. ASSUME Analyze("worker") PROVE TasksAccounted' /\ CountInv'
  <2>1. InTask' = InTask /\ Begun' = Begun + 1
    BY <1>0, <1>9 DEF Analyze, Busy, Begun, Holding, Analysts
  <2>2. Owed' = Owed
    BY <1>c, <1>9 DEF Analyze
  <2> QED  BY <1>0, <1>a, <1>9, <2>1, <2>2 DEF Analyze
<1>10. ASSUME Analyze("auto") PROVE TasksAccounted' /\ CountInv'
  <2>1. Owed' = Owed - 1
    BY <1>0, <1>10 DEF Analyze, Owed, Analysts
  <2>2. InTask' = InTask /\ Begun' = Begun
    BY <1>d, <1>10 DEF Analyze
  <2> QED  BY <1>0, <1>a, <1>10, <2>1, <2>2 DEF Analyze
<1>11. ASSUME NEW t \in Analysts, PushResult(t) PROVE TasksAccounted' /\ CountInv'
  <2>1. InTask' = InTask /\ Begun' = Begun /\ Owed' = Owed
    BY <1>0, <1>11 DEF PushResult, Busy, Begun, Owed, Holding, Analysts
  <2> QED  BY <1>0, <1>a, <1>11, <2>1 DEF PushResult
<1>12. ASSUME Release("worker") PROVE TasksAccounted' /\ CountInv'
  <2>1. InTask' = InTask - 1 /\ Begun' = Begun - 1
    BY <1>0, <1>12 DEF Release, Busy, Begun, Holding, Analysts
  <2>2. Owed' = Owed
    BY <1>c, <1>12 DEF Release
  <2> QED  BY <1>0, <1>a, <1>12, <2>1, <2>2 DEF Release
<1>13. ASSUME Release("auto") PROVE TasksAccounted' /\ CountInv'
  <2>1. Owed' = Owed
    BY <1>0, <1>13 DEF Release, Owed, Analysts
  <2>2. InTask' = InTask /\ Begun' = Begun
    BY <1>d, <1>13 DEF Release
  <2> QED  BY <1>0, <1>a, <1>13, <2>1, <2>2 DEF Release
<1> QED
  BY <1>1, <1>2, <1>3, <1>4, <1>5, <1>6, <1>7, <1>8, <1>9, <1>10, <1>11, <1>12, <1>13, StepsOf DEF Aside, Main, Analysts

(* The delivered results after a push: only the last may be new.           *)
LEMMA PushInOrder ==
    ASSUME BaseInv, BaseInv', ScansNotMixed, NEW r \in AnyResult,
           sensitivityQueue' = Push(sensitivityQueue, r), handled' = handled,
           Scan(r) => \A i \in DOMAIN Delivered : Before(Delivered[i], r.analysis, r.step)
    PROVE  ScansNotMixed'
<1> SUFFICES ASSUME NEW i \in DOMAIN Delivered', NEW j \in DOMAIN Delivered', i < j, Scan(Delivered'[j])
             PROVE  Before(Delivered'[i], Delivered'[j].analysis, Delivered'[j].step)
  BY DEF ScansNotMixed, Before, Scan
<1>1. i \in Int /\ j \in Int
  BY DEF Delivered, BaseInv, IsQueue
<1>2. i \in DOMAIN Delivered /\ Delivered'[i] = Delivered[i]
  BY <1>1, PushDelivers
<1>3. CASE j \in DOMAIN Delivered /\ Delivered'[j] = Delivered[j]
  BY <1>2, <1>3 DEF ScansNotMixed, Before, Scan
<1>4. CASE Delivered'[j] = r
  BY <1>2, <1>4 DEF Scan
<1> QED  BY <1>3, <1>4, PushDelivers

LEMMA OrderStep == ASSUME BaseInv, BaseInv', LockInv, LockInv', OrderInv, [Next]_vars PROVE OrderInv'
<1>0. /\ pc \in [Analysts -> Points] /\ analysis \in [Analysts -> Nat] /\ analyses \in Nat
      /\ next \in [Analysts -> 1..Steps + 1] /\ Steps \in Nat
      /\ \A i \in DOMAIN Delivered : Delivered[i] \in AnyResult
  <2>1. handled \in Seq(AnyResult) /\ sensitivityQueue.items \in Seq(AnyResult)
    BY DEF BaseInv, IsQueue
  <2>2. Delivered \in Seq(AnyResult)
    BY <2>1 DEF Delivered
  <2>3. ASSUME NEW i \in DOMAIN Delivered PROVE Delivered[i] \in AnyResult
    <3> DEFINE D == Delivered
    <3> HIDE DEF D
    <3>1. D \in Seq(AnyResult) /\ i \in DOMAIN D
      BY <2>2, <2>3 DEF D
    <3>2. D[i] \in AnyResult
      BY <3>1
    <3> QED  BY <3>2 DEF D
  <2> QED  BY <2>3, StepsAssumption DEF BaseInv
<1>1. CASE Aside
  <2>1. UNCHANGED <<engineVars, Delivered>>
    BY <1>1, AsideKeeps
  <2>2. \A t \in Analysts : pc'[t] = "push" => pc[t] = "push"
    BY <1>0, <1>1 DEF Aside, Schedule, WorkerTop, WorkerWake, AutoSleep, Signal, Main, MainJoinAuto, MainStop,
       MainClear, MainJoinWorker, MainStopAlarm, vars, Analysts
  <2> QED  BY <2>1, <2>2 DEF OrderInv, engineVars, ScansNotMixed
<1>2. CASE AlarmPop
  <2>1. Delivered' = Delivered /\ UNCHANGED <<engineVars, pc>>
    BY <1>2, PopDelivers DEF AlarmPop
  <2> QED  BY <2>1 DEF OrderInv, engineVars, ScansNotMixed
<1>3. CASE AutoRepeat
  <2> DEFINE r == Result(analysis["auto"], Steps \div 2 + 1, "auto")
  <2>1. r \in AnyResult /\ ~Scan(r) /\ r.analysis = analysis["auto"]
    BY <1>0, ResultType, MiddleStep DEF Types, Result, Scan, Analysts
  <2>2. sensitivityQueue' = Push(sensitivityQueue, r) /\ UNCHANGED <<engineVars, handled>>
    BY <1>3 DEF AutoRepeat
  <2>3. analysis["auto"] \in 1..analyses
    BY <1>0, <1>3 DEF AutoRepeat, LockInv, Analysts
  <2>4. ScansNotMixed'
    <3> HIDE DEF r
    <3> QED  BY <2>1, <2>2, PushInOrder DEF OrderInv
  <2>5. \A t \in Analysts : pc'[t] = "push" => t = "worker" /\ pc[t] = "push" /\ analysis["auto"] < analyses
    BY <1>0, <1>3 DEF AutoRepeat, LockInv, Holding, Analysts
  <2>6. \A i \in DOMAIN Delivered' : (i \in DOMAIN Delivered /\ Delivered'[i] = Delivered[i]) \/ Delivered'[i] = r
    <3> HIDE DEF r
    <3> QED  BY <2>1, <2>2, PushDelivers
  <2>7. \A i \in DOMAIN Delivered' : Delivered'[i].analysis \in 1..analyses'
    BY <2>1, <2>2, <2>3, <2>6 DEF OrderInv, engineVars
  <2>8. ASSUME NEW t \in Analysts, pc'[t] = "push", NEW i \in DOMAIN Delivered'
        PROVE  Before(Delivered'[i], analyses', next'[t])
    BY <2>1, <2>2, <2>5, <2>6, <2>8 DEF OrderInv, engineVars, Before
  <2> QED  BY <2>4, <2>7, <2>8 DEF OrderInv
<1>4. CASE AutoRange
  <2>1. UNCHANGED <<sensitivityQueue, handled, next, analysis>> /\ analyses' = analyses + 1
    BY <1>4 DEF AutoRange
  <2>2. Delivered' = Delivered
    BY <2>1 DEF Delivered
  <2>3. \A t \in Analysts : pc'[t] # "push"
    BY <1>0, <1>4 DEF AutoRange, LockInv, Holding, Analysts, NoOne
  <2> QED  BY <1>0, <2>1, <2>2, <2>3 DEF OrderInv, ScansNotMixed
<1>5. ASSUME NEW t \in Analysts, Analyze(t) PROVE OrderInv'
  <2>1. UNCHANGED <<sensitivityQueue, handled>> /\ analyses' = analyses + 1
    BY <1>5 DEF Analyze
  <2>2. Delivered' = Delivered
    BY <2>1 DEF Delivered
  <2>3. \A i \in DOMAIN Delivered : Delivered[i].analysis < analyses'
    BY <1>0, <2>1 DEF OrderInv
  <2> QED  BY <1>0, <2>1, <2>2, <2>3 DEF OrderInv, ScansNotMixed, Before
<1>6. ASSUME NEW t \in Analysts, PushResult(t) PROVE OrderInv'
  <2> DEFINE r == Result(analysis[t], next[t], "scan")
  <2>0. pc[t] = "push" /\ next[t] \in 1..Steps /\ analysis[t] = analyses /\ analyses > 0
    BY <1>0, <1>6 DEF PushResult, LockInv, Holding
  <2>1. r \in AnyResult /\ Scan(r) /\ r.analysis = analyses /\ r.step = next[t]
    BY <1>0, <2>0, ResultType DEF Types, Result, Scan
  <2>2. sensitivityQueue' = Push(sensitivityQueue, r) /\ UNCHANGED <<analyses, handled>>
    BY <1>6 DEF PushResult
  <2>3. next'[t] = next[t] + 1
    BY <1>0, <1>6 DEF PushResult
  <2>4. ScansNotMixed'
    <3>1. \A i \in DOMAIN Delivered : Before(Delivered[i], r.analysis, r.step)
      BY <2>0, <2>1 DEF OrderInv
    <3> HIDE DEF r
    <3> QED  BY <2>1, <2>2, <3>1, PushInOrder DEF OrderInv
  <2>5. \A u \in Analysts : pc'[u] = "push" => u = t
    BY <1>0, <1>6 DEF PushResult, LockInv, Holding
  <2>6. \A i \in DOMAIN Delivered' : (i \in DOMAIN Delivered /\ Delivered'[i] = Delivered[i]) \/ Delivered'[i] = r
    <3> HIDE DEF r
    <3> QED  BY <2>1, <2>2, PushDelivers
  <2>7. \A i \in DOMAIN Delivered' : Delivered'[i].analysis \in 1..analyses'
    <3> HIDE DEF r
    <3> QED  BY <1>0, <2>0, <2>1, <2>2, <2>6 DEF OrderInv
  <2>8. ASSUME NEW i \in DOMAIN Delivered' PROVE Before(Delivered'[i], analyses', next'[t])
    <3>1. CASE Delivered'[i] = r
      BY <1>0, <2>0, <2>1, <2>2, <2>3, <3>1 DEF Before
    <3>2. CASE i \in DOMAIN Delivered /\ Delivered'[i] = Delivered[i]
      <4>1. Before(Delivered[i], analyses, next[t]) /\ Delivered[i].step \in Int
        BY <1>0, <2>0, <3>2 DEF OrderInv, AnyResult
      <4> QED  BY <1>0, <2>0, <2>2, <2>3, <3>2, <4>1 DEF Before
    <3> QED  BY <2>6, <3>1, <3>2
  <2> QED  BY <2>4, <2>5, <2>7, <2>8 DEF OrderInv
<1>7. ASSUME NEW t \in Analysts, Release(t) PROVE OrderInv'
  <2>1. UNCHANGED <<sensitivityQueue, handled, analyses, next>>
    BY <1>7 DEF Release
  <2>2. Delivered' = Delivered
    BY <2>1 DEF Delivered
  <2>3. \A u \in Analysts : pc'[u] = "push" => pc[u] = "push"
    BY <1>0, <1>7 DEF Release, Analysts
  <2> QED  BY <2>1, <2>2, <2>3 DEF OrderInv, ScansNotMixed
<1> QED  BY <1>1, <1>2, <1>3, <1>4, <1>5, <1>6, <1>7, StepsOf

(* How a step moves the two sides of the sum.                              *)
LEMMA ResultsStep == ASSUME BaseInv, BaseInv', LockInv, ResultsAccounted, [Next]_vars PROVE ResultsAccounted'
<1> DEFINE Given == Len(Delivered) + sensitivityQueue.dropped
           Whole == ran + Scanned
           Part == Pending("worker") + Pending("auto")
<1>0. /\ Given = Steps * Whole + Repeated + Pending("worker") + Pending("auto") /\ Given \in Nat
      /\ Steps \in Nat \ {0} /\ ran \in Nat /\ rounds \in Nat
      /\ pc \in [Analysts -> Points] /\ pc["worker"] \in WorkerPoints /\ pc["auto"] \in AutoPoints
      /\ next \in [Analysts -> 1..Steps + 1]
  <2>1. handled \in Seq(AnyResult) /\ sensitivityQueue.items \in Seq(AnyResult) /\ sensitivityQueue.dropped \in Nat
    BY DEF BaseInv, IsQueue
  <2>2. Len(Delivered) \in Nat
    BY <2>1 DEF Delivered
  <2>3. Given = Steps * Whole + Repeated + Pending("worker") + Pending("auto")
    BY Zenon DEF ResultsAccounted
  <2>4. Given \in Nat
    BY <2>1, <2>2
  <2>5. /\ Steps \in Nat \ {0} /\ ran \in Nat /\ rounds \in Nat
        /\ pc \in [Analysts -> Points] /\ pc["worker"] \in WorkerPoints /\ pc["auto"] \in AutoPoints
        /\ next \in [Analysts -> 1..Steps + 1]
    <3>1. rounds \in Nat
      BY BoundsAssumption DEF BaseInv
    <3> QED  BY <3>1, StepsAssumption DEF BaseInv
  <2> QED  BY <2>3, <2>4, <2>5
<1>1. /\ Scanned \in Int /\ Repeated \in Int /\ Pending("worker") \in Int /\ Pending("auto") \in Int
      /\ Whole \in Int /\ Part \in Int
  <2>1. Scanned \in Int /\ Repeated \in Int
    BY <1>0 DEF Scanned, Repeated
  <2>2. Pending("worker") \in Int /\ Pending("auto") \in Int
    BY <1>0 DEF Pending, Analysts
  <2> QED  BY <1>0, <2>1, <2>2
<1>s. Given = Steps * Whole + Repeated + Part
  BY <1>0, <1>1
<1>p. /\ Scanned' \in Int /\ Repeated' \in Int /\ Pending("worker")' \in Int /\ Pending("auto")' \in Int
      /\ Whole' \in Int /\ Part' \in Int
  <2>1. ran' \in Nat /\ rounds' \in Int /\ Steps \in Int /\ next' \in [Analysts -> 1..Steps + 1]
    BY StepsAssumption DEF BaseInv
  <2> QED  BY <2>1 DEF Scanned, Repeated, Pending, Analysts
<1>a. ASSUME Given' = Steps * Whole' + Repeated' + Part' PROVE ResultsAccounted'
  <2>1. Steps * Whole' \in Int
    <3> HIDE DEF Whole
    <3> QED  BY <1>0, <1>p
  <2>2. Given' = Steps * Whole' + Repeated' + Pending("worker")' + Pending("auto")'
    <3> DEFINE W == Steps * Whole'
    <3> HIDE DEF W
    <3>1. W + Repeated' + (Pending("worker")' + Pending("auto")') = W + Repeated' + Pending("worker")' + Pending("auto")'
      BY <1>p, <2>1 DEF W
    <3> QED  BY <1>a, <3>1 DEF W
  <2> QED  BY <2>2 DEF ResultsAccounted
<1>k. ASSUME Given' = Given, Whole' = Whole, Repeated' = Repeated, Part' = Part PROVE ResultsAccounted'
  <2> HIDE DEF Given, Whole, Part
  <2> QED  BY <1>s, <1>a, <1>k
<1>b. Steps * (Whole + 1) = Steps * Whole + Steps
  BY <1>0, <1>1
<1>c. ASSUME UNCHANGED <<sensitivityQueue, handled>> PROVE Given' = Given
  BY <1>c DEF Delivered
<1>d. ASSUME NEW t \in Analysts, UNCHANGED <<pc, next>> PROVE Pending(t)' = Pending(t)
  BY <1>d DEF Pending
<1>e. ASSUME UNCHANGED <<pc, rounds>> PROVE Scanned' = Scanned /\ Repeated' = Repeated
  BY <1>e DEF Scanned, Repeated
<1> USE DEF engineVars, taskVars
<1>2. CASE AutoSleep
  <2>1. pc["auto"] = "sleep" /\ UNCHANGED <<sensitivityQueue, handled, ran, next>> /\ pc'["worker"] = pc["worker"]
    BY <1>0, <1>2 DEF AutoSleep, Analysts
  <2>2. Scanned = rounds /\ Repeated = rounds /\ Pending("auto") = 0
    BY <1>0, <2>1 DEF Scanned, Repeated, Pending
  <2>3. Scanned' = rounds /\ Repeated' = rounds /\ Pending("auto")' = 0
    <3>1. \/ pc'["auto"] = "analyze" /\ rounds' = rounds + 1
          \/ pc'["auto"] = "stopped" /\ rounds' = rounds
      BY <1>0, <1>2 DEF AutoSleep, Analysts
    <3> QED  BY <1>0, <3>1 DEF Scanned, Repeated, Pending
  <2>4. Pending("worker")' = Pending("worker")
    BY <2>1 DEF Pending
  <2>5. Whole' = Whole /\ Repeated' = Repeated /\ Part' = Part
    BY <2>1, <2>2, <2>3, <2>4
  <2> QED  BY <1>c, <1>k, <2>1, <2>5
<1>3. CASE WorkerTop \/ WorkerWake
  <2>1. /\ pc["worker"] \notin {"push", "release"} /\ pc'["worker"] \notin {"push", "release"}
        /\ pc'["auto"] = pc["auto"] /\ UNCHANGED <<sensitivityQueue, handled, ran, next, rounds>>
    BY <1>0, <1>3 DEF WorkerTop, WorkerWake, Analysts
  <2>2. Pending("worker") = 0 /\ Pending("worker")' = 0 /\ Pending("auto")' = Pending("auto")
    BY <2>1 DEF Pending
  <2>3. Scanned' = Scanned /\ Repeated' = Repeated
    BY <2>1 DEF Scanned, Repeated
  <2> QED  BY <1>c, <1>k, <2>1, <2>2, <2>3
<1>4. CASE Schedule \/ Signal \/ Main \/ AlarmPop \/ UNCHANGED vars
  <2>1. UNCHANGED <<pc, next, rounds, ran>>
    BY <1>4 DEF Schedule, Signal, Main, MainJoinAuto, MainStop, MainClear, MainJoinWorker, MainStopAlarm, AlarmPop, vars
  <2>2. Given' = Given
    <3>1. CASE AlarmPop
      BY <3>1, PopDelivers
    <3>2. CASE Schedule \/ Signal \/ Main \/ UNCHANGED vars
      BY <1>c, <3>2 DEF Schedule, Signal, Main, MainJoinAuto, MainStop, MainClear, MainJoinWorker, MainStopAlarm, vars
    <3> QED  BY <1>4, <3>1, <3>2
  <2>3. Part' = Part
    BY <1>d, <2>1 DEF Analysts
  <2> QED  BY <1>k, <1>e, <2>1, <2>2, <2>3
<1>5. CASE AutoRepeat
  <2> DEFINE r == Result(analysis["auto"], Steps \div 2 + 1, "auto")
  <2>1. Given' = Given + 1
    <3>1. r \in AnyResult
      BY ResultType, MiddleStep DEF BaseInv, Types, Analysts
    <3>2. sensitivityQueue' = Push(sensitivityQueue, r) /\ handled' = handled
      BY <1>5 DEF AutoRepeat
    <3> HIDE DEF r
    <3> QED  BY <3>1, <3>2, PushDelivers
  <2>2. /\ pc["auto"] = "repeat" /\ pc'["auto"] = "range" /\ pc'["worker"] = pc["worker"]
        /\ UNCHANGED <<ran, next, rounds>>
    BY <1>0, <1>5 DEF AutoRepeat, Analysts
  <2>3. Part' = Part
    BY <2>2 DEF Pending
  <2>4. Scanned' = Scanned /\ Repeated' = Repeated + 1
    BY <1>0, <2>2 DEF Scanned, Repeated
  <2>z. Given' = Steps * Whole' + Repeated' + Part'
    <3> HIDE DEF Given, Part
    <3> QED  BY <1>0, <1>1, <1>s, <2>1, <2>2, <2>3, <2>4
  <2> QED  BY <1>a, <2>z
<1>6. CASE AutoRange
  <2>1. /\ pc["auto"] = "range" /\ pc'["auto"] \in {"sleep", "stopped"} /\ pc'["worker"] = pc["worker"]
        /\ UNCHANGED <<sensitivityQueue, handled, ran, next, rounds>>
    BY <1>0, <1>6 DEF AutoRange, Analysts
  <2>2. Part' = Part
    BY <2>1 DEF Pending
  <2>3. Scanned' = Scanned /\ Repeated' = Repeated
    BY <2>1 DEF Scanned, Repeated
  <2> QED  BY <1>c, <1>k, <2>1, <2>2, <2>3
<1>7. ASSUME NEW t \in Analysts, Analyze(t) PROVE ResultsAccounted'
  <2>1. /\ pc[t] = "analyze" /\ pc'[t] = "push" /\ next'[t] = 1
        /\ \A u \in Analysts \ {t} : pc'[u] = pc[u] /\ next'[u] = next[u]
        /\ UNCHANGED <<sensitivityQueue, handled, ran, rounds>>
    BY <1>0, <1>7 DEF Analyze
  <2>2. \A u \in Analysts : Pending(u)' = Pending(u)
    BY <2>1 DEF Pending
  <2>3. Scanned' = Scanned /\ Repeated' = Repeated
    BY <2>1 DEF Scanned, Repeated, Analysts
  <2>4. Part' = Part
    BY <2>2 DEF Analysts
  <2> QED  BY <1>c, <1>k, <2>1, <2>3, <2>4
<1>8. ASSUME NEW t \in Analysts, PushResult(t) PROVE ResultsAccounted'
  <2> DEFINE r == Result(analysis[t], next[t], "scan")
  <2>0. pc[t] = "push" /\ next[t] \in 1..Steps
    BY <1>0, <1>8 DEF PushResult, LockInv
  <2>1. Given' = Given + 1
    <3>1. r \in AnyResult
      BY <2>0, ResultType DEF BaseInv, Types
    <3>2. sensitivityQueue' = Push(sensitivityQueue, r) /\ handled' = handled
      BY <1>8 DEF PushResult
    <3> HIDE DEF r
    <3> QED  BY <3>1, <3>2, PushDelivers
  <2>2. /\ next'[t] = next[t] + 1 /\ pc'[t] = IF next[t] + 1 > Steps THEN "release" ELSE "push"
        /\ \A u \in Analysts \ {t} : pc'[u] = pc[u] /\ next'[u] = next[u]
        /\ UNCHANGED <<ran, rounds>>
    BY <1>0, <1>8 DEF PushResult
  <2>3. Pending(t)' = Pending(t) + 1 /\ \A u \in Analysts \ {t} : Pending(u)' = Pending(u)
    BY <1>0, <2>0, <2>2 DEF Pending
  <2>4. Scanned' = Scanned /\ Repeated' = Repeated
    BY <2>0, <2>2 DEF Scanned, Repeated, Analysts
  <2>5. Part' = Part + 1
    BY <1>1, <2>3 DEF Analysts
  <2>z. Given' = Steps * Whole' + Repeated' + Part'
    <3> HIDE DEF Given, Part
    <3> QED  BY <1>0, <1>1, <1>s, <2>1, <2>2, <2>4, <2>5
  <2> QED  BY <1>a, <2>z
<1>9. CASE Release("worker")
  <2>1. /\ pc["worker"] = "release" /\ pc'["worker"] = "top" /\ pc'["auto"] = pc["auto"] /\ ran' = ran + 1
        /\ UNCHANGED <<sensitivityQueue, handled, next, rounds>>
    BY <1>0, <1>9 DEF Release, Analysts
  <2>2. Pending("worker") = Steps /\ Pending("worker")' = 0 /\ Pending("auto")' = Pending("auto")
    BY <2>1 DEF Pending
  <2>3. Scanned' = Scanned /\ Repeated' = Repeated
    BY <2>1 DEF Scanned, Repeated
  <2>4. Whole' = Whole + 1 /\ Part' = Part - Steps /\ Given' = Given
    BY <1>0, <1>1, <1>c, <2>1, <2>2, <2>3
  <2>z. Given' = Steps * Whole' + Repeated' + Part'
    <3> HIDE DEF Given, Part, Whole
    <3> QED  BY <1>0, <1>1, <1>s, <1>b, <2>3, <2>4
  <2> QED  BY <1>a, <2>z
<1>10. CASE Release("auto")
  <2>1. /\ pc["auto"] = "release" /\ pc'["auto"] = "repeat" /\ pc'["worker"] = pc["worker"] /\ ran' = ran
        /\ UNCHANGED <<sensitivityQueue, handled, next, rounds>>
    BY <1>0, <1>10 DEF Release, Analysts
  <2>2. Pending("auto") = Steps /\ Pending("auto")' = 0 /\ Pending("worker")' = Pending("worker")
    BY <2>1 DEF Pending
  <2>3. Scanned' = Scanned + 1 /\ Repeated' = Repeated
    BY <1>0, <2>1 DEF Scanned, Repeated
  <2>4. Whole' = Whole + 1 /\ Part' = Part - Steps /\ Given' = Given
    BY <1>0, <1>1, <1>c, <2>1, <2>2, <2>3
  <2>z. Given' = Steps * Whole' + Repeated' + Part'
    <3> HIDE DEF Given, Part, Whole
    <3> QED  BY <1>0, <1>1, <1>s, <1>b, <2>3, <2>4
  <2> QED  BY <1>a, <2>z
<1> QED
  BY <1>2, <1>3, <1>4, <1>5, <1>6, <1>7, <1>8, <1>9, <1>10, StepsOf DEF Aside, Analysts

-----------------------------------------------------------------------------
(* The theorems *)

LEMMA ServiceInvariant == Spec => []ServiceInv
<1>1. ASSUME ServiceInv, [Next]_vars PROVE ServiceInv'
  <2>0. BaseInv'
    BY <1>1, BaseStep DEF ServiceInv
  <2>1. BaseInv' /\ LockInv' /\ ResultsAccounted'
    BY <1>1, <2>0, LockStep, ResultsStep DEF ServiceInv
  <2>2. TasksAccounted' /\ CountInv'
    BY <1>1, TasksStep DEF ServiceInv
  <2>3. OrderInv'
    BY <1>1, <2>1, OrderStep DEF ServiceInv
  <2> QED  BY <2>1, <2>2, <2>3 DEF ServiceInv
<1> QED  BY <1>1, ServiceStart, PTL DEF Spec

LEMMA ServiceTypes == ASSUME ServiceInv PROVE TypeOK
<1> DEFINE h == handled
           q == sensitivityQueue.items
<1>0. BaseInv /\ LockInv /\ TasksAccounted /\ CountInv /\ OrderInv
  BY DEF ServiceInv
<1>1. h \in Seq(AnyResult) /\ q \in Seq(AnyResult) /\ analyses \in Nat
  BY <1>0 DEF BaseInv, IsQueue
<1>2. \A r \in AnyResult : r.analysis \in 1..analyses => r \in Results
  BY DEF AnyResult, Results, Types
<1>3. \A i \in DOMAIN (h \o q) : (h \o q)[i].analysis \in 1..analyses
  BY <1>0 DEF OrderInv, Delivered
<1>4. \A i \in 1..Len(h) : h[i] \in Results
  <2> TAKE i \in 1..Len(h)
  <2>1. i \in DOMAIN (h \o q) /\ (h \o q)[i] = h[i] /\ h[i] \in AnyResult
    BY <1>1
  <2> QED  BY <1>2, <1>3, <2>1
<1>5. \A i \in 1..Len(q) : q[i] \in Results
  <2> TAKE i \in 1..Len(q)
  <2>0. q[i] \in AnyResult
    BY <1>1
  <2> HIDE DEF h, q
  <2>1. Len(h) + i \in DOMAIN (h \o q) /\ (h \o q)[Len(h) + i] = q[i] /\ q[i] \in AnyResult
    BY <1>1, <2>0
  <2> QED  BY <1>2, <1>3, <2>1
<1>6. h \in Seq(Results) /\ q \in Seq(Results)
  BY <1>1, <1>4, <1>5, SeqDef
<1>7. IsQueue(sensitivityQueue, Results)
  BY <1>0, <1>6 DEF BaseInv, IsQueue
<1>8. /\ tasks \in Nat /\ discarded \in Nat /\ ran \in Nat /\ scheduled \in Nat /\ rounds \in Nat
      /\ rounds <= MaxRounds /\ scheduled <= MaxTasks /\ MaxTasks \in Nat /\ MaxRounds \in Nat
  BY <1>0, BoundsAssumption DEF BaseInv
<1>9. {tasks, discarded, ran} \subseteq 0..scheduled
  BY <1>0, <1>8 DEF TasksAccounted
<1>10. analyses \in 0..MaxTasks + 2 * MaxRounds
  <2>1. Owed \in 0..2 /\ analyses + Owed = ran + Begun + 2 * rounds
    BY <1>0 DEF Owed, CountInv
  <2>2. ran + Begun <= scheduled /\ Begun \in 0..1
    BY <1>0, <1>8 DEF TasksAccounted, Busy, Begun, Holding
  <2> QED  BY <1>1, <1>8, <2>1, <2>2
<1>11. analysis \in [Analysts -> 0..analyses]
  BY <1>0, <1>1 DEF BaseInv, LockInv
<1> QED  BY <1>0, <1>6, <1>7, <1>8, <1>9, <1>10, <1>11 DEF BaseInv, TypeOK

(* Every variable keeps its type, and results come from analyses that were *)
(* counted (sensitivity_analyzer.cpp).                                     *)
THEOREM TypeCorrect == Spec => []TypeOK
<1>1. ServiceInv => TypeOK
  BY ServiceTypes
<1> QED  BY <1>1, ServiceInvariant, PTL

(* A task is run once or thrown away by stop(), whatever the worker and    *)
(* the thread that stops it do.                                            *)
THEOREM TasksAccountedTheorem == Spec => []TasksAccounted
BY ServiceInvariant, PTL DEF ServiceInv

(* Results of two analyses are never mixed on the queue both threads push. *)
THEOREM ScansNotMixedTheorem == Spec => []ScansNotMixed
BY ServiceInvariant, PTL DEF ServiceInv, OrderInv

(* Every result of every analysis is delivered or counted as dropped.      *)
THEOREM ResultsAccountedTheorem == Spec => []ResultsAccounted
BY ServiceInvariant, PTL DEF ServiceInv

-----------------------------------------------------------------------------
(* The end of the service *)

(* What main has seen ended, it has waited for, and a thread that has      *)
(* ended does not begin again.                                             *)
ExitInv ==
    /\ pc["auto"] = "stopped" => ~g_running
    /\ main # "serve" => pc["auto"] = "stopped"
    /\ main \notin {"serve", "stop"} => ~running
    /\ main \in {"alarm", "exited"} => pc["worker"] = "stopped"
    /\ main = "exited" => ~alarmUp

(* When main has joined the alarm worker no analyst runs or holds the      *)
(* mutex; each task was run, discarded or came too late; the analyses      *)
(* counted are one for each task that was run and two for each round, the  *)
(* scan and the detection range; and all results of the scans, with the    *)
(* one main's thread repeats, were handled, dropped or left behind.        *)
ExitAccounted ==
    main = "exited" =>
        /\ ~running /\ ~alarmUp
        /\ \A t \in Analysts : pc[t] = "stopped"
        /\ analysisMutex = NoOne
        /\ scheduled = tasks + discarded + ran
        /\ analyses = ran + 2 * rounds
        /\ Len(Delivered) + sensitivityQueue.dropped = Steps * (ran + rounds) + rounds

(* Who holds analysis_mutex_ pushes results or lets it go.                 *)
HolderNeverWaits ==
    \A t \in Analysts : analysisMutex = t => pc[t] \in {"push", "release"}

LEMMA ExitStart == Init => ExitInv
BY DEF Init, ExitInv, Analysts

LEMMA ExitStep == ASSUME BaseInv, ExitInv, [Next]_vars PROVE ExitInv'
<1>0. pc \in [Analysts -> Points] /\ "worker" \in Analysts /\ "auto" \in Analysts
  BY DEF BaseInv, Analysts
<1> USE DEF ExitInv
<1>1. ASSUME NEW t \in Analysts, Analyze(t) \/ PushResult(t) \/ Release(t) PROVE ExitInv'
  <2>1. /\ UNCHANGED <<g_running, running, main, alarmUp>>
        /\ pc[t] # "stopped" /\ \A u \in Analysts \ {t} : pc'[u] = pc[u]
        /\ pc'[t] # "stopped"
    BY <1>0, <1>1 DEF Analyze, PushResult, Release
  <2> QED BY <1>0, <2>1
<1>2. CASE WorkerTop \/ WorkerWake
  <2>1. /\ UNCHANGED <<g_running, running, main, alarmUp>>
        /\ pc["worker"] # "stopped" /\ pc'["auto"] = pc["auto"]
    BY <1>0, <1>2 DEF WorkerTop, WorkerWake
  <2> QED BY <2>1
<1>3. CASE AutoSleep \/ AutoRepeat \/ AutoRange
  <2>1. /\ UNCHANGED <<g_running, running, main, alarmUp>>
        /\ pc["auto"] # "stopped" /\ pc'["worker"] = pc["worker"]
        /\ pc'["auto"] = "stopped" => ~g_running
    BY <1>0, <1>3 DEF AutoSleep, AutoRepeat, AutoRange
  <2> QED BY <2>1
<1>4. CASE Schedule \/ AlarmPop \/ Ended \/ UNCHANGED vars
  BY <1>4 DEF Schedule, AlarmPop, Ended, vars
<1>5. CASE Signal
  BY <1>5 DEF Signal
<1>6. CASE Main
  BY <1>6 DEF Main, MainJoinAuto, MainStop, MainClear, MainJoinWorker, MainStopAlarm
<1> QED BY <1>0, <1>1, <1>2, <1>3, <1>4, <1>5, <1>6 DEF Next, Worker, AutoThread

(* stop() leaves nothing running and nothing uncounted, however the        *)
(* signal, the tasks and the rounds fall: what StopCompletes leads to      *)
(* (SensitivityAnalyzer::stop, sensitivity_analyzer.cpp:37-54, and the     *)
(* join of main's thread before it, main.cpp:300-307).                     *)
THEOREM ExitAccountedTheorem == Spec => []ExitAccounted
<1>1. ServiceInv /\ ExitInv => ExitAccounted
  <2> SUFFICES ASSUME ServiceInv, ExitInv, main = "exited"
               PROVE  /\ ~running /\ ~alarmUp
                      /\ \A t \in Analysts : pc[t] = "stopped"
                      /\ analysisMutex = NoOne
                      /\ scheduled = tasks + discarded + ran
                      /\ analyses = ran + 2 * rounds
                      /\ Len(Delivered) + sensitivityQueue.dropped = Steps * (ran + rounds) + rounds
    BY DEF ExitAccounted
  <2>0. BaseInv /\ LockInv /\ TasksAccounted /\ CountInv /\ ResultsAccounted
    BY DEF ServiceInv
  <2>1. pc["worker"] = "stopped" /\ pc["auto"] = "stopped" /\ ~running /\ ~alarmUp
    BY DEF ExitInv
  <2>2. \A t \in Analysts : pc[t] = "stopped"
    BY <2>1 DEF Analysts
  <2>3. analysisMutex = NoOne
    BY <2>0, <2>2 DEF BaseInv, LockInv, Holding
  <2>4. /\ tasks \in Nat /\ discarded \in Nat /\ ran \in Nat /\ rounds \in Nat /\ analyses \in Nat
    BY <2>0 DEF BaseInv
  <2>5. scheduled = tasks + discarded + ran
    BY <2>0, <2>1, <2>4 DEF TasksAccounted, Busy
  <2>6. analyses = ran + 2 * rounds
    BY <2>0, <2>1, <2>4 DEF CountInv, Owed, Begun, Holding
  <2>7. Scanned = rounds /\ Repeated = rounds /\ Pending("worker") = 0 /\ Pending("auto") = 0
    BY <2>1, <2>4 DEF Scanned, Repeated, Pending
  <2>8. Steps * (ran + rounds) \in Nat
    BY <2>4, StepsAssumption
  <2>9. Len(Delivered) + sensitivityQueue.dropped = Steps * (ran + rounds) + rounds
    BY <2>0, <2>4, <2>7, <2>8 DEF ResultsAccounted
  <2> QED BY <2>1, <2>2, <2>3, <2>5, <2>6, <2>9
<1>2. ServiceInv /\ ExitInv /\ [Next]_vars => ExitInv'
  BY ExitStep DEF ServiceInv
<1> QED BY <1>1, <1>2, ExitStart, ServiceInvariant, PTL DEF Spec

(* While a thread holds analysis_mutex_ it never waits for a lock that is  *)
(* held for longer than a push: it does not lock the mutex again, and not  *)
(* the one of the tasks, so neither the two analysts nor stop() can wait   *)
(* for each other in a circle (analyze_magnitude_sensitivity,              *)
(* sensitivity_analyzer.cpp:78-112).                                       *)
THEOREM HolderNeverWaitsTheorem == Spec => []HolderNeverWaits
<1>1. ServiceInv => HolderNeverWaits
  BY DEF ServiceInv, LockInv, Holding, HolderNeverWaits
<1> QED BY <1>1, ServiceInvariant, PTL

=============================================================================

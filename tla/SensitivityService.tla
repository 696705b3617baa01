------------------------- MODULE SensitivityService -------------------------
(***************************************************************************)
(* The sensitivity path: SensitivityAnalyzer with its task queue and its   *)
(* worker thread, the thread of main that runs an analysis every           *)
(* analysis_interval_minutes, sensitivity_queue, and the alarm worker that *)
(* pops it.  An analysis holds analysis_mutex_ from its first trial to the *)
(* push of its last result.  main joins its own thread, then stops the     *)
(* analyzer, then the alarm.                                               *)
(*                                                                         *)
(* A result is the analysis it comes from and its place in it.  Nothing in *)
(* main gives the analyzer a ColumnSimulation, so no trial ever runs.      *)
(***************************************************************************)
EXTENDS MessageQueue

CONSTANTS Steps,        (* the results of one analysis, 7 in main         *)
          MaxRounds,    (* bound: the rounds of main's thread             *)
          MaxTasks      (* bound: the calls of schedule_analysis          *)

ASSUME StepsAssumption == Steps \in Nat \ {0}
ASSUME BoundsAssumption == MaxRounds \in Nat /\ MaxTasks \in Nat

VARIABLES
    g_running,       \* the global
    running,         \* running_ of the analyzer
    tasks,           \* how many tasks wait in task_queue_
    scheduled,       \* calls of schedule_analysis
    discarded,       \* tasks stop() threw away
    ran,             \* tasks the worker has finished
    pc,              \* where the worker and main's thread are
    next,            \* the next result each of them pushes
    analysis,        \* the number of the analysis each of them runs
    analysisMutex,   \* the thread that holds analysis_mutex_
    simulation,      \* analysis_->simulation_ is set
    analyses,        \* stats_.total_analyses
    rounds,          \* rounds main's thread has begun
    sensitivityQueue,
    handled,         \* the results the alarm worker has popped, in order
    alarmUp,         \* running_ of the alarm worker, until it is joined
    main             \* where the main thread is

taskVars == <<tasks, scheduled, discarded, ran>>
engineVars == <<next, analysis, analysisMutex, simulation, analyses>>
vars == <<g_running, running, taskVars, pc, engineVars, rounds, sensitivityQueue, handled, alarmUp, main>>

Analysts == {"worker", "auto"}
NoOne == "none"

Result(n, step, type) == [analysis |-> n, step |-> step, type |-> type, trials |-> simulation]

Init ==
    /\ g_running = TRUE
    /\ running = TRUE
    /\ tasks = 0 /\ scheduled = 0 /\ discarded = 0 /\ ran = 0
    /\ pc = [t \in Analysts |-> IF t = "worker" THEN "top" ELSE "sleep"]
    /\ next = [t \in Analysts |-> 1]
    /\ analysis = [t \in Analysts |-> 0]
    /\ analysisMutex = NoOne
    /\ simulation = FALSE
    /\ analyses = 0
    /\ sensitivityQueue = EmptyQueue
    /\ rounds = 0
    /\ handled = <<>>
    /\ alarmUp = TRUE
    /\ main = "serve"

-----------------------------------------------------------------------------
(* schedule_analysis and the worker loop *)

Schedule ==
    /\ scheduled < MaxTasks
    /\ scheduled' = scheduled + 1
    /\ tasks' = tasks + 1
    /\ UNCHANGED <<g_running, running, discarded, ran, pc, engineVars, rounds, sensitivityQueue, handled, alarmUp, main>>

WorkerTop ==
    /\ pc["worker"] = "top"
    /\ pc' = [pc EXCEPT !["worker"] = IF running THEN "wait" ELSE "stopped"]
    /\ UNCHANGED <<g_running, running, taskVars, engineVars, rounds, sensitivityQueue, handled, alarmUp, main>>

(* Mutant of WorkerWake: the task stays in the queue while it is run. *)
WorkerWakeKeepsTask ==
    /\ pc["worker"] = "wait"
    /\ pc' = [pc EXCEPT !["worker"] = IF tasks > 0 THEN "analyze" ELSE IF running THEN "top" ELSE "stopped"]
    /\ UNCHANGED <<g_running, running, taskVars, engineVars, rounds, sensitivityQueue, handled, alarmUp,
                   main>>

(* Mutant of WorkerWake: the last task does not wake the worker. *)
WorkerWakeOffByOne ==
    /\ pc["worker"] = "wait"
    /\ \/ /\ tasks > 1
          /\ tasks' = tasks - 1
          /\ pc' = [pc EXCEPT !["worker"] = "analyze"]
       \/ /\ tasks <= 1
          /\ pc' = [pc EXCEPT !["worker"] = IF running THEN "top" ELSE "stopped"]
          /\ UNCHANGED tasks
    /\ UNCHANGED <<g_running, running, scheduled, discarded, ran, engineVars, rounds, sensitivityQueue,
                   handled, alarmUp, main>>

(* wait_for returns on a notification, or after 100 ms without one.        *)
WorkerWake ==
    /\ pc["worker"] = "wait"
    /\ \/ /\ tasks > 0
          /\ tasks' = tasks - 1
          /\ pc' = [pc EXCEPT !["worker"] = "analyze"]
       \/ /\ tasks = 0
          /\ pc' = [pc EXCEPT !["worker"] = IF running THEN "top" ELSE "stopped"]
          /\ UNCHANGED tasks
    /\ UNCHANGED <<g_running, running, scheduled, discarded, ran, engineVars, rounds, sensitivityQueue, handled, alarmUp,
                   main>>

-----------------------------------------------------------------------------
(* analyze_magnitude_sensitivity and analyze_distance_sensitivity *)

(* Mutant of Analyze: analysis_mutex_ is waited for and not kept. *)
AnalyzeUnlocked(t) ==
    /\ pc[t] = "analyze"
    /\ analysisMutex = NoOne
    /\ analyses' = analyses + 1
    /\ analysis' = [analysis EXCEPT ![t] = analyses']
    /\ next' = [next EXCEPT ![t] = 1]
    /\ pc' = [pc EXCEPT ![t] = "push"]
    /\ UNCHANGED <<g_running, running, taskVars, analysisMutex, simulation, rounds, sensitivityQueue,
                   handled, alarmUp, main>>

(* The trials are run and the analysis counted under analysis_mutex_.      *)
Analyze(t) ==
    /\ pc[t] = "analyze"
    /\ analysisMutex = NoOne
    /\ analysisMutex' = t
    /\ analyses' = analyses + 1
    /\ analysis' = [analysis EXCEPT ![t] = analyses']
    /\ next' = [next EXCEPT ![t] = 1]
    /\ pc' = [pc EXCEPT ![t] = "push"]
    /\ UNCHANGED <<g_running, running, taskVars, simulation, rounds, sensitivityQueue, handled, alarmUp, main>>

(* Mutant of PushResult: one result too many. *)
PushResultOneMore(t) ==
    /\ pc[t] = "push"
    /\ sensitivityQueue' = Push(sensitivityQueue, Result(analysis[t], next[t], "scan"))
    /\ next' = [next EXCEPT ![t] = @ + 1]
    /\ pc' = [pc EXCEPT ![t] = IF next[t] > Steps THEN "release" ELSE "push"]
    /\ UNCHANGED <<g_running, running, taskVars, analysis, analysisMutex, simulation, analyses, rounds,
                   handled, alarmUp, main>>

PushResult(t) ==
    /\ pc[t] = "push"
    /\ sensitivityQueue' = Push(sensitivityQueue, Result(analysis[t], next[t], "scan"))
    /\ next' = [next EXCEPT ![t] = @ + 1]
    /\ pc' = [pc EXCEPT ![t] = IF next'[t] > Steps THEN "release" ELSE "push"]
    /\ UNCHANGED <<g_running, running, taskVars, analysis, analysisMutex, simulation, analyses, rounds,
                   handled, alarmUp, main>>

(* The worker is done with its task; main's thread has more to do.         *)
Release(t) ==
    /\ pc[t] = "release"
    /\ analysisMutex' = NoOne
    /\ pc' = [pc EXCEPT ![t] = IF t = "worker" THEN "top" ELSE "repeat"]
    /\ ran' = IF t = "worker" THEN ran + 1 ELSE ran
    /\ UNCHANGED <<g_running, running, tasks, scheduled, discarded, next, analysis, simulation, analyses,
                   rounds, sensitivityQueue, handled, alarmUp, main>>

-----------------------------------------------------------------------------
(* The thread of main that analyses again and again *)

AutoSleep ==
    /\ pc["auto"] = "sleep"
    /\ \/ /\ g_running
          /\ rounds < MaxRounds
          /\ rounds' = rounds + 1
          /\ pc' = [pc EXCEPT !["auto"] = "analyze"]
       \/ /\ ~g_running
          /\ pc' = [pc EXCEPT !["auto"] = "stopped"]
          /\ UNCHANGED rounds
    /\ UNCHANGED <<g_running, running, taskVars, engineVars, sensitivityQueue, handled, alarmUp, main>>

(* The middle result, which the analyzer has pushed, is pushed once more.  *)
AutoRepeat ==
    /\ pc["auto"] = "repeat"
    /\ sensitivityQueue' = Push(sensitivityQueue, Result(analysis["auto"], Steps \div 2 + 1, "auto"))
    /\ pc' = [pc EXCEPT !["auto"] = "range"]
    /\ UNCHANGED <<g_running, running, taskVars, engineVars, rounds, handled, alarmUp, main>>

(* calculate_detection_range: two more scans whose results go nowhere.     *)
AutoRange ==
    /\ pc["auto"] = "range"
    /\ analysisMutex = NoOne
    /\ analyses' = analyses + 1
    /\ pc' = [pc EXCEPT !["auto"] = IF g_running THEN "sleep" ELSE "stopped"]
    /\ UNCHANGED <<g_running, running, taskVars, next, analysis, analysisMutex, simulation, rounds, sensitivityQueue,
                   handled, alarmUp, main>>

-----------------------------------------------------------------------------
(* The alarm worker and main *)

AlarmPop ==
    /\ alarmUp
    /\ ~IsEmpty(sensitivityQueue)
    /\ handled' = Append(handled, Front(sensitivityQueue))
    /\ sensitivityQueue' = Pop(sensitivityQueue)
    /\ UNCHANGED <<g_running, running, taskVars, pc, engineVars, rounds, alarmUp, main>>

Signal ==
    /\ g_running
    /\ g_running' = FALSE
    /\ UNCHANGED <<running, taskVars, pc, engineVars, rounds, sensitivityQueue, handled, alarmUp, main>>

MainJoinAuto ==
    /\ main = "serve"
    /\ ~g_running
    /\ pc["auto"] = "stopped"
    /\ main' = "stop"
    /\ UNCHANGED <<g_running, running, taskVars, pc, engineVars, rounds, sensitivityQueue, handled, alarmUp>>

(* Mutant of MainStop: running_ is not cleared. *)
MainStopStillRunning ==
    /\ main = "stop"
    /\ main' = "clear"
    /\ UNCHANGED <<g_running, running, taskVars, pc, engineVars, rounds, sensitivityQueue, handled,
                   alarmUp>>

(* stop(): running_ is cleared first, the task queue afterwards.           *)
MainStop ==
    /\ main = "stop"
    /\ running' = FALSE
    /\ main' = "clear"
    /\ UNCHANGED <<g_running, taskVars, pc, engineVars, rounds, sensitivityQueue, handled, alarmUp>>

MainClear ==
    /\ main = "clear"
    /\ discarded' = discarded + tasks
    /\ tasks' = 0
    /\ main' = "join"
    /\ UNCHANGED <<g_running, running, scheduled, ran, pc, engineVars, rounds, sensitivityQueue, handled, alarmUp>>

MainJoinWorker ==
    /\ main = "join"
    /\ pc["worker"] = "stopped"
    /\ main' = "alarm"
    /\ UNCHANGED <<g_running, running, taskVars, pc, engineVars, rounds, sensitivityQueue, handled, alarmUp>>

MainStopAlarm ==
    /\ main = "alarm"
    /\ alarmUp' = FALSE
    /\ main' = "exited"
    /\ UNCHANGED <<g_running, running, taskVars, pc, engineVars, rounds, sensitivityQueue, handled>>

Ended ==
    /\ main = "exited"
    /\ UNCHANGED vars

Worker == WorkerTop \/ WorkerWake \/ Analyze("worker") \/ PushResult("worker") \/ Release("worker")

AutoThread ==
    \/ AutoSleep \/ Analyze("auto") \/ PushResult("auto") \/ Release("auto")
    \/ AutoRepeat \/ AutoRange

Main == MainJoinAuto \/ MainStop \/ MainClear \/ MainJoinWorker \/ MainStopAlarm

Next == Schedule \/ Worker \/ AutoThread \/ AlarmPop \/ Signal \/ Main \/ Ended

Spec == Init /\ [][Next]_vars

(* Every thread is scheduled.  A thread that wants analysis_mutex_ gets it *)
(* in the end, though the other takes it again and again.                  *)
FairSpec ==
    /\ Spec
    /\ SF_vars(Worker) /\ SF_vars(AutoThread) /\ WF_vars(AlarmPop) /\ WF_vars(Main)

-----------------------------------------------------------------------------
(* Properties *)

WorkerPoints == {"top", "wait", "analyze", "push", "release", "stopped"}
AutoPoints == {"sleep", "analyze", "push", "release", "repeat", "range", "stopped"}

Results ==
    [analysis : 1..analyses, step : 1..Steps, type : {"scan", "auto"}, trials : BOOLEAN]

TypeOK ==
    /\ {g_running, running, alarmUp, simulation} \subseteq BOOLEAN
    /\ scheduled \in 0..MaxTasks
    /\ {tasks, discarded, ran} \subseteq 0..scheduled
    /\ pc["worker"] \in WorkerPoints /\ pc["auto"] \in AutoPoints
    /\ next \in [Analysts -> 1..Steps + 1]
    /\ analysis \in [Analysts -> 0..analyses]
    /\ analysisMutex \in Analysts \cup {NoOne}
    /\ analyses \in 0..MaxTasks + 2 * MaxRounds
    /\ rounds \in 0..MaxRounds
    /\ IsQueue(sensitivityQueue, Results)
    /\ handled \in Seq(Results)
    /\ main \in {"serve", "stop", "clear", "join", "alarm", "exited"}

(* All results the alarm worker has popped or will pop, in its order.      *)
Delivered == handled \o sensitivityQueue.items

Scan(r) == r.type = "scan"

(* Two threads push on one queue, one result at a time, yet the results of *)
(* an analysis are never mixed with those of another, since analysis_mutex_*)
(* is held until the last is pushed; and a result that main's thread       *)
(* repeats comes after all of its analysis and before any later one that   *)
(* began after the repetition.                                             *)
ScansNotMixed ==
    \A i, j \in DOMAIN Delivered : i < j /\ Scan(Delivered[j]) =>
        LET r == Delivered[i]
            q == Delivered[j]
        IN  r.analysis < q.analysis \/ (Scan(r) /\ r.analysis = q.analysis /\ r.step < q.step)

Pending(t) == CASE pc[t] = "push" -> next[t] - 1 [] pc[t] = "release" -> Steps [] OTHER -> 0

(* Rounds of main's thread whose scan is finished, and whose repetition is *)
Scanned == rounds - IF pc["auto"] \in {"analyze", "push", "release"} THEN 1 ELSE 0
Repeated == rounds - IF pc["auto"] \in {"analyze", "push", "release", "repeat"} THEN 1 ELSE 0

(* Every result of every analysis, whichever thread ran it and whether or  *)
(* not its queue had room, was handled, still waits, or is counted in the  *)
(* queue's drop counter, and one of each round is there twice.             *)
ResultsAccounted ==
    Len(Delivered) + sensitivityQueue.dropped =
        Steps * (ran + Scanned) + Repeated + Pending("worker") + Pending("auto")

Busy == pc["worker"] \in {"analyze", "push", "release"}

(* A task is run once or discarded by stop(), never both, and one that is  *)
(* scheduled too late stays in the queue.                                  *)
TasksAccounted ==
    scheduled = tasks + discarded + ran + IF Busy THEN 1 ELSE 0

(* A signal ends the service though an analysis of either thread may be    *)
(* running, and though stop() clears running_ outside the lock the worker  *)
(* waits with.                                                             *)
StopCompletes == ~g_running ~> main = "exited"

(* A scheduled analysis is run unless the analyzer is stopped first, even  *)
(* when main's thread takes analysis_mutex_ round after round.             *)
TaskIsRun == \A n \in 1..MaxTasks : scheduled >= n ~> (ran >= n \/ ~running)

-----------------------------------------------------------------------------
(* What the repository says of the path, and the code does not do *)

(* README.md:69: the analyzer produces detection probabilities by Monte    *)
(* Carlo analysis.  A result the alarm worker judges rests on trials.      *)
ResultsRestOnTrials == \A i \in DOMAIN handled : handled[i].trials
=============================================================================

------------------------------ MODULE Telemetry ------------------------------
(***************************************************************************)
(* The logger and the metrics in the process that uses them: main, which   *)
(* initialises both and logs, its thread for the automatic analysis, which *)
(* logs too, the handlers of /metrics, which count, and a signal.          *)
(*                                                                         *)
(* signal_handler logs before it clears g_running.  It runs on whatever    *)
(* thread the signal interrupts, that of main and the other one under      *)
(* POSIX, one of its own under Windows.  The builds also differ in what    *)
(* locking a std::mutex twice does: with GCC and MinGW the thread waits    *)
(* for itself, with MSVC lock throws, which nothing catches.  init does so *)
(* with its own log line, whatever the build; what lies beyond it is       *)
(* checked for the least repair, that line logged after the section.       *)
(***************************************************************************)
EXTENDS Logger, PrometheusRegistry
LOCAL INSTANCE Functions

CONSTANTS MaxCalls,        (* bound: log lines                             *)
          MaxIncrements    (* bound: increments of all counters            *)

ASSUME BoundsAssumption == MaxCalls \in Nat /\ MaxIncrements \in Nat

VARIABLES
    build,
    initRepaired, \* init logs its line after its section
    mutex,        \* who holds the logger's mutex
    pc,           \* where each thread is
    below,        \* where the signal interrupted it
    calls,
    signalled,
    caught,       \* history: the signal hit a thread that held the mutex
    g_running,
    process

threadVars == <<mutex, pc, below>>
processVars == <<calls, signalled, caught, g_running, process>>
buildVars == <<build, initRepaired>>
vars == <<fileVars, registryVars, threadVars, processVars, buildVars>>

Threads == {"main", "auto", "ctrl"}
NoOne == "none"
Builds == {"posix", "mingw", "msvc"}

(* The threads that signal_handler may run on. *)
SignalThreads == IF build = "posix" THEN {"main", "auto"} ELSE {"ctrl"}

Init ==
    /\ LoggerInit
    /\ RegistryInit
    /\ build \in Builds
    /\ initRepaired \in BOOLEAN
    /\ mutex = NoOne
    /\ pc = [main |-> "start", auto |-> "unborn", ctrl |-> "away"]
    /\ below = [t \in Threads |-> "none"]
    /\ calls = 0
    /\ signalled = FALSE
    /\ caught = FALSE
    /\ g_running = TRUE
    /\ process = "alive"

Go(t, from, to) == pc[t] = from /\ pc' = [pc EXCEPT ![t] = to]

(* The mutex of another is waited for; for one's own see SelfLocked and    *)
(* LockThrows.                                                             *)
Lock(t) == mutex = NoOne /\ mutex' = t
Unlock(t) == mutex' = NoOne

(* log, with the mutex held.  Before init it writes to the console only.   *)
Write ==
    \/ initialized /\ \E size \in LineSizes : WriteLine(size)
    \/ (~initialized \/ ~fileOpen) /\ WriteNothing

-----------------------------------------------------------------------------
(* main *)

InitLock ==
    /\ Go("main", "start", "open")
    /\ Lock("main")
    /\ UNCHANGED <<below, fileVars, registryVars, processVars, buildVars>>

InitOpen ==
    /\ Go("main", "open", "init_log")
    /\ OpenFile
    /\ IF initRepaired THEN Unlock("main") ELSE UNCHANGED mutex
    /\ UNCHANGED <<below, registryVars, processVars, buildVars>>

(* init logs, in the committed code with the mutex that it holds. *)
InitLogLock ==
    /\ Go("main", "init_log", "first_line")
    /\ Lock("main")
    /\ UNCHANGED <<below, fileVars, registryVars, processVars, buildVars>>

InitWrite ==
    /\ Go("main", "first_line", "register")
    /\ Write
    /\ Unlock("main")
    /\ UNCHANGED <<below, registryVars, processVars, buildVars>>

(* register_prometheus_metrics, and the start of the threads. *)
MainRegister ==
    /\ pc["main"] = "register"
    /\ pc' = [pc EXCEPT !["main"] = "idle", !["auto"] = "idle"]
    /\ Register
    /\ UNCHANGED <<mutex, below, fileVars, processVars, buildVars>>

(* The loop of main sees the flag, the other thread has ended. *)
MainLeave ==
    /\ ~g_running
    /\ pc["auto"] = "ended"
    /\ Go("main", "idle", "flush")
    /\ UNCHANGED <<mutex, below, fileVars, registryVars, processVars, buildVars>>

(* The last lock of the mutex, in flush, is taken and released. *)
MainFlush ==
    /\ Go("main", "flush", "done")
    /\ mutex = NoOne
    /\ process' = "exited"
    /\ UNCHANGED <<mutex, below, fileVars, registryVars, calls, signalled, caught, g_running, buildVars>>

Main == InitLock \/ InitOpen \/ InitLogLock \/ InitWrite \/ MainRegister \/ MainLeave \/ MainFlush

AutoLeave ==
    /\ ~g_running
    /\ Go("auto", "idle", "ended")
    /\ UNCHANGED <<mutex, below, fileVars, registryVars, processVars, buildVars>>

-----------------------------------------------------------------------------
(* log, as main and the other thread call it, at the shutdown too *)

Log(t) ==
    /\ calls < MaxCalls
    /\ calls' = calls + 1
    /\ Go(t, "idle", "lock")
    /\ UNCHANGED <<mutex, below, fileVars, registryVars, signalled, caught, g_running, process, buildVars>>

LogLock(t) ==
    /\ Go(t, "lock", "write")
    /\ Lock(t)
    /\ UNCHANGED <<below, fileVars, registryVars, processVars, buildVars>>

(* Mutant of LogWrite: without a file it returns with the mutex.           *)
LogWriteLeaves(t) ==
    /\ Go(t, "write", "idle")
    /\ Write
    /\ IF fileOpen' THEN Unlock(t) ELSE UNCHANGED mutex
    /\ UNCHANGED <<below, registryVars, processVars, buildVars>>

LogWrite(t) ==
    /\ Go(t, "write", "idle")
    /\ Write
    /\ Unlock(t)
    /\ UNCHANGED <<below, registryVars, processVars, buildVars>>

-----------------------------------------------------------------------------
(* signal_handler *)

Signal(t) ==
    /\ ~signalled
    /\ signalled' = TRUE
    /\ t \in SignalThreads
    /\ pc[t] \notin {"unborn", "ended"}
    /\ below' = [below EXCEPT ![t] = pc[t]]
    /\ pc' = [pc EXCEPT ![t] = "handler"]
    /\ caught' = (mutex = t)
    /\ UNCHANGED <<mutex, fileVars, registryVars, calls, g_running, process, buildVars>>

HandlerLock(t) ==
    /\ Go(t, "handler", "handler_write")
    /\ Lock(t)
    /\ UNCHANGED <<below, fileVars, registryVars, processVars, buildVars>>

HandlerWrite(t) ==
    /\ Go(t, "handler_write", "handler_flag")
    /\ Write
    /\ Unlock(t)
    /\ UNCHANGED <<below, registryVars, processVars, buildVars>>

HandlerReturn(t) ==
    /\ Go(t, "handler_flag", below[t])
    /\ g_running' = FALSE
    /\ below' = [below EXCEPT ![t] = "none"]
    /\ UNCHANGED <<mutex, fileVars, registryVars, calls, signalled, caught, process, buildVars>>

-----------------------------------------------------------------------------
(* With MSVC, lock throws for a mutex the thread holds: nothing catches it *)
(* and the process is terminated.                                          *)
LockThrows(t) ==
    /\ build = "msvc"
    /\ mutex = t
    /\ pc[t] \in {"start", "init_log", "lock", "handler", "flush"}
    /\ process' = "terminated"
    /\ UNCHANGED <<fileVars, registryVars, threadVars, calls, signalled, caught, g_running, buildVars>>

-----------------------------------------------------------------------------
(* The handlers of /metrics and the loop of main count.                    *)

Increments == SumFunction(added) + SumFunction(creating)

Count ==
    /\ pc["auto"] # "unborn"
    /\ \/ /\ Increments < MaxIncrements
          /\ \E n \in Names : Add(n) \/ Miss(n)
       \/ \E n \in Names : Create(n)
    /\ UNCHANGED <<fileVars, threadVars, processVars, buildVars>>

Thread(t) ==
    \/ LogLock(t) \/ LogWrite(t) \/ HandlerLock(t) \/ HandlerWrite(t) \/ HandlerReturn(t)
    \/ LockThrows(t)
    \/ t = "main" /\ Main
    \/ t = "auto" /\ AutoLeave

Next ==
    /\ process = "alive"
    /\ \/ \E t \in Threads : Thread(t) \/ Signal(t)
       \/ \E t \in {"main", "auto"} : Log(t)
       \/ Count

Spec == Init /\ [][Next]_vars

(* The scheduler runs every thread. *)
FairSpec ==
    /\ Spec
    /\ \A t \in Threads : WF_vars(process = "alive" /\ Thread(t))

-----------------------------------------------------------------------------

Places == {"start", "open", "init_log", "first_line", "register", "idle", "flush", "done", "unborn",
           "ended", "lock", "write", "handler", "handler_write", "handler_flag", "away"}

TypeOK ==
    /\ initialized \in BOOLEAN /\ fileOpen \in BOOLEAN
    /\ disk \in [Suffixes -> SUBSET (0..lines)]
    /\ log_files \in Seq(Suffixes) /\ Len(log_files) <= MaxFiles
    /\ current_file_size \in Nat
    /\ lines \in 0..(calls + 2)
    /\ known \subseteq Names
    /\ value \in [Names -> Nat] /\ added \in [Names -> Nat] /\ creating \in [Names -> Nat]
    /\ mutex \in Threads \cup {NoOne}
    /\ pc \in [Threads -> Places] /\ below \in [Threads -> Places \cup {"none"}]
    /\ build \in Builds /\ process \in {"alive", "exited", "terminated"}

(* A thread waits for a mutex that it holds itself. *)
SelfLocked ==
    \E t \in Threads : mutex = t /\ pc[t] \in {"init_log", "handler"}

(* What becomes of the process, in every build and whenever the signal     *)
(* comes.  As committed, it never gets past the line that init logs: main  *)
(* waits for itself, or the exception terminates the process.  With that   *)
(* line moved out of the section a signal ends the process, unless it hit  *)
(* a thread that was logging: then that thread waits for itself for good   *)
(* (main.cpp:33-38, logger.cpp:304 and :375).                              *)
StopsUnlessSelfLocked ==
    /\ ~initRepaired ~> [](process = "terminated" \/ SelfLocked)
    /\ (initRepaired /\ signalled /\ ~caught) ~> (process = "exited")
    /\ caught ~> []SelfLocked

=============================================================================

# Formal models of the seismograph backend

TLA+ models of the C++ service in `src/backend`: a UDP receiver, a simulator, a
sensitivity analyzer, an alarm publisher and a ClickHouse writer, each a thread,
joined by three bounded queues, with an HTTP server, an MQTT client, a logger and
a metrics registry beside them. TLC checks small instances; TLAPS proves the
safety properties of most of them for every value of their constants.

    tlc -workers 2 -config MCSensorPipeline.cfg SensorPipeline    # any run of the table below
    for m in *Proofs.tla; do tlapm $m; done                       # all proofs

## 1. The system

| Component | State | Operations | Interacts with | What makes it correct |
|---|---|---|---|---|
| Message queue (`message_queue.h`) | items, capacity, drop counter | push, pop, empty | all threads, under its own mutex | bounded FIFO; a refusal is counted; an item is popped once |
| UDP receiver (`udp_receiver.cpp`) | running flag, thread, `Stats` | start, stop, receive loop | pushes `sensor_queue` | counters agree with each other and with the queue |
| Seismic simulator (`seismic_simulator.cpp`) | running flag, thread, `Stats` | start, stop, worker loop | pops `sensor_queue`, pushes `simulation_queue` | each popped reading simulated once |
| Alarm MQTT (`alarm_mqtt.cpp`) | running flag, thread, history per device, `Stats` | start, stop, worker loop, checks, scores, publish | pops all three queues, publishes by MQTT | window of the history, direction arithmetic, alert counters |
| MQTT client (`mqtt_client.cpp`) | socket, connected, packet id, counters | connect, publish, async publisher, disconnect | the broker | what the broker reads is what was counted; start and stop end |
| Sensitivity analyzer (`sensitivity_analyzer.cpp`) | task queue, `analysis_mutex_`, thread | start, stop, schedule, four analyses | pushes `sensitivity_queue` | tasks run once; results of one analysis together and in order |
| Main (`main.cpp`) | `g_running`, sensitivity thread | start-up, drain loop, automatic analysis, shutdown | everything | every start leads, after a signal, to an exit with all threads joined |
| ClickHouse client (`clickhouse_client.cpp`) | buffer, connected, async writer, `Stats` | insert, flush, writer, queries, disconnect | main, HTTP handlers, the server | a row is sent before it is cleared; the shutdown ends |
| HTTP server (`http_server.cpp`) | routes, `Stats`, accept thread, detached handlers | start, stop, the `/api` handlers | the global simulation, analysis and store | handlers use nothing that is gone or half changed |
| Column simulation, Monte Carlo analysis | parameters and integrator state | simulate, scans, optimize | HTTP handlers, simulator, alarm | parameters restored, trigger latched |
| Logger (`logger.cpp`) | one mutex, log file, rotated files | init, log, rotate, flush | every thread, the signal handler | no self-lock; the newest lines are kept |
| Metrics (`prometheus_metrics.cpp`) | map of counters | register, increment, expose | handlers, main | no lost increment |
| Configuration (`config_loader.cpp`) | one global | load, before any thread starts | every component | – |
| Front end (`frontend/js`) | polling timers, `isSimulationRunning` | poll, run, play | the HTTP API | the flag is always released |

`PROJECT.json` lists every part with its status, and under `hazards` each place
where a test would hardly find a mistake, with the properties aimed at it.

Control flow: the receiver pushes accepted readings on `sensor_queue`; the
simulator, the alarm worker and main all pop *the same* queue, so a reading goes
to one of the three. The simulator pushes results on `simulation_queue`, which
the alarm worker pops once per reading it gets. The analyzer and main's
sensitivity thread push on `sensitivity_queue`, which the alarm worker pops. A
signal clears `g_running`; main leaves its loop, joins its sensitivity thread,
then stops the modules one by one and closes the store.

### What is hard here

* three consumers of one queue, and a second queue paired with the first by
  arrival only (interleaving, ordering);
* statistics spread over several locks and several classes (atomicity);
* shutdown at any moment, failed starts, destructors (liveness, partial failure);
* a mutex locked twice by one thread (deadlock);
* one socket without request numbers used by several threads, answers that come
  late or never (unreliable delivery);
* unsigned timestamps from the devices (numeric edges).

### Which build is meant

The committed backend needs small repairs before any compiler takes it:
`http_server.cpp:197` lacks a parenthesis; its lines 672-676 leave out the soil
type the analyses ask for; `sensitivity_analysis.h:87` declares `run_single_trial`
without the soil that `sensitivity_analysis.cpp:17` defines it with;
`ColumnSimulation::SoilType` (`column_simulation.cpp:28`, `sensitivity_analysis.cpp:145`)
is no member of that class; `logger.cpp:373` declares `line`, a parameter, again; and
`main.cpp:289` calls a `size()` the queue does not have. The models read the code with
these repaired and nothing else changed. Two facts differ between the platforms its
build files name:

* **Locking a `std::mutex` twice in one thread** is undefined. GCC's and MinGW's
  waits for ever; MSVC's notices and throws `std::system_error`, which nothing in
  this program catches, so the process is terminated. Neither lets the code behind
  the second lock run. It is wanted in two places, `clickhouse_client.cpp:214` and
  `logger.cpp:304`, and in the signal handler. `ClickHouseClient` and `Telemetry` choose the build once. To check that code
  too, they add the least repair: `relock = "repaired"` (the batch function counts
  under its callers' lock) and `initRepaired` (`init` logs its line after its
  section). A property that speaks of the repaired code says so, and says beside it
  what the committed code does. `SensorPipeline` goes on or stops at each send
  (`AfterSending`).
* **A socket before `WSAStartup`** fails on WinSock. Main connects to ClickHouse
  before the first constructor that calls it, so there the store is never
  connected; a port to POSIX sockets, which the Dockerfile needs, connects. The
  constant `SocketsReady` says which. The runs set it to TRUE: every behaviour
  with FALSE is one of those, so what holds for TRUE holds for FALSE. The proofs
  leave it open. `ClickHouseClient` describes the class once `connect` returned,
  connected or not.

The queue is the `std::mutex` build (the lock-free variant does not accept these
message types). The logger is the one CMake builds unless spdlog is asked for, in
which `Logger::init` calls `log` with the mutex held that `log` locks: as committed,
that build never gets past this line (`NeverPastInitTheorem`). The modules other than
`Telemetry` leave logging out: they speak of what happens after `init` has returned,
hence of the build with spdlog or of the repaired one. `SensitivityService`,
`HttpServer` and `MqttClient` leave out the store as well, so what their liveness runs
promise of a shutdown presupposes that main's thread does not wait for itself in
`insert_sensor_data` or `flush`; `ShutdownCompletes` and `CloseCompletes` say what
happens when it does.

## 2. Modules

| Module | Models | State and actions |
|---|---|---|
| `MessageQueue` | `MessageQueue<T>` | operators `Push`, `Pop`, `HasRoom`, `IsEmpty`, `Front` on `[items, dropped]`; each member function is one critical section, hence one step of its caller |
| `CompetingConsumers` | what such a queue promises | abstract: `Publish` a newer message, `Take` the oldest |
| `SensorPipeline` | receiver, simulator, alarm's queue use, main | one action per step of each thread: `Udp*`, `Sim*`, `Alarm*`, `Main*`; a thread's program point is the variable of its name; `Signal` and `ClickHouseLost` come from outside |
| `SensorPipelineProofs` | – | the inductive invariant and the theorems |
| `ClickHouseClient` | buffer, async writer, flush, shared socket | `Check`/`Insert`, `Writer*`, the common `Send`/`Recv`/`Count`/`Finish` of a batch, `StopWriter`/`JoinWriter`/`Flush`/`Disconnect`; `Query*` for the threads that use the socket without the lock; `Serve` and `ConnectionBreaks` for the server and network; `relock` is what the second lock does, and a `Process` that is not `Running` was terminated by it; the history `sent` says which rows ever got to the socket |
| `ClickHouseClientProofs` | – | the lock, the counts and the copies of a row |
| `AlarmWorker` | one turn of `AlarmMQTT::worker_loop` | `HandleReading` (record, trim, judge, score, publish) and `HandleResult`; only the worker touches this state, so a turn is one step |
| `AlarmWorkerProofs` | – | the inductive invariant and the theorems |
| `MCAlarmWorker` | – | the instance TLC checks: chosen headings, symmetric devices |
| `SensitivityService` | analyzer, main's sensitivity thread, the alarm's pops, shutdown | `Schedule`, `Worker*`, `Analyze`/`PushResult`/`Release` for both threads, `Auto*`, `Main*` |
| `SensitivityServiceProofs` | – | the inductive invariant and the theorems |
| `ColumnSimulation` | the one `ColumnSimulation` object | `motion` says where the ten numbers of the state come from (who stepped it, with which parameters, how often since the reset, or `Mixed`); `Reset`, `Step` with the trigger latch, `Return` of `simulate` and `simulate_timeseries` |
| `SensitivityAnalysis` | what handlers run on it: a series, a scan, a range, a search | `Begin*`, `StartTrial`/`EndTrial`, `EndPoint`/`EndScan`/`EndSeries`, `TryCandidate`/`ScoreCandidate`/`RestoreParams`, `Leave`; `job[t]` is the call stack of handler `t` |
| `HttpServer` | start, accept thread, routes, handlers, stop, the end of main | `Start`/`AddRoute`/`Stop`/`JoinAccept`/`Destroy`/`Exit`, `Accept*`, one handler per connection (`Handler`), `Connect` by the clients, each of which may be `slow` to send and again to read, `Crash` where memory is gone or changing |
| `HttpServerProofs` | – | the invariant of the jobs, step by step, and the theorems of the server |
| `Logger` | the file logger | `disk` says which lines each file holds: `OpenFile`, `WriteLine` with its rotation (`Renames`, `Removed`, `Fresh`) and the renames and opens that fail (a removal that fails is not modelled) |
| `PrometheusRegistry` | counters | `Register`; `Add` for a name that is found, `Miss` and `Create` for one that is not, which this program never takes: every counter it increments is registered before any thread starts |
| `Telemetry` | both under main, its thread, increments and a signal | `build` and `initRepaired`; `Init*` step by step through `Logger::init`, `Log*`, `Signal` on top of any step of a thread that may run the handler (`SignalThreads`) and `Handler*`, `LockThrows`, `MainLeave`/`MainFlush`, `Count`; the history `caught` says that the signal hit a thread inside the logger's section |
| `TelemetryProofs` | – | the counters, the rotation and the logger's mutex |
| `MqttClient` | the client of `AlarmMQTT`, both ends of its socket | `Open`, `SendConnect`, `Answered`/`Unanswered`, `StartAsync`, `StartWorker`, `Publish`, `WorkerEnd`, `AsyncEnd`, `Stop`, `JoinWorker`, `StopAsync`, `Disconnect`; `Handed` for a send that takes all of a packet or part of it (`cut`); `Broker` reads by the lengths packets declare: `ReadPublish` a packet that ends where its header says, `ReadCut` one that was cut together with the bytes of the next, `ReadAdrift` what follows |
| `MqttClientProofs` | – | the order of what the broker reads, the fixed header, the end |
| `InductionLemmas` | – | least elements, induction up to a bound, functions defined by a recurrence |

Composition: `HttpServer` EXTENDS `SensitivityAnalysis` EXTENDS `ColumnSimulation`,
`Telemetry` EXTENDS `Logger` and `PrometheusRegistry`, and `MessageQueue` is part of
`SensorPipeline` and `SensitivityService`. These two share `main` and the alarm
worker; each abstracts the other's queue. `AlarmWorker` says what
`SensorPipeline`'s `AlarmJudge` does with a reading, `MqttClient` what becomes of
the messages `AlarmWorker` hands to the client (there a publish succeeds or
fails); `ClickHouseClient` what `MainInsert` and `MainClose` do with a row.
`SensorPipeline` implements `CompetingConsumers` by the mapping
`waiting <- sensorQueue.items`, `taken[c] <-` everything consumer `c` ever popped.

Data kept abstract: a reading is its arrival number; a result is the reading (or
the analysis and place) it comes from; a magnitude is strong or not; a direction
is an octant; a score is the pair of counts the code divides; parsing and range
checks are a choice of accepted or rejected; a request is the route it asks for; a
log line is its number and its size; a packet is its lengths and its place among
the publications, and a `body` of 0 stands for one that was cut, at whatever byte. The order of control (each lock
section, early return and error path) is kept.

Two sections on one mutex with no shared effect in between are one step when no
other thread can tell (the statistics of the simulator; the `stats_mutex_`
sections of the alarm worker, which nothing else reads while it runs). Reads of
an atomic flag at the top of a loop are steps of their own.

Definitions named in a comment "Mutant of ..." are not part of any
specification. Each states a plausible mistake in the definition after it, and
is used to see that the property it belongs to would notice the mistake.

## 3. Runs

| Run | Instance | Shows |
|---|---|---|
| `sensor_pipeline` | capacity 2, batch 2, 4 datagrams | `TypeOK`, `TakenOnce`, `Accounting`, `NeverOwnSimulation`, `SimulationUsedOnce`, `NothingInHandAtExit`, refinement `DeliverySpec` |
| `sensor_pipeline_live` | capacity 1, batch 2, 2 datagrams, fair | `ShutdownCompletes`, `AcceptedIsTaken` |
| `every_reading_reaches_all` | capacity 1, 1 datagram, fair | **violated**: a reading one consumer takes never reaches the others (README.md:67-72) |
| `ctrl_c_stops` | capacity 1, 1 datagram, fair | **violated**: main hangs in `flush` with one buffered row (main.cpp:213) |
| `clickhouse_client` | batch 2, 3 rows, 1 query, three outcomes of the second lock, fair | `TypeOK`, `OneSender`, `CountedBeforeCleared`, `BoundedDuplicates`, `FirstBatchIsLast`, `CloseCompletes` |
| `alarm_worker` | 2 devices, timestamps mod 6, window 2, 3 readings, 1 result | `TypeOK`, `WindowMatchesLog`, `HistoryIsSuffix`, `AlertsAccounted`, `FalseTriggerIsOffCourse` |
| `window_holds_newest` | 1 device, 2 readings | **violated**: the start of the window wraps and the new reading is dropped (README.md:85) |
| `sensitivity_service` | capacity 2, 2 results an analysis, 2 rounds, 2 tasks, fair | `TypeOK`, `ScansNotMixed`, `ResultsAccounted`, `TasksAccounted`, `StopCompletes`, `TaskIsRun` |
| `results_rest_on_trials` | the same | **violated**: the analyzer has no simulation, no result rests on a trial (README.md:69) |
| `http_server` | 2 handlers, 2 time steps, 1 point, 1 trial, 2 candidates, slow clients, fair | `TypeOK`, `ParamsRestored`, `AloneIsExact`, `RefusedOnlyAtStart`, `NoHandlerAfterStop`, `AcceptedIsAnswered` |
| `telemetry` | three builds, `init` as committed and repaired, 3 files of size 2, lines of size 1 and 2, 1 failure, a registered and an unregistered counter, fair | `TypeOK`, `DiskIsRecent`, `CountersAddUp`, `StopsUnlessSelfLocked` |
| `mqtt_client` | sizes around the 128 boundary, 4 messages, packet ids mod 4, fair | `TypeOK`, `ReceivedInOrder`, `LengthsAgree`, `StartAndStopComplete` |

Some properties describe exactly where the code stops being right, since a plain
promise would be false:

* two overlapping searches leave the parameters of a candidate (`ParamsRestored`
  speaks of the rest), and a job that meets another on the column computes something
  else (`AloneIsExact`);
* two threads that miss an unregistered counter together would lose increments
  (`CountersAddUp`);
* once a row was inserted the committed shutdown of the store never completes: main
  waits for itself, or the process is terminated. With the second lock repaired, or
  without a row, it always does (`CloseCompletes`); and until the repair the first
  batch is the last (`FirstBatchIsLast`);
* as committed, the build without spdlog waits for itself in `Logger::init` or is
  terminated there. With `init` repaired a signal ends the process, except one that
  interrupts a thread inside the logger's section, which then waits for itself for
  good (`StopsUnlessSelfLocked`);
* a client that sends its request a byte at a time, or does not read the answer, may
  hold its handler; the others are answered whatever it does (`AcceptedIsAnswered`);
* a packet of which the socket took a part is completed by the bytes of the next. The
  broker may pass the two on as one corrupted alert, wait for more, or close, and
  later packets may be lost or read wrong, though all of them are counted as
  published. `ReceivedInOrder` says what remains: no publication arrives twice or out
  of order, nothing before the first cut is spoiled, and as long as no cut packet was
  read the broker has read exactly what was counted and is no longer on the wire;
* a broker that holds CONNECT to its declared length never gets an alert
  (`LengthsAgree`).

### Bounds, and why they are enough

* `MaxPackets = 4` against `Capacity = 2`: the queue fills and refuses, each of
  the three consumers can hold a reading while one waits, and the simulation
  queue can fill when the alarm is slow. The proofs remove the bound.
* `MaxRows = 3`, `BatchSize = 2`: a batch completes, is sent again with a third
  row, and is cleared by the writer or by flush in any order, whether it was sent or
  not; one query is enough to steal an answer or to find the connection broken
  (184,652 states with the three outcomes of the second lock).
* `TimeModulus = 6`, `Window = 2`, three readings: a window holds several
  entries, drops some, wraps below zero, and meets a reading from the future.
  `MinPercent = 64` is 80% of the 80% of the configuration.
* Two rounds, two tasks, two results for a queue of two: both threads want
  `analysis_mutex_` at once, the queue refuses, and a task can be discarded.
* Two handlers: every race on the column and every overlap of two searches needs
  two; `Steps = 2` gives a first step (time 0, not reported as triggered) and a
  later one, `Iterations = 2` a second candidate after the first was applied. The
  proofs remove all these bounds, and hold for series of one step or none too, which a
  request can ask for (`http_server.cpp:566-571` takes any duration). Two connections
  also let one wait in the backlog or compute while the other is slow (614,915 states).
* `MaxFiles = 3`, `MaxSize = 2`: the suffixes shift twice and the oldest file is
  overwritten; `MaxCalls = 4` lines fill two files; one failing call reaches each
  call of the rotation. `MaxIncrements = 2`: the second increment can meet the
  first between look-up and creation; it bounds both counters together
  (757,180 states).
* `Sizes = {1, 123, 124, 300}`: with the topic length and the id, 123 is the last
  remaining length of one byte and 124 the first of two; `IdModulus = 4` lets the
  id wrap within `MaxMessages = 4` publications, which are also enough for one before a
  cut, the cut one, the one that completes it, and one after (115,311 states).

`alarm_worker`, `window_holds_newest` and the runs of `HttpServer` and `Telemetry`
disable the deadlock check: the alarm worker has no end of its own and the bound on the
readings stops the model; a server with no client waits, and both processes may
be dead or, `Telemetry`'s, hung on its own mutex, which is what
`StopsUnlessSelfLocked` is about. All other runs check deadlock; the end of the process is
the explicit step `Ended`.

### Fairness

Weak fairness of each thread's next step: they are operating system threads, and
none spins in a way that keeps another from running. Nothing is assumed of the
outside: datagrams, signals, the server and the network may stay silent
(`execute_query` waits 100 ms and goes on). `SensitivityService` assumes strong
fairness of the two analysts, because each waits for a mutex the other takes
again and again: `std::mutex` promises no order, but main's thread sleeps for
`analysis_interval_minutes` between two turns, and the worker's tasks are few.
`HttpServer` is fair to the accept thread, to main except its decision to stop, and
to each handler unless it waits for a `slow` client (`Waits`): the loop that reads has
a time limit for each `recv` and none for the request, and ends by itself only once
`stop` has cleared `running_`; `send` may block for as long as the client does not
read. Nothing makes a client connect or go on, or the process crash.
`Telemetry` is fair to each thread, not to the signal, the calls of `log` or the
counters. `MqttClient` is fair to main except its decision to stop and to the ends
of the two threads; the broker may stay silent for ever.

## 4. Proofs

`SensorPipelineProofs` proves, for every `Capacity`, `BatchSize`, `MaxPackets` and
`SocketsReady` (only the named assumptions on them), that `SensorPipeline`
satisfies `TypeOK`, `TakenOnce`, `Accounting`,
`NeverOwnSimulation`, `SimulationUsedOnce`, `NothingInHandAtExit` and implements
`CompetingConsumers`.

The properties are not inductive by themselves. The invariant `IInv` adds:

* `HandInv` – a thread holds a reading exactly between its pop and its last use;
* `FreshInv` – the reading the receiver is about to push is newer than all others;
* `QueueOrder`, `OnceEach` – the waiting readings are sorted and newer than all
  taken ones, and what different consumers took is disjoint: a pop moves the
  oldest from one to the other;
* `OriginInv`, `UseOrder` – results in `simulation_queue` come from readings the
  simulator took, are sorted, and are newer than every result used, so the alarm
  (which took other readings) can neither meet its own nor use one twice;
* `StopInv` – which modules are started, stopped and joined at each point of main,
  on the ordinary path and on that of a failed start;
* `Accounting` – with the packet in flight.

One lemma per conjunct shows that every action preserves it; `Invariant` joins
them. `Refinement` maps each pop to `Take`, an accepted push to `Publish`, and
every other step to a stutter.

`AlarmWorkerProofs` proves `TypeOK`, `AlertsAccounted`, `FalseTriggerIsOffCourse`,
`HistoryIsSuffix` and `WindowMatchesLog` of `AlarmWorker` for all devices, clocks, windows,
headings and bounds (`WindowAssumption`, `HeadingsAssumption`,
`BoundsAssumption`). That a score is never more than one needs `Short`: the length
of a history bounds its counts (`FiguresType`), and dropping old entries never
lengthens it (`DropOldType`, by the least recent entry, `MinIsLeast`).
`OffCourseIsNotNear` settles the octants, `SentType` what publishing may do. The
two statements on the histories are about `DropOld` and `Kept`, which go over a
sequence: `KeptPasses` gives each pass of such a loop, `KeptSuffix` that what passes
a test which only later entries pass is an end of the sequence, and `RecordKeeps`
that recording and trimming leaves an end of the longer log. `Trimmed` adds to
`HistoryIsSuffix` that, while the readings of a device come in order and past the
first window, no entry left out is inside the window; `WindowMatchesLog` follows.

`HttpServerProofs` proves `TypeOK`,
`ParamsRestored`, `AloneIsExact`, `RefusedOnlyAtStart` and `NoHandlerAfterStop` for
any set of handlers, time steps, points, trials and candidates. The invariant
`JobInv` of the jobs has six parts: the types; which call of the column each phase
of a job makes (`PhaseInv`); that a job counted as alone is the only one
(`AloneInv`); that without overlapping searches a search is the only one, holds the
configuration in `saved`, and outside one the parameters are the configuration's
(`SearchInv`); what the latch has seen (`LatchInv`); and what an undisturbed
simulation has computed so far (`ExactInv`), which needs the others. Every
transition of the server either leaves the column alone or is one of `Steppings`.
`ServerInv` adds how many routes exist at each point of `start`.

`ClickHouseClientProofs` proves `TypeOK`, `OneSender`, `CountedBeforeCleared`,
`BoundedDuplicates` and `FirstBatchIsLast`, for any batch size and any bounds. `CountInv` adds that a thread
about to clear the buffer has counted all of it; `FailInv` that what such a thread
failed to send is in `failed_inserts` and what it did send is in `sent`; `HangInv`
that, until the second lock is repaired, nothing was counted, and either no row has
left the client (`Virgin`) or the mutex is never free again and each row left once
(`Once`). `DupInv` bounds
how often a row is in the table or on the wire (`Out`): no more than the inserts
since its own, less one while an insert owes its batch (`Owed`), more by one once a
batch that clears the buffer is under way (`Cleared`); `PlacesAppend` and
`PlacesTail` say what sending and serving do to the requests that carry it.
`ClosedEmpty` is the safety half of `CloseCompletes`: whenever the client gets to
its end, the writer has stopped, the lock is free, the buffer is empty, every
row was counted, as failed if it was never sent, and the lock was repaired or there was
no row.

`TelemetryProofs` proves `TypeOK`, `DiskIsRecent` and `CountersAddUp` for any names,
files, sizes, calls and failures. Of the counters: while nobody
missed a name together with another, the counter is the number of increments, and
a registered name is never missed once the handlers can run (`RegisteredInv`). Of
the files: `RenamesSteps` gives each turn of the loop of a rotation,
`RenamesType` what it leaves when some renames fail and `RenamesAllWell` when none
does; `FilesInv` says that while nothing failed the files are listed without a gap
and only the log file and the last one hold lines, the newest, and `SizeInv` bounds
the open file. That `lines` never exceeds `calls + 2` rests on the lines still due
(`LinesInv`), and these on where each thread is or would be without the signal that
interrupted it (`At`, `PlaceInv`). `MutexInv` counts how often each place holds the
mutex. From it follow the results `StopsUnlessSelfLocked` rests on: a holder is always inside
`init`, `log` or the handler (`HolderIsInside`); a thread that waits for itself waits
for ever, and only MSVC's exception ends such a process (`HangsForGood`, an action
property); as committed, `Logger::init` is never left in any build, so nothing is
written, no thread starts and the process does not exit by itself (`NeverPastInit`);
and a signal that hit the logger's section leaves the process alive and waiting, while
termination is met only in the committed MSVC build (`Endings`).

`MqttClientProofs` proves `TypeOK`, `ReceivedInOrder` and `LengthsAgree` for any
sizes, packet ids and number of messages, and wherever sends are cut. `Handshake` says
that nothing is published before the broker has accepted the one packet on the wire,
`Counted` that a failed publication is the last, `BuiltUnlessCut` that a packet on the
wire is one `publish` builds unless it was cut. `OrderInv` has one part for each state
of the broker: while it reads packet by packet, what it received and what is on the
wire are together the publications 1, 2, 3, ... (`InSession`); once it has met a cut
packet, all before the first cut was received (`Spoilt`), and what is on the wire is
newer than all that was (`Drifting`). That a header declares what follows it is
proved of the loops themselves, for every length: `LeftSteps` and `ShiftsType` say
that the encoder's loop ends, `EncodedHeader` that a reader stops at its last byte,
`DecodedEncoded` that reading back gives the length; `ConnectOutOfStep` that the one
byte of CONNECT never does. `StoppedClean` is the safety half of
`StartAndStopComplete`: at the end no thread runs and the socket is closed exactly
unless a publication failed.

`InductionLemmas` holds what the proofs on recursive functions share. Such a
function is a `CHOOSE`, of which the provers know nothing until a function with its
recurrence is shown to exist: `Recursion` builds one, for any recurrence up to a
bound, from `UpTo`, induction up to a bound stated with a set in place of a
predicate, and that from `LeastExists`.

`SensitivityServiceProofs` proves `TypeOK`, `TasksAccounted`, `ScansNotMixed` and
`ResultsAccounted` for every capacity, length of an analysis and number of rounds
and tasks. `LockInv` says that who has results to push holds `analysis_mutex_` and
runs the last analysis counted; `CountInv` relates the analyses to rounds and
tasks; `OrderInv` that all that is delivered comes before the next result
(`Before`). `PushDelivers` and `PopDelivers` say what the queue does to the
sequence of delivered results. `ExitAccounted` is the safety half of `StopCompletes`:
at the exit both analysts have stopped, and tasks, analyses and results add up with
nothing under way (`ExitInv` says what main has waited for); `HolderNeverWaits` that
no lock is wanted by a thread that holds `analysis_mutex_`.

Assumed are only the named assumptions on the constants. Every invariant and
action property that a run checks is a theorem. Only model-checked is liveness
(`ShutdownCompletes`, `AcceptedIsTaken`, `CloseCompletes`, `StopCompletes`,
`TaskIsRun`, `AcceptedIsAnswered`, `StopsUnlessSelfLocked` and
`StartAndStopComplete`), which is out of the prover's reach: it has no rule for
fairness and `ENABLED`. What these say of the state a component ends in is proved
for the pipeline (`NothingInHandAtExit`), the store, the analyzer, the logger and the
MQTT client, and of the mutexes a thread may wait for in the logger and the analyzer.

## 5. Disagreements found

Each has a run that shows it and an entry under `findings`: readings reach one of
three consumers; the flush of the shutdown locks a mutex twice; the window wraps;
the analyzer has nothing to simulate with. Noticed while reading, without a run of
their own (those marked * are in a model, and a property says where they bite):

* store: never connected on WinSock and never retried (`main.cpp:151-156`);
* receiver: CSV needs 22 fields and asks for 15 (`udp_receiver.cpp:188-206`);
* alarm: without a broker alerts are stored nowhere, though `alarm_mqtt.cpp:50`
  says locally;
* MQTT: CONNECT's length omits two bytes*, so a broker that holds it to its length
  never acknowledges (`mqtt_client.cpp:87`); `select(0, ...)` never sees the socket
  on POSIX; a part taken by the non-blocking send cuts the packet, and the next one's
  bytes complete it*; a failed publish
  leaves its socket open for good*; the packet id wraps to 0*; the keep-alive of
  60 s is declared and no PINGREQ is ever sent;
* column: a trigger in the first step, at time 0, is latched and not reported*
  (`column_simulation.cpp:476`);
* analysis: one step in a scan divides by zero (a grid of NaN), and a search with
  no trials returns parameters nobody initialised;
* HTTP: README.md:247 names `/health`, which has no route*; routes are added while
  requests arrive*; a client may hold its handler for as long as it likes*; `seismograph_http_requests_total` counts `/metrics` only,
  though `main.cpp:62` calls it the total; uptime is exposed twice;
* logger: `init` calls `log` with its mutex held*; the signal handler logs*; a
  rotation starts each rename from the name the last one gave, so it keeps one old
  file at most, and none once the list of files is full* (`logger.cpp:243-272`).

## 6. Not modelled, and why

The floating-point dynamics and metrics, parsing and formatting of requests,
datagrams, JSON and configuration (no properties a model checker could settle),
the SQL schema, the Python simulator and tests, and the deployment files. The front
end: its two hazards are in `PROJECT.json`; the rest is drawing. `AlertManager` and
`UDPServer` are compiled and never used by main; the former keeps its history as
`AlarmWorker` does. Without a caller, and left out: `subscribe`, `unsubscribe`,
`publish_alert`, `set_will_message` of the MQTT client, `set_level` and `get_level`
of the logger, `analyze_parameter_sensitivity` and `calculate_sensitivity_index`.
Gauges are single assignments. `schedule_analysis` has no caller either, but is the
public operation the worker exists for, so it is modelled.

## 7. Plan

What is left, in this order:

1. The safety half of `AcceptedIsAnswered`: that a handler has left the column and
   counted its answer when the process ends, or was cut off by the exit.
2. `FrontendApp`: polling answers out of order, `isSimulationRunning`.

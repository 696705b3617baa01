--------------------------- MODULE TelemetryProofs ---------------------------
(***************************************************************************)
(* Proofs about the counters of the metrics, for any names, and about the  *)
(* log on the disk, for any number and size of files and lines, whichever  *)
(* calls of the file system fail, and whenever the signal comes; and about *)
(* the logger's mutex, which init and the handler of the signal may lock   *)
(* twice.                                                                  *)
(***************************************************************************)
EXTENDS Telemetry, FiniteSetTheorems, SequenceTheorems, InductionLemmas

-----------------------------------------------------------------------------
(* The invariant of the counters *)

InHandler(t) == pc[t] \in {"handler", "handler_write", "handler_flag"}

(* Where a thread is, or would be without the signal that interrupted it.  *)
At(t) == IF InHandler(t) THEN below[t] ELSE pc[t]

ThreadInv ==
    /\ DOMAIN pc = Threads /\ DOMAIN below = Threads
    /\ \A t \in Threads : InHandler(t) => signalled
    /\ At("auto") = "unborn" <=> At("main") \in {"start", "open", "init_log", "first_line", "register"}
    /\ ~InHandler("auto") \/ below["auto"] # "unborn"

(* Nothing counts before the names are registered.                         *)
RegisteredInv ==
    IF At("auto") = "unborn"
    THEN known = {} /\ \A n \in Names : creating[n] = 0 /\ added[n] = 0
    ELSE Registered \subseteq known /\ \A n \in Registered : creating[n] = 0

(* A counter agrees with its increments unless two of them missed its name *)
(* at the same time, and one that is being created has none yet.           *)
CounterInv(n) ==
    /\ value[n] \in Nat /\ added[n] \in Nat /\ creating[n] \in Nat /\ raced[n] \in BOOLEAN
    /\ value[n] <= added[n]
    /\ n \notin known => value[n] = 0 /\ added[n] = 0
    /\ ~raced[n] =>
          /\ value[n] = added[n]
          /\ creating[n] <= 1
          /\ creating[n] = 1 => n \notin known

RegistryInv ==
    /\ value \in [Names -> Nat] /\ added \in [Names -> Nat] /\ creating \in [Names -> Nat]
    /\ raced \in [Names -> BOOLEAN]
    /\ \A n \in Names : CounterInv(n)
    /\ \A n \in Registered : ~raced[n]

CountInv == ThreadInv /\ RegisteredInv /\ RegistryInv

LEMMA CountStart == Init => CountInv
<1> SUFFICES ASSUME Init PROVE CountInv
  OBVIOUS
<1>1. ThreadInv
  <2>1. pc["main"] = "start" /\ pc["auto"] = "unborn" /\ pc["ctrl"] = "away"
    BY DEF Init
  <2>2. DOMAIN pc = Threads /\ DOMAIN below = Threads
    BY DEF Init, Threads
  <2> QED  BY <2>1, <2>2 DEF ThreadInv, InHandler, At, Threads
<1>2. RegisteredInv
  BY DEF Init, RegistryInit, RegisteredInv, At, InHandler
<1>3. RegistryInv
  <2>1. /\ known = {} /\ value = [n \in Names |-> 0] /\ added = [n \in Names |-> 0]
        /\ raced = [n \in Names |-> FALSE] /\ creating = [n \in Names |-> 0]
    BY DEF Init, RegistryInit
  <2>2. ASSUME NEW n \in Names PROVE CounterInv(n)
    BY <2>1 DEF CounterInv
  <2> QED  BY <2>1, <2>2 DEF RegistryInv, Names
<1> QED  BY <1>1, <1>2, <1>3 DEF CountInv

(* Which steps move a thread, and how.                                     *)
LEMMA ThreadStep == ASSUME ThreadInv, [Next]_vars PROVE ThreadInv'
<1> USE DEF ThreadInv, InHandler, At, Threads, processVars
<1>1. CASE Main
  <2>1. CASE InitLock \/ InitOpen \/ InitLogLock \/ InitWrite
    BY <2>1 DEF InitLock, InitOpen, InitLogLock, InitWrite, Go
  <2>2. CASE MainRegister
    BY <2>2 DEF MainRegister
  <2>3. CASE MainLeave \/ MainFlush
    BY <2>3 DEF MainLeave, MainFlush, Go
  <2> QED  BY <1>1, <2>1, <2>2, <2>3 DEF Main
<1>2. CASE AutoLeave
  BY <1>2 DEF AutoLeave, Go
<1>3. ASSUME NEW t \in Threads, LogLock(t) \/ LogWrite(t) \/ Log(t) PROVE ThreadInv'
  BY <1>3 DEF LogLock, LogWrite, Log, Go
<1>4. ASSUME NEW t \in Threads, HandlerLock(t) \/ HandlerWrite(t) PROVE ThreadInv'
  BY <1>4 DEF HandlerLock, HandlerWrite, Go
<1>5. ASSUME NEW t \in Threads, HandlerReturn(t) PROVE ThreadInv'
  BY <1>5 DEF HandlerReturn, Go
<1>6. ASSUME NEW t \in Threads, Signal(t) PROVE ThreadInv'
  BY <1>6 DEF Signal
<1>7. CASE Count \/ (\E t \in Threads : LockThrows(t)) \/ UNCHANGED vars
  BY <1>7 DEF Count, LockThrows, vars, threadVars
<1> QED  BY <1>1, <1>2, <1>3, <1>4, <1>5, <1>6, <1>7 DEF Next, Thread

(* Only Register and Count touch the counters.                             *)
LEMMA OnlyTheseCount ==
    [Next]_vars => MainRegister \/ Count \/ UNCHANGED registryVars
<1> SUFFICES ASSUME [Next]_vars PROVE MainRegister \/ Count \/ UNCHANGED registryVars
  OBVIOUS
<1> USE DEF registryVars
<1>1. CASE Main \/ AutoLeave
  BY <1>1 DEF Main, InitLock, InitOpen, InitLogLock, InitWrite, MainLeave, MainFlush, AutoLeave
<1>2. ASSUME NEW t \in Threads, LogLock(t) \/ LogWrite(t) \/ Log(t) \/ Signal(t) PROVE UNCHANGED registryVars
  BY <1>2 DEF LogLock, LogWrite, Log, Signal
<1>3. ASSUME NEW t \in Threads, HandlerLock(t) \/ HandlerWrite(t) \/ HandlerReturn(t) \/ LockThrows(t)
      PROVE  UNCHANGED registryVars
  BY <1>3 DEF HandlerLock, HandlerWrite, HandlerReturn, LockThrows
<1>4. CASE UNCHANGED vars
  BY <1>4 DEF vars
<1> HIDE DEF registryVars
<1> QED  BY <1>1, <1>2, <1>3, <1>4 DEF Next, Thread, Threads

(* While Register has not been called, the threads stay where they are     *)
(* with respect to it.                                                     *)
LEMMA UnbornKept ==
    ASSUME ThreadInv, [Next]_vars, UNCHANGED registryVars \/ Count, ~MainRegister
    PROVE  At("auto")' = "unborn" <=> At("auto") = "unborn"
<1> USE DEF ThreadInv, InHandler, At, Threads
<1>1. CASE Main
  BY <1>1 DEF Main, InitLock, InitOpen, InitLogLock, InitWrite, MainLeave, MainFlush, Go, processVars
<1>2. CASE AutoLeave
  BY <1>2 DEF AutoLeave, Go
<1>3. ASSUME NEW t \in Threads, LogLock(t) \/ LogWrite(t) \/ Log(t) PROVE At("auto")' = "unborn" <=> At("auto") = "unborn"
  BY <1>3 DEF LogLock, LogWrite, Log, Go
<1>4. ASSUME NEW t \in Threads, HandlerLock(t) \/ HandlerWrite(t) \/ HandlerReturn(t)
      PROVE  At("auto")' = "unborn" <=> At("auto") = "unborn"
  BY <1>4 DEF HandlerLock, HandlerWrite, HandlerReturn, Go
<1>5. ASSUME NEW t \in Threads, Signal(t) PROVE At("auto")' = "unborn" <=> At("auto") = "unborn"
  BY <1>5 DEF Signal
<1>6. CASE Count \/ (\E t \in Threads : LockThrows(t)) \/ UNCHANGED vars
  BY <1>6 DEF Count, LockThrows, vars, threadVars
<1> QED  BY <1>1, <1>2, <1>3, <1>4, <1>5, <1>6 DEF Next, Thread

LEMMA RegistryStep == ASSUME CountInv, [Next]_vars PROVE RegisteredInv' /\ RegistryInv'
<1> ThreadInv /\ RegisteredInv /\ RegistryInv
  BY DEF CountInv
<1>1. CASE MainRegister
  <2>1. At("auto") = "unborn" /\ At("auto")' # "unborn"
    BY <1>1 DEF MainRegister, ThreadInv, At, InHandler, Threads
  <2>2. /\ known' = Registered /\ value' = [n \in Names |-> 0]
        /\ UNCHANGED <<added, raced, creating>> /\ \A n \in Names : creating[n] = 0 /\ added[n] = 0
    BY <1>1, <2>1 DEF MainRegister, Register, RegisteredInv
  <2>3. RegisteredInv'
    BY <2>1, <2>2 DEF RegisteredInv, Names
  <2>4. ASSUME NEW n \in Names PROVE CounterInv(n)'
    BY <2>2, <2>4 DEF RegistryInv, CounterInv
  <2> QED  BY <2>2, <2>3, <2>4 DEF RegistryInv
<1>2. CASE UNCHANGED registryVars /\ ~MainRegister
  BY <1>2, UnbornKept DEF registryVars, RegisteredInv, RegistryInv, CounterInv
<1>3. CASE Count /\ ~MainRegister
  <2>1. pc["auto"] # "unborn" /\ At("auto") # "unborn" /\ At("auto")' # "unborn"
    BY <1>3, UnbornKept DEF Count, At, ThreadInv
  <2>2. Registered \subseteq known /\ \A n \in Registered : creating[n] = 0
    BY <2>1 DEF RegisteredInv
  <2>3. PICK n \in Names : Add(n) \/ Miss(n) \/ Create(n)
    BY <1>3 DEF Count
  <2>4. known' \in {known, known \cup {n}} /\ \A k \in Names \ {n} : CounterInv(k)'
    BY <2>3 DEF Add, Miss, Create, RegistryInv, CounterInv
  <2>5. n \in Registered => Add(n)
    BY <2>2, <2>3 DEF Miss, Create
  <2>6. CASE Add(n)
    <3>1. CounterInv(n)'
      BY <2>6 DEF Add, RegistryInv, CounterInv
    <3> QED  BY <2>1, <2>2, <2>4, <2>6, <3>1 DEF Add, RegisteredInv, RegistryInv
  <2>7. CASE Miss(n)
    <3>2. /\ creating' = [creating EXCEPT ![n] = creating[n] + 1]
          /\ raced' = [raced EXCEPT ![n] = raced[n] \/ creating[n] > 0]
          /\ UNCHANGED <<known, value, added>> /\ n \notin known /\ CounterInv(n)
      BY <2>7 DEF Miss, RegistryInv
    <3>3. raced'[n] = (raced[n] \/ creating[n] > 0)
      BY <3>2 DEF RegistryInv
    <3>4. creating'[n] = creating[n] + 1 /\ UNCHANGED <<known, value, added>> /\ n \notin known /\ CounterInv(n)
      BY <3>2 DEF RegistryInv
    <3>1. CounterInv(n)'
      <4>0. /\ value'[n] \in Nat /\ added'[n] \in Nat /\ creating'[n] \in Nat /\ value'[n] <= added'[n]
            /\ n \notin known' /\ value'[n] = 0 /\ added'[n] = 0
        BY <3>4 DEF CounterInv
      <4>1. CASE raced[n] \/ creating[n] > 0
        <5>1. raced'[n] = TRUE
          BY <3>3, <4>1, Zenon
        <5> QED  BY <4>0, <5>1, Zenon DEF CounterInv
      <4>2. CASE ~(raced[n] \/ creating[n] > 0)
        <5>1. raced'[n] = FALSE
          BY <3>3, <4>2, Zenon
        <5>2. creating'[n] <= 1
          BY <3>4, <4>2 DEF CounterInv
        <5> QED  BY <4>0, <5>1, <5>2, Zenon DEF CounterInv
      <4> QED  BY <4>1, <4>2
    <3> QED  BY <2>1, <2>2, <2>4, <2>5, <2>7, <3>1 DEF Miss, RegisteredInv, RegistryInv, Names
  <2>8. CASE Create(n)
    <3>1. CounterInv(n)'
      BY <2>8 DEF Create, RegistryInv, CounterInv
    <3> QED  BY <2>1, <2>2, <2>4, <2>5, <2>8, <3>1 DEF Create, RegisteredInv, RegistryInv, CounterInv, Names
  <2> QED  BY <2>3, <2>6, <2>7, <2>8
<1> QED  BY <1>1, <1>2, <1>3, OnlyTheseCount

-----------------------------------------------------------------------------
(* The threads and the mutex *)

One(b) == IF b THEN 1 ELSE 0

HandlerPlaces == {"handler", "handler_write", "handler_flag"}

(* One thread at most is in the handler, with a place to return to.        *)
PlaceInv ==
    /\ pc \in [Threads -> Places] /\ below \in [Threads -> Places \cup {"none"}]
    /\ signalled \in BOOLEAN
    /\ \A t \in Threads : InHandler(t) => signalled /\ below[t] \in Places \ HandlerPlaces
    /\ \A t, u \in Threads : InHandler(t) /\ InHandler(u) => t = u
    /\ At("ctrl") = "away"

(* Where a thread holds the mutex. *)
HeldAt(place) == place \in {"open", "first_line", "write"} \/ (place = "init_log" /\ ~initRepaired)

Holds(t) == HeldAt(At(t)) \/ pc[t] = "handler_write"

(* Nobody holds it twice: the handler gets it only on a thread that did    *)
(* not have it.                                                            *)
HeldOnce == \A t \in Threads : pc[t] = "handler_write" => ~HeldAt(At(t))

MutexInv ==
    /\ mutex \in Threads \cup {NoOne}
    /\ \A t \in Threads : Holds(t) <=> mutex = t
    /\ HeldOnce

BuildInv == build \in Builds /\ process \in {"alive", "exited", "terminated"}

(* A line is written for a call of log, for init or for the signal: those  *)
(* that are not written yet are still due.                                 *)
InitDue == At("main") \in {"start", "open", "init_log", "first_line"}
LogDue(t) == At(t) \in {"lock", "write"}
HandlerDue == ~signalled \/ \E t \in Threads : pc[t] \in {"handler", "handler_write"}

LinesInv ==
    /\ lines \in Nat /\ calls \in Nat
    /\ lines + One(InitDue) + One(LogDue("main")) + One(LogDue("auto")) + One(HandlerDue) <= calls + 2

-----------------------------------------------------------------------------
(* The files *)

FileTypeOK ==
    /\ initialized \in BOOLEAN /\ fileOpen \in BOOLEAN
    /\ disk \in [Suffixes -> SUBSET (0..lines)]
    /\ log_files \in Seq(Suffixes) /\ Len(log_files) <= MaxFiles
    /\ current_file_size \in Nat
    /\ failures \in Nat /\ lines \in Nat

(* While nothing fails, the files listed are numbered without a gap, the   *)
(* last of them has the lines before those of the log file, and no other   *)
(* has any.                                                                *)
FilesInv ==
    failures = 0 =>
        /\ log_files = [i \in 1..Len(log_files) |-> i - 1]
        /\ current_file_size > 0 => disk[0] # {}
        /\ \E first, mid \in 1..lines + 1 :
              /\ first <= mid
              /\ disk[0] \ {0} = mid..lines
              /\ \A s \in Suffixes \ {0} :
                    disk[s] \ {0} = IF s = Len(log_files) - 1 THEN first..mid - 1 ELSE {}

SizeInv == \E longest \in LineSizes \cup {1} : current_file_size < MaxSize + longest

-----------------------------------------------------------------------------
(* What a rotation renames *)

(* How many renames a rotation makes. *)
Moves == Least(Len(log_files), MaxFiles - 1)

(* What the disk and the new list hold between two renames.                *)
Renamings == [disk : [Suffixes -> SUBSET (0..lines)], files : Seq(Suffixes)]

(* The loop of the rotation, rename by rename. *)
RenamedAfter(failing, after) ==
    /\ after[0] = [disk |-> disk, files |-> <<0>>]
    /\ \A i \in 1..Moves :
          after[i] = IF i \in failing \/ after[i - 1].disk[log_files[i]] = {} THEN after[i - 1]
                     ELSE [disk  |-> Moved(after[i - 1].disk, log_files[i], i),
                           files |-> Append(after[i - 1].files, i)]
    /\ Renames(failing) = after[Moves]

LEMMA MovesType ==
    ASSUME FileTypeOK
    PROVE  /\ Moves \in Nat /\ Moves <= Len(log_files) /\ Moves <= MaxFiles - 1
           /\ Moves = Len(log_files) \/ Moves = MaxFiles - 1
           /\ \A i \in 1..Moves : i \in Suffixes /\ log_files[i] \in Suffixes
           /\ 0 \in Suffixes
<1>1. Len(log_files) \in Nat /\ MaxFiles \in Nat /\ MaxFiles # 0 /\ log_files \in Seq(Suffixes)
  BY FilesAssumption DEF FileTypeOK
<1>2. /\ Moves \in Nat /\ Moves <= Len(log_files) /\ Moves <= MaxFiles - 1
      /\ Moves = Len(log_files) \/ Moves = MaxFiles - 1
  BY <1>1 DEF Moves, Least
<1>3. ASSUME NEW i \in 1..Moves PROVE i \in Suffixes /\ log_files[i] \in Suffixes
  <2>1. i \in 1..Len(log_files)
    BY <1>1, <1>2
  <2>2. i \in Suffixes
    BY <1>1, <1>2 DEF Suffixes
  <2> QED BY <1>1, <2>1, <2>2
<1> QED BY <1>1, <1>2, <1>3 DEF Suffixes

LEMMA RenamesSteps ==
    ASSUME FileTypeOK, NEW failing
    PROVE  \E after \in [0..Moves -> Renamings] : RenamedAfter(failing, after)
<1> DEFINE m == Moves
           x0 == [disk |-> disk, files |-> <<0>>]
           moved(i, k) == [disk |-> Moved(k.disk, log_files[i], i), files |-> Append(k.files, i)]
           step == [i \in 1..m |-> [k \in Renamings |->
                       IF i \in failing \/ k.disk[log_files[i]] = {} THEN k ELSE moved(i, k)]]
           IsAfter(f) == f = [i \in 0..m |->
               IF i = 0 THEN [disk |-> disk, files |-> <<0>>]
               ELSE IF i \in failing \/ f[i - 1].disk[log_files[i]] = {} THEN f[i - 1]
               ELSE [disk |-> Moved(f[i - 1].disk, log_files[i], i), files |-> Append(f[i - 1].files, i)]]
           after == CHOOSE f : IsAfter(f)
<1>1. m \in Nat /\ 0 \in Suffixes /\ \A i \in 1..m : i \in Suffixes /\ log_files[i] \in Suffixes
  BY MovesType
<1>2. x0 \in Renamings
  BY <1>1 DEF Renamings, FileTypeOK
<1>3. ASSUME NEW i \in 1..m, NEW k \in Renamings PROVE moved(i, k) \in Renamings
  <2>1. k.disk \in [Suffixes -> SUBSET (0..lines)] /\ k.files \in Seq(Suffixes)
    BY DEF Renamings
  <2>2. i \in Suffixes /\ log_files[i] \in Suffixes
    BY <1>1
  <2>3. Moved(k.disk, log_files[i], i) \in [Suffixes -> SUBSET (0..lines)]
    BY <2>1, <2>2 DEF Moved
  <2>4. Append(k.files, i) \in Seq(Suffixes)
    BY <2>1, <2>2
  <2> QED BY <2>3, <2>4 DEF Renamings
<1>4. step \in [1..m -> [Renamings -> Renamings]]
  <2> HIDE DEF moved, m
  <2> QED BY <1>3
<1>5. PICK g \in [0..m -> Renamings] : g[0] = x0 /\ \A i \in 1..m : g[i] = step[i][g[i - 1]]
  <2> HIDE DEF m, x0, step, IsAfter
  <2> QED BY <1>1, <1>2, <1>4, Recursion
<1>6. IsAfter(g)
  <2> HIDE DEF m
  <2>1. ASSUME NEW i \in 0..m
        PROVE  g[i] = IF i = 0 THEN [disk |-> disk, files |-> <<0>>]
                      ELSE IF i \in failing \/ g[i - 1].disk[log_files[i]] = {} THEN g[i - 1]
                      ELSE moved(i, g[i - 1])
    <3>1. CASE i = 0
      BY <1>5, <3>1
    <3>2. CASE i # 0
      <4>1. i \in 1..m /\ i - 1 \in 0..m
        BY <1>1, <3>2
      <4>2. g[i - 1] \in Renamings
        BY <1>5, <4>1
      <4> HIDE DEF moved
      <4>3. step[i][g[i - 1]] = IF i \in failing \/ g[i - 1].disk[log_files[i]] = {} THEN g[i - 1]
                                ELSE moved(i, g[i - 1])
        BY <4>1, <4>2
      <4> QED BY <1>5, <3>2, <4>1, <4>3
    <3> QED BY <3>1, <3>2
  <2> HIDE DEF step
  <2> QED BY <1>5, <2>1
<1>7. IsAfter(after)
  <2> HIDE DEF IsAfter
  <2> QED BY <1>6
<1>8. Renames(failing) = after[m]
  BY DEF Renames, Moves
<1> HIDE DEF after, step, m
<1>9. after[0] = x0 /\ DOMAIN after = 0..m
  BY <1>1, <1>7
<1>10. ASSUME NEW i \in 1..m
      PROVE  after[i] = IF i \in failing \/ after[i - 1].disk[log_files[i]] = {} THEN after[i - 1]
                        ELSE moved(i, after[i - 1])
  <2>1. i \in 0..m /\ i # 0
    BY <1>1
  <2> QED BY <1>7, <2>1
<1>11. \A i \in 0..m : after[i] \in Renamings
  <2> DEFINE Good == {i \in 0..m : after[i] \in Renamings}
  <2>1. 0 \in Good
    <3>1. 0 \in 0..m /\ after[0] \in Renamings
      BY <1>1, <1>2, <1>9
    <3> QED BY <3>1
  <2>2. ASSUME NEW i \in 1..m, i - 1 \in Good PROVE i \in Good
    <3>1. i \in 0..m /\ after[i - 1] \in Renamings
      BY <1>1, <2>2
    <3> HIDE DEF moved
    <3>2. after[i] \in Renamings
      BY <1>3, <1>10, <3>1
    <3> QED BY <3>1, <3>2
  <2> HIDE DEF Good
  <2>3. \A i \in 0..m : i \in Good
    BY <1>1, <2>1, <2>2, UpTo
  <2> QED BY <2>3 DEF Good
<1>12. after \in [0..m -> Renamings]
  <2>1. after = [i \in 0..m |-> after[i]]
    BY <1>7
  <2> QED BY <2>1, <1>11
<1> QED BY <1>8, <1>9, <1>10, <1>12 DEF RenamedAfter, m

(* Whichever renames fail, the list names max_files files at most.         *)
LEMMA RenamesType ==
    ASSUME FileTypeOK, NEW failing
    PROVE  Renames(failing) \in Renamings /\ Len(Renames(failing).files) <= MaxFiles
<1>1. PICK after \in [0..Moves -> Renamings] : RenamedAfter(failing, after)
  BY RenamesSteps
<1>2. Moves \in Nat /\ Moves <= MaxFiles - 1
  BY MovesType
<1> DEFINE Short == {i \in 0..Moves : Len(after[i].files) <= i + 1}
<1>3. 0 \in Short
  <2>1. 0 \in 0..Moves /\ Len(after[0].files) = 1 /\ 1 <= 0 + 1
    BY <1>1, <1>2 DEF RenamedAfter
  <2>2. Len(after[0].files) <= 0 + 1
    BY <2>1
  <2> QED BY <2>1, <2>2
<1>4. ASSUME NEW i \in 1..Moves, i - 1 \in Short PROVE i \in Short
  <2>1. i \in 0..Moves /\ i - 1 \in 0..Moves /\ Len(after[i - 1].files) <= i
    BY <1>2, <1>4
  <2>2. after[i - 1].files \in Seq(Suffixes)
    BY <1>1, <2>1 DEF Renamings
  <2>3. after[i].files = after[i - 1].files \/ after[i].files = Append(after[i - 1].files, i)
    <3>1. \/ after[i] = after[i - 1]
          \/ after[i] = [disk  |-> Moved(after[i - 1].disk, log_files[i], i),
                         files |-> Append(after[i - 1].files, i)]
      BY <1>1, Zenon DEF RenamedAfter
    <3> QED BY <3>1
  <2>4. Len(after[i].files) <= i + 1
    BY <2>1, <2>2, <2>3
  <2> QED BY <2>1, <2>4
<1> HIDE DEF Short
<1>5. \A i \in 0..Moves : i \in Short
  BY <1>2, <1>3, <1>4, UpTo
<1>6. Moves \in 0..Moves
  BY <1>2
<1>7. after[Moves] \in Renamings /\ Len(after[Moves].files) <= Moves + 1
  BY <1>1, <1>5, <1>6 DEF Short
<1>8. Len(after[Moves].files) \in Nat /\ MaxFiles \in Nat
  BY <1>7, FilesAssumption DEF Renamings
<1>9. Renames(failing) = after[Moves]
  BY <1>1 DEF RenamedAfter
<1> QED BY <1>2, <1>7, <1>8, <1>9

(* When none fails, the log file ends as the last file of the list, and    *)
(* those between are gone: each rename takes the file the one before made. *)
LEMMA RenamesAllWell ==
    ASSUME FileTypeOK, disk[0] # {}, log_files = [i \in 1..Len(log_files) |-> i - 1]
    PROVE  /\ Renames({}).disk = [s \in Suffixes |-> IF s = Moves THEN disk[0]
                                                     ELSE IF s < Moves THEN {} ELSE disk[s]]
           /\ Renames({}).files = [j \in 1..Moves + 1 |-> j - 1]
<1>1. PICK after \in [0..Moves -> Renamings] : RenamedAfter({}, after)
  BY RenamesSteps
<1>2. Moves \in Nat /\ Moves <= MaxFiles - 1 /\ Moves <= Len(log_files) /\ 0 \in Suffixes
      /\ \A i \in 1..Moves : i \in Suffixes
  BY MovesType
<1>3. disk \in [Suffixes -> SUBSET (0..lines)] /\ Len(log_files) \in Nat
  BY DEF FileTypeOK
<1> DEFINE shifted(i) == [s \in Suffixes |-> IF s = i THEN disk[0] ELSE IF s < i THEN {} ELSE disk[s]]
           numbered(i) == [j \in 1..i + 1 |-> j - 1]
           Good == {i \in 0..Moves : after[i].disk = shifted(i) /\ after[i].files = numbered(i)}
<1>4. 0 \in Good
  <2>1. 0 \in 0..Moves /\ after[0].disk = disk /\ after[0].files = <<0>>
    BY <1>1, <1>2 DEF RenamedAfter
  <2>2. shifted(0) = disk
    <3>1. \A s \in Suffixes : ~(s < 0)
      BY DEF Suffixes
    <3> QED BY <1>3, <3>1
  <2>3. numbered(0) = <<0>>
    OBVIOUS
  <2> QED BY <2>1, <2>2, <2>3
<1>5. ASSUME NEW i \in 1..Moves, i - 1 \in Good PROVE i \in Good
  <2>1. i \in 0..Moves /\ after[i - 1].disk = shifted(i - 1) /\ after[i - 1].files = numbered(i - 1)
    BY <1>2, <1>5
  <2>2. i \in Suffixes /\ i - 1 \in Suffixes /\ i \in Nat
    BY <1>2 DEF Suffixes
  <2>3. log_files[i] = i - 1
    <3>1. i \in 1..Len(log_files)
      BY <1>2, <1>3
    <3> QED BY <3>1
  <2>4. shifted(i - 1)[i - 1] = disk[0]
    BY <2>2
  <2>5. after[i].disk = Moved(shifted(i - 1), i - 1, i) /\ after[i].files = Append(numbered(i - 1), i)
    <3> HIDE DEF shifted, numbered
    <3>1. after[i] = [disk  |-> Moved(after[i - 1].disk, i - 1, i), files |-> Append(after[i - 1].files, i)]
      BY <1>1, <2>1, <2>3, <2>4 DEF RenamedAfter
    <3> QED BY <2>1, <3>1
  <2>6. Moved(shifted(i - 1), i - 1, i) = shifted(i)
    <3>1. ASSUME NEW s \in Suffixes PROVE Moved(shifted(i - 1), i - 1, i)[s] = shifted(i)[s]
      <4>1. s \in Nat
        BY DEF Suffixes
      <4>2. CASE s = i
        BY <2>2, <2>4, <4>2 DEF Moved
      <4>3. CASE s = i - 1
        <5>1. i # i - 1 /\ i - 1 < i
          BY <2>2
        <5>2. Moved(shifted(i - 1), i - 1, i)[i - 1] = {}
          BY <2>2, <5>1 DEF Moved
        <5>3. shifted(i)[i - 1] = {}
          BY <2>2, <5>1
        <5> QED BY <4>3, <5>2, <5>3
      <4>4. CASE s # i /\ s # i - 1
        <5>1. Moved(shifted(i - 1), i - 1, i)[s] = shifted(i - 1)[s]
          BY <4>4 DEF Moved
        <5>2. s < i <=> s < i - 1
          BY <2>2, <4>1, <4>4
        <5> QED BY <4>4, <5>1, <5>2
      <4> QED BY <4>2, <4>3, <4>4
    <3>2. shifted(i - 1) \in [Suffixes -> SUBSET (0..lines)] /\ shifted(i) \in [Suffixes -> SUBSET (0..lines)]
      BY <1>2, <1>3
    <3> DEFINE a == shifted(i - 1)
               b == shifted(i)
    <3> HIDE DEF a, b
    <3>3. Moved(a, i - 1, i) \in [Suffixes -> SUBSET (0..lines)]
      BY <2>2, <3>2 DEF Moved, a
    <3>4. \A s \in Suffixes : Moved(a, i - 1, i)[s] = b[s]
      BY <3>1 DEF a, b
    <3>5. b \in [Suffixes -> SUBSET (0..lines)]
      BY <3>2 DEF b
    <3>6. Moved(a, i - 1, i) = b
      BY <3>3, <3>4, <3>5
    <3> QED BY <3>6 DEF a, b
  <2>7. Append(numbered(i - 1), i) = numbered(i)
    <3> DEFINE a == numbered(i - 1)
    <3>1. a \in Seq(Nat) /\ Len(a) = i
      BY <2>2
    <3>2. Append(a, i) \in Seq(Nat) /\ Len(Append(a, i)) = i + 1
      BY <2>2, <3>1
    <3>3. numbered(i) \in Seq(Nat) /\ Len(numbered(i)) = i + 1
      BY <2>2
    <3>4. ASSUME NEW j \in 1..i + 1 PROVE Append(a, i)[j] = numbered(i)[j]
      <4>1. CASE j = i + 1
        BY <2>2, <3>1, <4>1
      <4>2. CASE j # i + 1
        <5>1. j \in 1..i
          BY <2>2, <4>2
        <5>2. Append(a, i)[j] = a[j]
          BY <3>1, <5>1
        <5>3. a[j] = j - 1
          BY <2>2, <5>1
        <5> QED BY <5>2, <5>3
      <4> QED BY <4>1, <4>2
    <3> DEFINE b == Append(a, i)
               c == numbered(i)
    <3> HIDE DEF b, c, a
    <3>5. b = c
      BY <3>2, <3>3, <3>4, SeqEqual DEF b, c
    <3> QED BY <2>2, <3>5 DEF a, b, c
  <2>8. after[i].disk = shifted(i) /\ after[i].files = numbered(i)
    BY <2>2, <2>5, <2>6, <2>7
  <2> QED BY <2>1, <2>8
<1> HIDE DEF Good
<1>6. \A i \in 0..Moves : i \in Good
  BY <1>2, <1>4, <1>5, UpTo
<1>7. Moves \in Good
  BY <1>2, <1>6
<1>8. after[Moves].disk = shifted(Moves) /\ after[Moves].files = numbered(Moves)
  BY <1>7 DEF Good
<1> QED BY <1>1, <1>8 DEF RenamedAfter

-----------------------------------------------------------------------------
(* What writing a line does to the files *)

LEMMA FailuresType ==
    ASSUME FileTypeOK, NEW failing \in SUBSET (1..Moves)
    PROVE  Cardinality(failing) \in Nat /\ (Cardinality(failing) = 0 <=> failing = {})
<1>1. IsFiniteSet(1..Moves)
  BY MovesType, FS_Interval
<1>2. IsFiniteSet(failing)
  BY <1>1, FS_Subset
<1> QED BY <1>2, FS_CardinalityType, FS_EmptySet

(* A line is appended, or it is the first of the file a rotation leaves,   *)
(* or that file could not be opened.                                       *)
LEMMA WriteCases ==
    ASSUME NEW size, WriteLine(size)
    PROVE  \/ /\ ~NeedsRotation
              /\ disk' = [disk EXCEPT ![0] = @ \cup {lines + 1}]
              /\ lines' = lines + 1
              /\ current_file_size' = current_file_size + size
              /\ UNCHANGED <<initialized, fileOpen, log_files, failures>>
           \/ /\ NeedsRotation
              /\ \E failing \in SUBSET (1..Moves) :
                    /\ log_files' = Renames(failing).files
                    /\ current_file_size' = size
                    /\ \/ /\ disk' = [Fresh(Removed(Renames(failing).disk)) EXCEPT ![0] = @ \cup {lines + 1}]
                          /\ lines' = lines + 1
                          /\ failures' = failures + Cardinality(failing)
                          /\ UNCHANGED <<initialized, fileOpen>>
                       \/ /\ failures' = failures + Cardinality(failing) + 1
                          /\ disk' = Removed(Renames(failing).disk)
                          /\ fileOpen' = FALSE
                          /\ UNCHANGED <<initialized, lines>>
BY Zenon DEF WriteLine, Moves

LEMMA WriteTypes ==
    ASSUME FileTypeOK, SizeInv, NEW size \in LineSizes, WriteLine(size)
    PROVE  FileTypeOK' /\ SizeInv' /\ lines' \in {lines, lines + 1}
<1>1. /\ disk \in [Suffixes -> SUBSET (0..lines)] /\ lines \in Nat /\ failures \in Nat
      /\ current_file_size \in Nat /\ initialized \in BOOLEAN /\ fileOpen \in BOOLEAN
      /\ log_files \in Seq(Suffixes) /\ Len(log_files) <= MaxFiles
      /\ size \in Nat /\ size > 0 /\ MaxSize \in Nat /\ 0 \in Suffixes
  BY LinesAssumption, FilesAssumption, MovesType DEF FileTypeOK
<1>2. ASSUME NEW d \in [Suffixes -> SUBSET (0..lines)]
      PROVE  [d EXCEPT ![0] = @ \cup {lines + 1}] \in [Suffixes -> SUBSET (0..lines + 1)]
  <2>1. \A s \in Suffixes : d[s] \subseteq 0..lines + 1
    BY <1>1
  <2>2. d[0] \cup {lines + 1} \subseteq 0..lines + 1
    BY <1>1, <2>1
  <2> QED BY <2>1, <2>2
<1>3. SizeInv'
  <2>1. current_file_size' = size \/ (current_file_size < MaxSize /\ current_file_size' = current_file_size + size)
    <3>1. current_file_size' = size \/ (~NeedsRotation /\ current_file_size' = current_file_size + size)
      BY Zenon DEF WriteLine
    <3> QED BY <1>1, <3>1 DEF NeedsRotation
  <2>2. current_file_size' < MaxSize + size
    BY <1>1, <2>1, FilesAssumption
  <2> QED BY <2>2 DEF SizeInv
<1>4. CASE ~NeedsRotation /\ disk' = [disk EXCEPT ![0] = @ \cup {lines + 1}]
           /\ lines' = lines + 1
           /\ current_file_size' = current_file_size + size
           /\ UNCHANGED <<initialized, fileOpen, log_files, failures>>
  <2>1. disk' \in [Suffixes -> SUBSET (0..lines')]
    BY <1>1, <1>2, <1>4
  <2> QED BY <1>1, <1>3, <1>4, <2>1 DEF FileTypeOK
<1>5. ASSUME NEW failing \in SUBSET (1..Moves),
             log_files' = Renames(failing).files,
             current_file_size' = size,
             \/ /\ disk' = [Fresh(Removed(Renames(failing).disk)) EXCEPT ![0] = @ \cup {lines + 1}]
                /\ lines' = lines + 1
                /\ failures' = failures + Cardinality(failing)
                /\ UNCHANGED <<initialized, fileOpen>>
             \/ /\ failures' = failures + Cardinality(failing) + 1
                /\ disk' = Removed(Renames(failing).disk)
                /\ fileOpen' = FALSE
                /\ UNCHANGED <<initialized, lines>>
      PROVE  FileTypeOK' /\ lines' \in {lines, lines + 1}
  <2> DEFINE d == Renames(failing).disk
  <2>1. d \in [Suffixes -> SUBSET (0..lines)] /\ log_files' \in Seq(Suffixes) /\ Len(log_files') <= MaxFiles
    BY <1>5, RenamesType DEF Renamings
  <2> HIDE DEF d
  <2>2. Removed(d) \in [Suffixes -> SUBSET (0..lines)]
    BY <2>1 DEF Removed
  <2>3. Fresh(Removed(d)) \in [Suffixes -> SUBSET (0..lines)]
    BY <2>2 DEF Fresh
  <2>4. Cardinality(failing) \in Nat
    BY <1>5, FailuresType
  <2>5. CASE disk' = [Fresh(Removed(d)) EXCEPT ![0] = @ \cup {lines + 1}] /\ lines' = lines + 1
             /\ failures' = failures + Cardinality(failing) /\ UNCHANGED <<initialized, fileOpen>>
    <3>1. disk' \in [Suffixes -> SUBSET (0..lines')]
      BY <1>2, <2>3, <2>5
    <3> QED BY <1>1, <1>5, <2>1, <2>4, <2>5, <3>1 DEF FileTypeOK
  <2>6. CASE failures' = failures + Cardinality(failing) + 1 /\ disk' = Removed(d) /\ fileOpen' = FALSE
             /\ UNCHANGED <<initialized, lines>>
    <3>1. disk' \in [Suffixes -> SUBSET (0..lines')]
      BY <2>2, <2>6
    <3>2. failures' \in Nat
      BY <1>1, <2>4, <2>6
    <3> QED BY <1>1, <1>5, <2>1, <2>6, <3>1, <3>2 DEF FileTypeOK
  <2> QED BY <1>5, <2>5, <2>6 DEF d
<1>6. CASE \E failing \in SUBSET (1..Moves) :
             /\ log_files' = Renames(failing).files
             /\ current_file_size' = size
             /\ \/ /\ disk' = [Fresh(Removed(Renames(failing).disk)) EXCEPT ![0] = @ \cup {lines + 1}]
                   /\ lines' = lines + 1
                   /\ failures' = failures + Cardinality(failing)
                   /\ UNCHANGED <<initialized, fileOpen>>
                \/ /\ failures' = failures + Cardinality(failing) + 1
                   /\ disk' = Removed(Renames(failing).disk)
                   /\ fileOpen' = FALSE
                   /\ UNCHANGED <<initialized, lines>>
  BY <1>3, <1>5, <1>6, Zenon
<1> QED BY <1>4, <1>6, WriteCases, Zenon

(* Without a failure it keeps the files in order. *)
LEMMA WriteKeepsFiles ==
    ASSUME FileTypeOK, FilesInv, NEW size \in LineSizes, WriteLine(size)
    PROVE  FilesInv'
<1> SUFFICES ASSUME failures' = 0 PROVE FilesInv'
  BY DEF FilesInv
<1> DEFINE k == Len(log_files)
<1>1. /\ disk \in [Suffixes -> SUBSET (0..lines)] /\ lines \in Nat /\ failures \in Nat
      /\ current_file_size \in Nat
      /\ log_files \in Seq(Suffixes) /\ k \in Nat /\ k <= MaxFiles
      /\ size \in Nat /\ size > 0 /\ MaxSize \in Nat /\ MaxSize > 0 /\ 0 \in Suffixes
      /\ MaxFiles \in Nat /\ MaxFiles > 0
  BY LinesAssumption, FilesAssumption, MovesType DEF FileTypeOK
<1>2. failures = 0
  <2>1. ASSUME NEW failing \in SUBSET (1..Moves),
               failures' = failures + Cardinality(failing) \/ failures' = failures + Cardinality(failing) + 1
        PROVE  failures = 0
    BY <1>1, <2>1, FailuresType
  <2>2. \/ failures' = failures
        \/ \E failing \in SUBSET (1..Moves) :
              failures' = failures + Cardinality(failing) \/ failures' = failures + Cardinality(failing) + 1
    BY WriteCases, Zenon
  <2> QED BY <2>1, <2>2
<1>3. log_files = [i \in 1..k |-> i - 1] /\ (current_file_size > 0 => disk[0] # {})
  BY <1>2 DEF FilesInv
<1>4. PICK first \in 1..lines + 1, mid \in 1..lines + 1 :
              /\ first <= mid
              /\ disk[0] \ {0} = mid..lines
              /\ \A s \in Suffixes \ {0} :
                    disk[s] \ {0} = IF s = k - 1 THEN first..mid - 1 ELSE {}
  BY <1>2, Zenon DEF FilesInv
<1>5. CASE ~NeedsRotation /\ disk' = [disk EXCEPT ![0] = @ \cup {lines + 1}]
           /\ lines' = lines + 1
           /\ current_file_size' = current_file_size + size
           /\ UNCHANGED <<initialized, fileOpen, log_files, failures>>
  <2>1. disk'[0] = disk[0] \cup {lines + 1} /\ \A s \in Suffixes \ {0} : disk'[s] = disk[s]
    BY <1>1, <1>5
  <2>2. disk'[0] \ {0} = mid..lines'
    <3>1. lines + 1 # 0
      BY <1>1
    <3>2. disk'[0] \ {0} = (mid..lines) \cup {lines + 1}
      BY <1>4, <2>1, <3>1
    <3>3. (mid..lines) \cup {lines + 1} = mid..lines + 1
      BY <1>1, <1>4
    <3> QED BY <1>5, <3>2, <3>3
  <2>3. first \in 1..lines' + 1 /\ mid \in 1..lines' + 1 /\ log_files' = log_files /\ disk'[0] # {}
    BY <1>1, <1>4, <1>5, <2>1
  <2>4. \A s \in Suffixes \ {0} : disk'[s] \ {0} = IF s = Len(log_files') - 1 THEN first..mid - 1 ELSE {}
    BY <1>4, <2>1, <2>3
  <2> QED BY <1>3, <1>4, <2>2, <2>3, <2>4 DEF FilesInv
<1>6. ASSUME NeedsRotation,
             log_files' = Renames({}).files,
             current_file_size' = size,
             disk' = [Fresh(Removed(Renames({}).disk)) EXCEPT ![0] = @ \cup {lines + 1}],
             lines' = lines + 1
      PROVE  FilesInv'
  <2> DEFINE m == Moves
             d == [s \in Suffixes |-> IF s = m THEN disk[0] ELSE IF s < m THEN {} ELSE disk[s]]
  <2>1. disk[0] # {}
    BY <1>1, <1>3, <1>6 DEF NeedsRotation
  <2>2. Renames({}).disk = d /\ Renames({}).files = [j \in 1..m + 1 |-> j - 1]
    BY <1>3, <2>1, RenamesAllWell
  <2>3. m \in Nat /\ m <= k /\ m <= MaxFiles - 1 /\ (m = k \/ m = MaxFiles - 1)
    BY MovesType
  <2>4. Outdated = IF k = MaxFiles THEN {MaxFiles - 1} ELSE {}
    <3>1. CASE k = MaxFiles
      <4>1. \A i \in MaxFiles..k : i = MaxFiles /\ log_files[i] = MaxFiles - 1
        BY <1>1, <1>3, <3>1
      <4>2. MaxFiles \in MaxFiles..k
        BY <1>1, <3>1
      <4> HIDE DEF k
      <4> QED BY <3>1, <4>1, <4>2 DEF Outdated, k
    <3>2. CASE k # MaxFiles
      <4>1. MaxFiles..k = {}
        BY <1>1, <3>2
      <4> QED BY <3>2, <4>1 DEF Outdated
    <3> QED BY <3>1, <3>2
  <2>5. disk' = [[s \in Suffixes |-> IF s \in Outdated THEN {} ELSE d[s]] EXCEPT ![0] = {lines + 1}]
    <3> DEFINE e == [s \in Suffixes |-> IF s \in Outdated THEN {} ELSE d[s]]
    <3>1. e \in [Suffixes -> SUBSET (0..lines)]
      BY <1>1
    <3>2. disk' = [[e EXCEPT ![0] = {}] EXCEPT ![0] = @ \cup {lines + 1}]
      BY <1>6, <2>2 DEF Fresh, Removed
    <3> HIDE DEF e
    <3>3. 0 \in DOMAIN e
      BY <1>1, <3>1
    <3>4. [[e EXCEPT ![0] = {}] EXCEPT ![0] = @ \cup {lines + 1}] = [e EXCEPT ![0] = {lines + 1}]
      BY <3>3
    <3> QED BY <3>2, <3>4 DEF e
  <2>6. disk'[0] = {lines + 1}
    BY <1>1, <2>5
  <2>7. ASSUME NEW s \in Suffixes \ {0}
        PROVE  disk'[s] = IF s \in Outdated THEN {} ELSE IF s = m THEN disk[0] ELSE IF s < m THEN {} ELSE disk[s]
    BY <2>5
  <2>8. Len(log_files') = m + 1 /\ log_files' = [i \in 1..Len(log_files') |-> i - 1]
    BY <1>6, <2>2, <2>3
  <2> HIDE DEF m, d, k
  <2>9. disk'[0] \ {0} = lines'..lines' /\ lines' \in 1..lines' + 1 /\ disk'[0] # {}
    <3>1. lines' \in Nat /\ lines' # 0
      BY <1>1, <1>6
    <3>2. disk'[0] = {lines'}
      BY <1>6, <2>6
    <3>3. lines'..lines' = {lines'}
      BY <3>1
    <3>4. {lines'} \ {0} = {lines'}
      BY <3>1
    <3>5. disk'[0] \ {0} = lines'..lines'
      BY <3>2, <3>3, <3>4, Zenon
    <3>6. lines' \in 1..lines' + 1
      <4>1. \A n \in Nat : n # 0 => n \in 1..n + 1
        OBVIOUS
      <4> QED BY <3>1, <4>1
    <3>7. disk'[0] # {}
      BY <3>2
    <3> QED BY <3>5, <3>6, <3>7
  <2>10. CASE k = MaxFiles
    <3>1. \A s \in Suffixes \ {0} : disk'[s] \ {0} = IF s = Len(log_files') - 1 THEN lines'..lines' - 1 ELSE {}
      <4> TAKE s \in Suffixes \ {0}
      <4>1. s \in Nat /\ s <= MaxFiles - 1 /\ m = MaxFiles - 1 /\ Len(log_files') - 1 = m
        BY <1>1, <2>3, <2>8, <2>10 DEF Suffixes
      <4>2. disk'[s] = {}
        BY <1>1, <2>4, <2>7, <2>10, <4>1
      <4>3. lines'..lines' - 1 = {}
        BY <1>1, <1>6
      <4> QED BY <4>2, <4>3
    <3>2. lines' <= lines'
      BY <1>1, <1>6
    <3> DEFINE InOrder(from, until) ==
                  /\ from <= until
                  /\ disk'[0] \ {0} = until..lines'
                  /\ \A s \in Suffixes \ {0} :
                        disk'[s] \ {0} = IF s = Len(log_files') - 1 THEN from..until - 1 ELSE {}
    <3>3. InOrder(lines', lines')
      BY <2>9, <3>1, <3>2, Zenon
    <3>4. \E from, until \in 1..lines' + 1 : InOrder(from, until)
      BY <2>9, <3>3, Zenon
    <3> QED BY <2>8, <2>9, <3>4, Zenon DEF FilesInv
  <2>11. CASE k # MaxFiles
    <3>1. m = k /\ Outdated = {}
      BY <1>1, <2>3, <2>4, <2>11
    <3>2. \A s \in Suffixes \ {0} : disk'[s] \ {0} = IF s = Len(log_files') - 1 THEN mid..lines' - 1 ELSE {}
      <4> TAKE s \in Suffixes \ {0}
      <4>1. s \in Nat /\ Len(log_files') - 1 = m /\ lines' - 1 = lines
        BY <1>1, <1>6, <2>3, <2>8 DEF Suffixes
      <4>2. CASE s = m
        BY <1>4, <2>7, <3>1, <4>1, <4>2
      <4>3. CASE s < m
        BY <2>3, <2>7, <3>1, <4>1, <4>3
      <4>4. CASE s > m
        <5>1. disk'[s] = disk[s] /\ s # k - 1
          BY <1>1, <2>3, <2>7, <3>1, <4>1, <4>4
        <5>2. disk[s] \ {0} = {}
          BY <1>4, <5>1
        <5>3. s # Len(log_files') - 1
          BY <2>3, <4>1, <4>4
        <5> QED BY <5>1, <5>2, <5>3
      <4> QED BY <2>3, <4>1, <4>2, <4>3, <4>4
    <3>3. mid \in 1..lines' + 1 /\ mid <= lines'
      BY <1>1, <1>4, <1>6
    <3> QED BY <2>8, <2>9, <3>2, <3>3 DEF FilesInv
  <2> QED BY <2>10, <2>11
<1>7. ASSUME NEW failing \in SUBSET (1..Moves), NeedsRotation,
             log_files' = Renames(failing).files,
             current_file_size' = size,
             \/ /\ disk' = [Fresh(Removed(Renames(failing).disk)) EXCEPT ![0] = @ \cup {lines + 1}]
                /\ lines' = lines + 1
                /\ failures' = failures + Cardinality(failing)
             \/ failures' = failures + Cardinality(failing) + 1
      PROVE  FilesInv'
  <2>1. Cardinality(failing) = 0 /\ failures' # failures + Cardinality(failing) + 1
    BY <1>1, <1>2, <1>7, FailuresType
  <2>2. failing = {}
    BY <2>1, FailuresType
  <2> QED BY <1>6, <1>7, <2>1, <2>2
<1>8. CASE NeedsRotation /\ \E failing \in SUBSET (1..Moves) :
             /\ log_files' = Renames(failing).files
             /\ current_file_size' = size
             /\ \/ /\ disk' = [Fresh(Removed(Renames(failing).disk)) EXCEPT ![0] = @ \cup {lines + 1}]
                   /\ lines' = lines + 1
                   /\ failures' = failures + Cardinality(failing)
                   /\ UNCHANGED <<initialized, fileOpen>>
                \/ /\ failures' = failures + Cardinality(failing) + 1
                   /\ disk' = Removed(Renames(failing).disk)
                   /\ fileOpen' = FALSE
                   /\ UNCHANGED <<initialized, lines>>
  BY <1>7, <1>8, Zenon
<1> QED BY <1>5, <1>8, WriteCases, Zenon

(* What the files hold then. *)
LEMMA FilesAreRecent == ASSUME FileTypeOK, FilesInv, SizeInv PROVE DiskIsRecent
<1> DEFINE k == Len(log_files)
           rotated == {s \in Suffixes \ {0} : disk[s] \ {0} # {}}
<1>1. /\ disk \in [Suffixes -> SUBSET (0..lines)] /\ lines \in Nat /\ 0 \in Suffixes
      /\ k \in Nat /\ k <= MaxFiles /\ MaxFiles \in Nat
  BY FilesAssumption, MovesType DEF FileTypeOK
<1>2. ASSUME failures = 0
      PROVE  (\E first \in 1..(lines + 1) : Kept = first..lines) /\ Cardinality(rotated) <= 1
  <2>1. PICK first \in 1..lines + 1, mid \in 1..lines + 1 :
              /\ first <= mid
              /\ disk[0] \ {0} = mid..lines
              /\ \A s \in Suffixes \ {0} :
                    disk[s] \ {0} = IF s = k - 1 THEN first..mid - 1 ELSE {}
    BY <1>2, Zenon DEF FilesInv
  <2>2. \A x : x \in Kept <=> x # 0 /\ \E s \in Suffixes : x \in disk[s]
    <3>1. \A x : x \in UNION {disk[s] : s \in Suffixes} <=> \E s \in Suffixes : x \in disk[s]
      BY Zenon
    <3> QED BY <3>1 DEF Kept
  <2>3. CASE k - 1 \in Suffixes \ {0}
    <3>1. \A x : x \in Kept <=> x \in mid..lines \/ x \in first..mid - 1
      BY <1>1, <2>1, <2>2, <2>3
    <3>2. \A x : x \in first..lines <=> x \in mid..lines \/ x \in first..mid - 1
      BY <1>1, <2>1
    <3>3. Kept = first..lines
      BY <3>1, <3>2
    <3>4. rotated \subseteq {k - 1}
      BY <2>1
    <3> HIDE DEF rotated, k
    <3>5. IsFiniteSet({k - 1}) /\ Cardinality({k - 1}) = 1
      BY FS_Singleton
    <3>6. Cardinality(rotated) <= 1
      BY <3>4, <3>5, FS_Subset
    <3> QED BY <3>3, <3>6
  <2>4. CASE k - 1 \notin Suffixes \ {0}
    <3>1. \A s \in Suffixes \ {0} : disk[s] \ {0} = {}
      BY <2>1, <2>4
    <3>2. \A x : x \in Kept <=> x \in mid..lines
      BY <1>1, <2>1, <2>2, <3>1
    <3>3. Kept = mid..lines
      BY <3>2
    <3>4. rotated = {}
      BY <3>1
    <3>5. Cardinality(rotated) = 0
      BY <3>4, FS_EmptySet
    <3> QED BY <3>3, <3>5
  <2> QED BY <2>3, <2>4
<1> QED BY <1>2 DEF DiskIsRecent, SizeInv

(* A line is written to a file, init opens it, or the files stay.          *)
LEMMA OnlyTheseTouchFiles ==
    [Next]_vars => \/ OpenFile
                   \/ \E size \in LineSizes : WriteLine(size)
                   \/ UNCHANGED fileVars
<1> SUFFICES ASSUME [Next]_vars
             PROVE  OpenFile \/ (\E size \in LineSizes : WriteLine(size)) \/ UNCHANGED fileVars
  OBVIOUS
<1>1. Write => (\E size \in LineSizes : WriteLine(size)) \/ UNCHANGED fileVars
  BY DEF Write, WriteNothing
<1>2. CASE Main \/ AutoLeave
  <2>1. Main \/ AutoLeave => OpenFile \/ Write \/ UNCHANGED fileVars
    BY Zenon DEF Main, InitLock, InitOpen, InitLogLock, InitWrite, MainRegister, MainLeave, MainFlush,
                 AutoLeave
  <2> QED BY <1>1, <1>2, <2>1, Zenon
<1>3. ASSUME NEW t \in Threads, LogLock(t) \/ LogWrite(t) \/ Log(t) \/ Signal(t)
      PROVE  Write \/ UNCHANGED fileVars
  BY <1>3, Zenon DEF LogLock, LogWrite, Log, Signal
<1>4. ASSUME NEW t \in Threads, HandlerLock(t) \/ HandlerWrite(t) \/ HandlerReturn(t) \/ LockThrows(t)
      PROVE  Write \/ UNCHANGED fileVars
  BY <1>4, Zenon DEF HandlerLock, HandlerWrite, HandlerReturn, LockThrows
<1>5. CASE Count \/ UNCHANGED vars
  BY <1>5, Zenon DEF Count, vars
<1>6. CASE \E t \in {"main", "auto"} : Log(t)
  BY <1>6, Zenon DEF Log
<1> QED BY <1>1, <1>2, <1>3, <1>4, <1>5, <1>6, Zenon DEF Next, Thread

LEMMA FilesStep ==
    ASSUME FileTypeOK, FilesInv, SizeInv, [Next]_vars
    PROVE  FileTypeOK' /\ FilesInv' /\ SizeInv' /\ lines' \in {lines, lines + 1}
<1>1. CASE OpenFile
  <2>1. /\ disk' = disk /\ log_files' = log_files /\ lines' = lines /\ initialized' = TRUE
        /\ fileOpen' \in BOOLEAN /\ failures' \in {failures, failures + 1}
        /\ current_file_size' = 0 \/ (disk[0] # {} /\ current_file_size' \in {1, MaxSize})
    BY <1>1 DEF OpenFile
  <2>2. MaxSize \in Nat /\ MaxSize # 0 /\ failures \in Nat
    BY FilesAssumption DEF FileTypeOK
  <2>3. FileTypeOK'
    BY <2>1, <2>2 DEF FileTypeOK
  <2>4. SizeInv'
    <3>1. current_file_size' < MaxSize + 1
      BY <2>1, <2>2
    <3> QED BY <3>1 DEF SizeInv
  <2>5. FilesInv'
    <3> SUFFICES ASSUME failures' = 0 PROVE FilesInv'
      BY DEF FilesInv
    <3>1. failures = 0
      BY <2>1, <2>2
    <3>2. current_file_size' > 0 => disk'[0] # {}
      BY <2>1
    <3> QED BY <2>1, <3>1, <3>2 DEF FilesInv
  <2> QED BY <2>1, <2>3, <2>4, <2>5
<1>2. CASE \E size \in LineSizes : WriteLine(size)
  BY <1>2, WriteTypes, WriteKeepsFiles, Zenon
<1>3. CASE UNCHANGED fileVars
  <2>1. /\ disk' = disk /\ log_files' = log_files /\ lines' = lines /\ initialized' = initialized
        /\ fileOpen' = fileOpen /\ failures' = failures /\ current_file_size' = current_file_size
    BY <1>3 DEF fileVars
  <2>2. FileTypeOK'
    BY <2>1 DEF FileTypeOK
  <2>3. FilesInv'
    BY <2>1 DEF FilesInv
  <2>4. SizeInv'
    BY <2>1 DEF SizeInv
  <2> QED BY <2>1, <2>2, <2>3, <2>4
<1> QED BY <1>1, <1>2, <1>3, OnlyTheseTouchFiles

-----------------------------------------------------------------------------
(* What the steps do to the threads *)

LEMMA PlaceStep == ASSUME PlaceInv, [Next]_vars PROVE PlaceInv'
<1> USE DEF PlaceInv, InHandler, Places, HandlerPlaces, At
<1>1. ASSUME NEW t \in Threads, NEW from, NEW to \in Places \ HandlerPlaces, Go(t, from, to),
             from \notin HandlerPlaces \cup {"away"}, UNCHANGED <<below, signalled>>
      PROVE  PlaceInv'
  BY <1>1 DEF Go
<1>2. ASSUME NEW t \in Threads, NEW from \in HandlerPlaces, NEW to \in HandlerPlaces, Go(t, from, to),
             UNCHANGED <<below, signalled>>
      PROVE  PlaceInv'
  BY <1>2 DEF Go
<1>3. CASE Main
  <2>1. "main" \in Threads
    BY DEF Threads
  <2>2. CASE InitLock \/ InitOpen \/ InitLogLock \/ InitWrite
    BY <1>1, <2>1, <2>2 DEF InitLock, InitOpen, InitLogLock, InitWrite, processVars
  <2>3. CASE MainRegister
    BY <2>3 DEF MainRegister, processVars, Threads
  <2>4. CASE MainLeave \/ MainFlush
    BY <1>1, <2>1, <2>4 DEF MainLeave, MainFlush, processVars
  <2> QED BY <1>3, <2>2, <2>3, <2>4 DEF Main
<1>4. CASE AutoLeave
  BY <1>1, <1>4 DEF AutoLeave, processVars, Threads
<1>5. ASSUME NEW t \in Threads, LogLock(t) \/ LogWrite(t) \/ Log(t) PROVE PlaceInv'
  BY <1>1, <1>5 DEF LogLock, LogWrite, Log, processVars
<1>6. ASSUME NEW t \in Threads, HandlerLock(t) \/ HandlerWrite(t) PROVE PlaceInv'
  BY <1>2, <1>6 DEF HandlerLock, HandlerWrite, processVars
<1>7. ASSUME NEW t \in Threads, HandlerReturn(t) PROVE PlaceInv'
  BY <1>7 DEF HandlerReturn, Go
<1>8. ASSUME NEW t \in Threads, Signal(t) PROVE PlaceInv'
  BY <1>8 DEF Signal
<1>9. CASE Count \/ (\E t \in Threads : LockThrows(t)) \/ UNCHANGED vars
  BY <1>9 DEF Count, LockThrows, vars, threadVars, processVars
<1> QED BY <1>3, <1>4, <1>5, <1>6, <1>7, <1>8, <1>9 DEF Next, Thread, Threads

(* A step outside the handler moves a thread from a place to another, and  *)
(* leaves the others where they are.                                       *)
LEMMA Goes ==
    ASSUME PlaceInv, NEW t \in Threads, NEW from \in Places \ HandlerPlaces, NEW to \in Places \ HandlerPlaces,
           Go(t, from, to), UNCHANGED below
    PROVE  /\ At(t) = from /\ At(t)' = to
           /\ pc[t] # "handler_write" /\ pc'[t] # "handler_write"
           /\ \A u \in Threads \ {t} : At(u)' = At(u) /\ pc'[u] = pc[u]
BY DEF Go, PlaceInv, At, InHandler, HandlerPlaces

(* One inside the handler leaves them all where they would be without it.  *)
LEMMA GoesInHandler ==
    ASSUME PlaceInv, NEW t \in Threads, NEW from \in HandlerPlaces, NEW to \in HandlerPlaces,
           Go(t, from, to), UNCHANGED below
    PROVE  \A u \in Threads : At(u)' = At(u) /\ pc'[u] = IF u = t THEN to ELSE pc[u]
BY DEF Go, PlaceInv, At, InHandler, HandlerPlaces, Places

(* So do the signal and the return from its handler.                       *)
LEMMA SignalStays ==
    ASSUME PlaceInv, NEW t \in Threads, Signal(t) \/ HandlerReturn(t)
    PROVE  \A u \in Threads : /\ At(u)' = At(u)
                              /\ pc[u] # "handler_write" /\ pc'[u] # "handler_write"
<1> USE DEF PlaceInv, At, InHandler, HandlerPlaces, Places
<1>1. CASE Signal(t)
  BY <1>1 DEF Signal
<1>2. CASE HandlerReturn(t)
  BY <1>2 DEF HandlerReturn, Go
<1> QED BY <1>1, <1>2

LEMMA BuildStays == [Next]_vars => UNCHANGED buildVars
<1> SUFFICES ASSUME [Next]_vars PROVE UNCHANGED buildVars
  OBVIOUS
<1>1. CASE Main \/ AutoLeave
  BY <1>1, Zenon DEF Main, InitLock, InitOpen, InitLogLock, InitWrite, MainRegister, MainLeave, MainFlush, AutoLeave
<1>2. ASSUME NEW t \in Threads, LogLock(t) \/ LogWrite(t) \/ Log(t) \/ Signal(t) PROVE UNCHANGED buildVars
  BY <1>2, Zenon DEF LogLock, LogWrite, Log, Signal
<1>3. ASSUME NEW t \in Threads, HandlerLock(t) \/ HandlerWrite(t) \/ HandlerReturn(t) \/ LockThrows(t)
      PROVE  UNCHANGED buildVars
  BY <1>3, Zenon DEF HandlerLock, HandlerWrite, HandlerReturn, LockThrows
<1>4. CASE Count \/ UNCHANGED vars
  BY <1>4, Zenon DEF Count, vars
<1> QED  BY <1>1, <1>2, <1>3, <1>4 DEF Next, Thread, Threads

(* What the process is after a step. *)
LEMMA ProcessSteps ==
    [Next]_vars => \/ process' = process
                   \/ MainFlush /\ process' = "exited"
                   \/ (\E t \in Threads : LockThrows(t)) /\ process' = "terminated"
<1> SUFFICES ASSUME [Next]_vars
             PROVE  \/ process' = process
                    \/ MainFlush /\ process' = "exited"
                    \/ (\E t \in Threads : LockThrows(t)) /\ process' = "terminated"
  OBVIOUS
<1>1. CASE Main \/ AutoLeave
  BY <1>1, Zenon DEF Main, InitLock, InitOpen, InitLogLock, InitWrite, MainRegister, MainLeave, MainFlush, AutoLeave,
                     processVars
<1>2. ASSUME NEW t \in Threads, LogLock(t) \/ LogWrite(t) \/ Log(t) \/ Signal(t) PROVE process' = process
  BY <1>2, Zenon DEF LogLock, LogWrite, Log, Signal, processVars
<1>3. ASSUME NEW t \in Threads, HandlerLock(t) \/ HandlerWrite(t) \/ HandlerReturn(t) PROVE process' = process
  BY <1>3, Zenon DEF HandlerLock, HandlerWrite, HandlerReturn, processVars
<1>4. ASSUME NEW t \in Threads, LockThrows(t) PROVE process' = "terminated"
  BY <1>4, Zenon DEF LockThrows
<1>5. CASE Count \/ UNCHANGED vars
  BY <1>5, Zenon DEF Count, vars, processVars
<1> QED  BY <1>1, <1>2, <1>3, <1>4, <1>5 DEF Next, Thread, Threads

LEMMA BuildStep == ASSUME BuildInv, [Next]_vars PROVE BuildInv'
<1>1. build' = build
  BY BuildStays DEF buildVars
<1>2. process' \in {process, "exited", "terminated"}
  BY ProcessSteps
<1> QED BY <1>1, <1>2 DEF BuildInv

(* A thread takes the mutex, or gives it back. *)
LEMMA LockHolds ==
    ASSUME MutexInv, NEW t \in Threads, Lock(t), Holds(t)', HeldOnce',
           \A u \in Threads \ {t} : Holds(u)' <=> Holds(u)
    PROVE  MutexInv'
<1>1. mutex' = t /\ mutex = NoOne /\ NoOne \notin Threads
  BY DEF Lock, Threads, NoOne
<1>2. \A u \in Threads : ~Holds(u)
  BY <1>1 DEF MutexInv
<1>3. \A u \in Threads : Holds(u)' <=> mutex' = u
  BY <1>1, <1>2
<1> QED BY <1>1, <1>3 DEF MutexInv

LEMMA UnlockHolds ==
    ASSUME MutexInv, NEW t \in Threads, Unlock(t), Holds(t), ~Holds(t)', HeldOnce',
           \A u \in Threads \ {t} : Holds(u)' <=> Holds(u)
    PROVE  MutexInv'
<1>1. mutex' = NoOne /\ mutex = t /\ NoOne \notin Threads
  BY DEF Unlock, MutexInv, Threads, NoOne
<1>2. \A u \in Threads \ {t} : ~Holds(u)
  BY <1>1 DEF MutexInv
<1>3. \A u \in Threads : ~Holds(u)'
  BY <1>2
<1> QED BY <1>1, <1>3 DEF MutexInv

LEMMA StayHolds ==
    ASSUME MutexInv, UNCHANGED mutex, HeldOnce', \A u \in Threads : Holds(u)' <=> Holds(u)
    PROVE  MutexInv'
BY DEF MutexInv

LEMMA MutexStep == ASSUME ThreadInv, PlaceInv, MutexInv, [Next]_vars PROVE MutexInv'
<1>0. /\ initRepaired' = initRepaired
      /\ \A place : HeldAt(place)' <=> HeldAt(place)
      /\ HeldOnce
  BY BuildStays DEF buildVars, HeldAt, MutexInv
<1>1. ASSUME NEW t \in Threads, NEW from \in Places \ HandlerPlaces, NEW to \in Places \ HandlerPlaces,
             Go(t, from, to), UNCHANGED below
      PROVE  /\ Holds(t) <=> HeldAt(from)
             /\ Holds(t)' <=> HeldAt(to)
             /\ \A u \in Threads \ {t} : Holds(u)' <=> Holds(u)
             /\ HeldOnce'
  <2>1. /\ At(t) = from /\ At(t)' = to
        /\ pc[t] # "handler_write" /\ pc'[t] # "handler_write"
        /\ \A u \in Threads \ {t} : At(u)' = At(u) /\ pc'[u] = pc[u]
    BY <1>1, Goes
  <2>2. HeldAt(to)' <=> HeldAt(to)
    BY <1>0
  <2>3. \A u \in Threads \ {t} : HeldAt(At(u))' <=> HeldAt(At(u))
    BY <1>0, <2>1 DEF HeldAt
  <2>4. HeldOnce'
    BY <1>0, <2>1, <2>3 DEF HeldOnce
  <2>5. Holds(t)' <=> HeldAt(to)
    BY <1>0, <2>1 DEF Holds, HeldAt
  <2> QED BY <2>1, <2>3, <2>4, <2>5 DEF Holds
<1>2. CASE InitLock
  BY <1>1, <1>2, LockHolds DEF InitLock, Threads, Places, HandlerPlaces, HeldAt
<1>3. CASE InitOpen
  <2>1. "main" \in Threads /\ Go("main", "open", "init_log") /\ UNCHANGED below
    BY <1>3 DEF InitOpen, Threads
  <2>2. /\ Holds("main") /\ HeldOnce'
        /\ Holds("main")' <=> ~initRepaired
        /\ \A u \in Threads \ {"main"} : Holds(u)' <=> Holds(u)
    BY <1>1, <2>1 DEF Places, HandlerPlaces, HeldAt
  <2>3. CASE initRepaired
    <3>1. Unlock("main")
      BY <1>3, <2>3 DEF InitOpen
    <3> QED BY <2>1, <2>2, <2>3, <3>1, UnlockHolds
  <2>4. CASE ~initRepaired
    <3>1. UNCHANGED mutex
      BY <1>3, <2>4 DEF InitOpen
    <3>2. \A u \in Threads : Holds(u)' <=> Holds(u)
      BY <2>2, <2>4
    <3> QED BY <2>2, <3>1, <3>2, StayHolds
  <2> QED BY <2>3, <2>4
<1>4. CASE InitLogLock
  <2>1. "main" \in Threads /\ Go("main", "init_log", "first_line") /\ UNCHANGED below /\ Lock("main")
    BY <1>4 DEF InitLogLock, Threads
  <2>2. Holds("main")' /\ HeldOnce' /\ \A u \in Threads \ {"main"} : Holds(u)' <=> Holds(u)
    BY <1>1, <2>1 DEF Places, HandlerPlaces, HeldAt
  <2> QED BY <2>1, <2>2, LockHolds
<1>5. CASE InitWrite
  BY <1>1, <1>5, UnlockHolds DEF InitWrite, Threads, Places, HandlerPlaces, HeldAt
<1>7. CASE MainRegister
  <2>1. /\ pc' = [pc EXCEPT !["main"] = "idle", !["auto"] = "idle"] /\ below' = below
        /\ pc["main"] = "register" /\ pc["auto"] = "unborn" /\ DOMAIN pc = Threads
    BY <1>7 DEF MainRegister, ThreadInv, At, InHandler
  <2>2. /\ pc'["main"] = "idle" /\ pc'["auto"] = "idle" /\ pc'["ctrl"] = pc["ctrl"]
    BY <2>1 DEF Threads
  <2>3. ~Holds("main") /\ ~Holds("main")' /\ ~Holds("auto") /\ ~Holds("auto")'
    BY <2>1, <2>2 DEF Holds, HeldAt, At, InHandler
  <2>4. Holds("ctrl")' <=> Holds("ctrl")
    BY <1>0, <2>1, <2>2 DEF Holds, HeldAt, At, InHandler
  <2>5. \A u \in Threads : Holds(u)' <=> Holds(u)
    BY <2>3, <2>4 DEF Threads
  <2>6. HeldOnce'
    BY <1>0, <2>1, <2>2 DEF HeldOnce, HeldAt, At, InHandler, Threads
  <2> QED BY <1>7, <2>5, <2>6, StayHolds DEF MainRegister
<1>8. CASE MainLeave \/ MainFlush \/ AutoLeave
  <2>1. \E t \in Threads : \E from \in {"idle", "flush"}, to \in {"flush", "done", "ended"} :
           Go(t, from, to) /\ UNCHANGED <<below, mutex>>
    BY <1>8, Zenon DEF MainLeave, MainFlush, AutoLeave, Threads
  <2> QED BY <1>1, <2>1, StayHolds DEF Places, HandlerPlaces, HeldAt
<1>9. ASSUME NEW t \in Threads, Log(t) PROVE MutexInv'
  BY <1>1, <1>9, StayHolds DEF Log, Places, HandlerPlaces, HeldAt
<1>10. ASSUME NEW t \in Threads, LogLock(t) PROVE MutexInv'
  BY <1>1, <1>10, LockHolds DEF LogLock, Places, HandlerPlaces, HeldAt
<1>11. ASSUME NEW t \in Threads, LogWrite(t) PROVE MutexInv'
  BY <1>1, <1>11, UnlockHolds DEF LogWrite, Places, HandlerPlaces, HeldAt
<1>12. ASSUME NEW t \in Threads, HandlerLock(t) PROVE MutexInv'
  <2>1. Go(t, "handler", "handler_write") /\ UNCHANGED below /\ Lock(t)
    BY <1>12 DEF HandlerLock
  <2>2. \A u \in Threads : At(u)' = At(u) /\ pc'[u] = IF u = t THEN "handler_write" ELSE pc[u]
    BY <2>1, GoesInHandler DEF HandlerPlaces
  <2>3. \A u \in Threads : HeldAt(At(u))' <=> HeldAt(At(u))
    BY <1>0, <2>2 DEF HeldAt
  <2>4. ~HeldAt(At(t))
    BY <2>1 DEF Lock, MutexInv, Holds, Threads, NoOne
  <2>5. Holds(t)' /\ \A u \in Threads \ {t} : Holds(u)' <=> Holds(u)
    BY <2>2, <2>3 DEF Holds
  <2>6. HeldOnce'
    BY <1>0, <2>2, <2>3, <2>4 DEF HeldOnce
  <2> QED BY <2>1, <2>5, <2>6, LockHolds
<1>13. ASSUME NEW t \in Threads, HandlerWrite(t) PROVE MutexInv'
  <2>1. Go(t, "handler_write", "handler_flag") /\ UNCHANGED below /\ Unlock(t)
    BY <1>13 DEF HandlerWrite
  <2>2. \A u \in Threads : At(u)' = At(u) /\ pc'[u] = IF u = t THEN "handler_flag" ELSE pc[u]
    BY <2>1, GoesInHandler DEF HandlerPlaces
  <2>3. pc[t] = "handler_write"
    BY <2>1 DEF Go
  <2>4. \A u \in Threads : HeldAt(At(u))' <=> HeldAt(At(u))
    BY <1>0, <2>2 DEF HeldAt
  <2>5. /\ Holds(t) /\ ~Holds(t)' /\ HeldOnce'
        /\ \A u \in Threads \ {t} : Holds(u)' <=> Holds(u)
    BY <1>0, <2>2, <2>3, <2>4 DEF Holds, HeldOnce
  <2> QED BY <2>1, <2>5, UnlockHolds
<1>14. ASSUME NEW t \in Threads, Signal(t) \/ HandlerReturn(t) PROVE MutexInv'
  <2>1. \A u \in Threads : At(u)' = At(u) /\ pc[u] # "handler_write" /\ pc'[u] # "handler_write"
    BY <1>14, SignalStays
  <2>2. \A u \in Threads : HeldAt(At(u))' <=> HeldAt(At(u))
    BY <1>0, <2>1 DEF HeldAt
  <2>3. HeldOnce' /\ \A u \in Threads : Holds(u)' <=> Holds(u)
    BY <2>1, <2>2 DEF Holds, HeldOnce
  <2> QED BY <1>14, <2>3, StayHolds DEF Signal, HandlerReturn
<1>15. CASE Count \/ (\E t \in Threads : LockThrows(t)) \/ UNCHANGED vars
  <2>1. UNCHANGED <<pc, below, mutex>>
    BY <1>15 DEF Count, LockThrows, vars, threadVars
  <2>2. \A u \in Threads : At(u)' = At(u) /\ pc'[u] = pc[u] /\ (HeldAt(At(u))' <=> HeldAt(At(u)))
    BY <1>0, <2>1 DEF At, InHandler, HeldAt
  <2> QED BY <1>0, <2>1, <2>2, StayHolds DEF Holds, HeldOnce
<1> QED BY <1>2, <1>3, <1>4, <1>5, <1>7, <1>8, <1>9, <1>10, <1>11, <1>12, <1>13, <1>14, <1>15
        DEF Next, Thread, Main, Threads

(* No step writes a line that was not due. *)
LEMMA LinesStep ==
    ASSUME ThreadInv, PlaceInv, LinesInv, lines' \in {lines, lines + 1}, [Next]_vars
    PROVE  LinesInv'
<1> DEFINE due == One(InitDue) + One(LogDue("main")) + One(LogDue("auto")) + One(HandlerDue)
<1>1. /\ One(InitDue) \in Nat /\ One(LogDue("main")) \in Nat /\ One(LogDue("auto")) \in Nat
      /\ One(HandlerDue) \in Nat
      /\ One(InitDue)' \in Nat /\ One(LogDue("main"))' \in Nat /\ One(LogDue("auto"))' \in Nat
      /\ One(HandlerDue)' \in Nat
  BY DEF One
<1>2. lines \in Nat /\ calls \in Nat /\ lines + due <= calls + 2
  BY <1>1 DEF LinesInv
<1> HIDE DEF LinesInv
<1>3. ASSUME lines' = lines \/ due' + 1 <= due, calls' = calls, due' <= due PROVE LinesInv'
  BY <1>1, <1>2, <1>3 DEF LinesInv
<1>4. ASSUME lines' = lines, calls' = calls + 1, due' <= due + 1 PROVE LinesInv'
  BY <1>1, <1>2, <1>4 DEF LinesInv
<1>5. ASSUME NEW t \in Threads, NEW from \in Places \ HandlerPlaces, NEW to \in Places \ HandlerPlaces,
             Go(t, from, to), UNCHANGED <<below, signalled>>
      PROVE  /\ t # "main" => /\ InitDue' <=> InitDue
                              /\ LogDue("main")' <=> LogDue("main")
             /\ t # "auto" => (LogDue("auto")' <=> LogDue("auto"))
             /\ t = "main" => /\ InitDue <=> from \in {"start", "open", "init_log", "first_line"}
                              /\ InitDue' <=> to \in {"start", "open", "init_log", "first_line"}
             /\ LogDue(t) <=> from \in {"lock", "write"}
             /\ LogDue(t)' <=> to \in {"lock", "write"}
             /\ HandlerDue' <=> HandlerDue
  <2>1. /\ At(t) = from /\ At(t)' = to
        /\ \A u \in Threads \ {t} : At(u)' = At(u) /\ pc'[u] = pc[u]
    BY <1>5, Goes
  <2>2. \A u \in Threads : pc'[u] \in {"handler", "handler_write"} <=> pc[u] \in {"handler", "handler_write"}
    BY <1>5, <2>1 DEF Go, PlaceInv, HandlerPlaces
  <2>3. HandlerDue' <=> HandlerDue
    BY <1>5, <2>2 DEF HandlerDue
  <2> QED BY <2>1, <2>3 DEF InitDue, LogDue, Threads
<1> USE DEF processVars, fileVars
<1>6. CASE InitLock \/ InitOpen \/ InitLogLock \/ MainLeave \/ MainFlush
  <2>1. /\ UNCHANGED <<below, signalled, calls, lines>>
        /\ \/ Go("main", "start", "open") \/ Go("main", "open", "init_log") \/ Go("main", "init_log", "first_line")
           \/ Go("main", "idle", "flush") \/ Go("main", "flush", "done")
    BY <1>6, Zenon DEF InitLock, InitOpen, OpenFile, InitLogLock, MainLeave, MainFlush
  <2>2. /\ InitDue' => InitDue
        /\ LogDue("main")' <=> LogDue("main")
        /\ LogDue("auto")' <=> LogDue("auto")
        /\ HandlerDue' <=> HandlerDue
    BY <1>5, <2>1 DEF Threads, Places, HandlerPlaces
  <2>3. due' <= due
    BY <2>2 DEF One
  <2> QED BY <1>3, <2>1, <2>3
<1>7. CASE InitWrite
  <2>1. UNCHANGED <<below, signalled, calls>> /\ Go("main", "first_line", "register")
    BY <1>7, Zenon DEF InitWrite
  <2>2. InitDue /\ ~InitDue' /\ (LogDue("main")' <=> LogDue("main")) /\ (LogDue("auto")' <=> LogDue("auto"))
        /\ (HandlerDue' <=> HandlerDue)
    BY <1>5, <2>1 DEF Threads, Places, HandlerPlaces
  <2>3. due' + 1 <= due
    BY <2>2 DEF One
  <2> QED BY <1>1, <1>3, <2>1, <2>3
<1>8. CASE MainRegister
  <2>1. /\ pc' = [pc EXCEPT !["main"] = "idle", !["auto"] = "idle"]
        /\ pc["main"] = "register" /\ pc["auto"] = "unborn" /\ DOMAIN pc = Threads
        /\ UNCHANGED <<below, signalled, calls, lines>>
    BY <1>8 DEF MainRegister, ThreadInv, At, InHandler
  <2>2. /\ pc'["main"] = "idle" /\ pc'["auto"] = "idle" /\ pc'["ctrl"] = pc["ctrl"]
    BY <2>1 DEF Threads
  <2>3. /\ ~InitDue /\ ~InitDue' /\ ~LogDue("main") /\ ~LogDue("main")' /\ ~LogDue("auto") /\ ~LogDue("auto")'
    BY <2>1, <2>2 DEF InitDue, LogDue, At, InHandler
  <2>4. HandlerDue' <=> HandlerDue
    BY <2>1, <2>2 DEF HandlerDue, Threads
  <2>5. due' <= due
    BY <2>3, <2>4 DEF One
  <2> QED BY <1>3, <2>1, <2>5
<1>9. CASE AutoLeave
  <2>1. UNCHANGED <<below, signalled, calls, lines>> /\ Go("auto", "idle", "ended")
    BY <1>9, Zenon DEF AutoLeave
  <2>2. /\ InitDue' <=> InitDue
        /\ LogDue("main")' <=> LogDue("main")
        /\ LogDue("auto")' <=> LogDue("auto")
        /\ HandlerDue' <=> HandlerDue
    BY <1>5, <2>1 DEF Threads, Places, HandlerPlaces
  <2>3. due' <= due
    BY <2>2 DEF One
  <2> QED BY <1>3, <2>1, <2>3
<1>10. ASSUME NEW t \in {"main", "auto"}, Log(t) PROVE LinesInv'
  <2>1. UNCHANGED <<below, signalled, lines>> /\ calls' = calls + 1 /\ Go(t, "idle", "lock")
    BY <1>10, Zenon DEF Log
  <2>2. /\ InitDue' <=> InitDue
        /\ HandlerDue' <=> HandlerDue
        /\ t # "main" => (LogDue("main")' <=> LogDue("main"))
        /\ t # "auto" => (LogDue("auto")' <=> LogDue("auto"))
    BY <1>5, <2>1 DEF Threads, Places, HandlerPlaces
  <2>3. due' <= due + 1
    BY <2>2 DEF One
  <2> QED BY <1>4, <2>1, <2>3
<1>11. ASSUME NEW t \in Threads, LogLock(t) \/ LogWrite(t) PROVE LinesInv'
  <2>1. /\ UNCHANGED <<below, signalled, calls>>
        /\ (lines' = lines /\ Go(t, "lock", "write")) \/ Go(t, "write", "idle")
    BY <1>11, Zenon DEF LogLock, LogWrite
  <2>2. t \in {"main", "auto"}
    <3>1. pc["ctrl"] \in {"away", "handler", "handler_write", "handler_flag"}
      BY DEF PlaceInv, At, InHandler
    <3> QED BY <2>1, <3>1 DEF Go, Threads
  <2>3. (InitDue' <=> InitDue) /\ (HandlerDue' <=> HandlerDue)
    <3>1. ASSUME NEW from \in {"lock", "write"}, NEW to \in {"write", "idle"}, Go(t, from, to)
          PROVE  (InitDue' <=> InitDue) /\ (HandlerDue' <=> HandlerDue)
      BY <1>5, <2>1, <3>1 DEF Places, HandlerPlaces
    <3> QED BY <2>1, <3>1
  <2>4. CASE lines' = lines /\ Go(t, "lock", "write")
    <3>1. (LogDue("main")' <=> LogDue("main")) /\ (LogDue("auto")' <=> LogDue("auto"))
      BY <1>5, <2>1, <2>2, <2>4 DEF Places, HandlerPlaces
    <3>2. due' <= due
      BY <2>3, <3>1 DEF One
    <3> QED BY <1>3, <2>1, <2>4, <3>2
  <2>5. CASE Go(t, "write", "idle")
    <3>1. /\ LogDue(t) /\ ~LogDue(t)'
          /\ t # "main" => (LogDue("main")' <=> LogDue("main"))
          /\ t # "auto" => (LogDue("auto")' <=> LogDue("auto"))
      BY <1>5, <2>1, <2>5 DEF Places, HandlerPlaces
    <3>2. due' + 1 <= due
      BY <2>2, <2>3, <3>1 DEF One
    <3> QED BY <1>1, <1>3, <2>1, <3>2
  <2> QED BY <2>1, <2>4, <2>5
<1>12. ASSUME NEW t \in Threads, HandlerLock(t) \/ HandlerWrite(t) PROVE LinesInv'
  <2>1. /\ UNCHANGED <<below, signalled, calls>>
        /\ (lines' = lines /\ Go(t, "handler", "handler_write")) \/ Go(t, "handler_write", "handler_flag")
    BY <1>12, Zenon DEF HandlerLock, HandlerWrite
  <2>2. \A u \in Threads : At(u)' = At(u)
    BY <2>1, GoesInHandler DEF HandlerPlaces
  <2>3. /\ InitDue' <=> InitDue
        /\ LogDue("main")' <=> LogDue("main")
        /\ LogDue("auto")' <=> LogDue("auto")
    BY <2>2 DEF InitDue, LogDue, Threads
  <2>4. CASE lines' = lines /\ Go(t, "handler", "handler_write")
    <3>1. HandlerDue
      BY <2>4 DEF HandlerDue, Go
    <3>2. due' <= due
      BY <2>3, <3>1 DEF One
    <3> QED BY <1>3, <2>1, <2>4, <3>2
  <2>5. CASE Go(t, "handler_write", "handler_flag")
    <3>1. HandlerDue
      BY <2>5 DEF HandlerDue, Go
    <3>2. ~HandlerDue'
      <4>1. signalled /\ \A u \in Threads \ {t} : ~InHandler(u)
        BY <2>5 DEF Go, PlaceInv, InHandler
      <4>2. pc'[t] = "handler_flag" /\ \A u \in Threads \ {t} : pc'[u] = pc[u]
        BY <2>5 DEF Go, PlaceInv
      <4> QED BY <2>1, <4>1, <4>2 DEF HandlerDue, InHandler
    <3>3. due' + 1 <= due
      BY <2>3, <3>1, <3>2 DEF One
    <3> QED BY <1>1, <1>3, <2>1, <3>3
  <2> QED BY <2>1, <2>4, <2>5
<1>13. ASSUME NEW t \in Threads, Signal(t) \/ HandlerReturn(t) PROVE LinesInv'
  <2>1. UNCHANGED <<calls, lines>>
    BY <1>13, Zenon DEF Signal, HandlerReturn
  <2>2. \A u \in Threads : At(u)' = At(u)
    BY <1>13, SignalStays
  <2>3. /\ InitDue' <=> InitDue
        /\ LogDue("main")' <=> LogDue("main")
        /\ LogDue("auto")' <=> LogDue("auto")
    BY <2>2 DEF InitDue, LogDue, Threads
  <2>4. HandlerDue' => HandlerDue
    <3>1. CASE Signal(t)
      BY <3>1 DEF Signal, HandlerDue
    <3>2. CASE HandlerReturn(t)
      <4>1. pc' = [pc EXCEPT ![t] = below[t]] /\ below[t] \notin HandlerPlaces /\ signalled' = signalled
        BY <3>2 DEF HandlerReturn, Go, PlaceInv, InHandler
      <4>2. \A u \in Threads : pc'[u] \in {"handler", "handler_write"} => pc[u] \in {"handler", "handler_write"}
        BY <4>1 DEF PlaceInv, HandlerPlaces
      <4> QED BY <4>1, <4>2 DEF HandlerDue
    <3> QED BY <1>13, <3>1, <3>2
  <2>5. due' <= due
    BY <2>3, <2>4 DEF One
  <2> QED BY <1>3, <2>1, <2>5
<1>14. CASE Count \/ (\E t \in Threads : LockThrows(t)) \/ UNCHANGED vars
  <2>1. UNCHANGED <<pc, below, signalled, calls, lines>>
    BY <1>14 DEF Count, LockThrows, vars, threadVars
  <2>2. due' <= due
    <3>1. /\ InitDue' <=> InitDue
          /\ LogDue("main")' <=> LogDue("main")
          /\ LogDue("auto")' <=> LogDue("auto")
          /\ HandlerDue' <=> HandlerDue
      BY <2>1 DEF InitDue, LogDue, HandlerDue, At, InHandler
    <3> QED BY <3>1 DEF One
  <2> QED BY <1>3, <2>1, <2>2
<1> HIDE DEF due, processVars, fileVars
<1> QED BY <1>6, <1>7, <1>8, <1>9, <1>10, <1>11, <1>12, <1>13, <1>14 DEF Next, Thread, Main, Threads

-----------------------------------------------------------------------------
(* The theorems *)

LogInv ==
    /\ PlaceInv /\ MutexInv /\ LinesInv /\ BuildInv
    /\ FileTypeOK /\ FilesInv /\ SizeInv
    /\ known \subseteq Names

LEMMA LogStart == Init => LogInv
<1> SUFFICES ASSUME Init PROVE LogInv
  OBVIOUS
<1>1. /\ pc["main"] = "start" /\ pc["auto"] = "unborn" /\ pc["ctrl"] = "away"
      /\ pc \in [Threads -> Places] /\ below \in [Threads -> Places \cup {"none"}]
      /\ signalled = FALSE /\ calls = 0
  BY DEF Init, Threads, Places
<1>2. PlaceInv
  BY <1>1 DEF PlaceInv, InHandler, At, Threads
<1>3. MutexInv
  <2>1. \A t \in Threads : ~Holds(t) /\ pc[t] # "handler_write"
    BY <1>1 DEF Holds, HeldAt, At, InHandler, Threads
  <2>2. mutex = NoOne
    BY DEF Init
  <2> QED BY <2>1, <2>2 DEF MutexInv, HeldOnce, Threads, NoOne
<1>4. /\ disk \in [Suffixes -> {{}, {0}}] /\ log_files = <<>> /\ current_file_size = 0
      /\ lines = 0 /\ failures = 0 /\ initialized = FALSE /\ fileOpen = FALSE
  BY DEF Init, LoggerInit
<1>5. LinesInv
  <2>1. InitDue /\ ~LogDue("main") /\ ~LogDue("auto") /\ HandlerDue
    BY <1>1 DEF InitDue, LogDue, HandlerDue, At, InHandler
  <2> QED BY <1>1, <1>4, <2>1 DEF LinesInv, One
<1>6. FileTypeOK
  <2>1. disk \in [Suffixes -> SUBSET (0..lines)]
    BY <1>4
  <2>2. log_files \in Seq(Suffixes) /\ Len(log_files) = 0
    BY <1>4
  <2>3. 0 <= MaxFiles
    BY FilesAssumption
  <2> HIDE DEF Init
  <2> QED BY <1>4, <2>1, <2>2, <2>3 DEF FileTypeOK
<1>7. FilesInv
  <2>1. 0 \in Suffixes /\ \A s \in Suffixes : disk[s] \ {0} = {} /\ s # 0 - 1
    BY <1>4, <1>6, MovesType DEF Suffixes
  <2>2. 1 \in 1..lines + 1 /\ 1..lines = {} /\ Len(log_files) = 0
    BY <1>4
  <2>3. log_files = [i \in 1..Len(log_files) |-> i - 1]
    BY <1>4
  <2>4. disk[0] \ {0} = 1..lines
    BY <2>1, <2>2
  <2>5. \A s \in Suffixes \ {0} : disk[s] \ {0} = IF s = Len(log_files) - 1 THEN 1..1 - 1 ELSE {}
    BY <2>1, <2>2
  <2>6. 1 <= 1 /\ ~(current_file_size > 0)
    BY <1>4
  <2> DEFINE Held(first, mid) ==
              /\ first <= mid
              /\ disk[0] \ {0} = mid..lines
              /\ \A s \in Suffixes \ {0} :
                    disk[s] \ {0} = IF s = Len(log_files) - 1 THEN first..mid - 1 ELSE {}
  <2>7. \E first, mid \in 1..lines + 1 : Held(first, mid)
    <3>1. Held(1, 1)
      BY <2>2, <2>4, <2>5, <2>6
    <3> HIDE DEF Held
    <3> QED BY <2>2, <3>1, Zenon
  <2> QED BY <2>3, <2>6, <2>7, Zenon DEF FilesInv
<1>8. SizeInv
  BY <1>4, FilesAssumption DEF SizeInv
<1>9. known \subseteq Names /\ BuildInv
  BY DEF Init, RegistryInit, BuildInv
<1> QED BY <1>2, <1>3, <1>5, <1>6, <1>7, <1>8, <1>9 DEF LogInv

LEMMA LogStep == ASSUME CountInv, LogInv, [Next]_vars PROVE LogInv'
<1>1. ThreadInv /\ PlaceInv /\ MutexInv /\ LinesInv /\ BuildInv /\ FileTypeOK /\ FilesInv /\ SizeInv /\ known \subseteq Names
  BY DEF CountInv, LogInv
<1>2. PlaceInv' /\ MutexInv' /\ BuildInv'
  BY <1>1, PlaceStep, MutexStep, BuildStep
<1>3. FileTypeOK' /\ FilesInv' /\ SizeInv' /\ lines' \in {lines, lines + 1}
  BY <1>1, FilesStep
<1>4. LinesInv'
  BY <1>1, <1>3, LinesStep
<1>5. known' \subseteq Names
  <2>1. CASE MainRegister
    BY <1>1, <2>1 DEF MainRegister, Register, Names
  <2>2. CASE Count
    <3>1. PICK n \in Names : Add(n) \/ Miss(n) \/ Create(n)
      BY <2>2 DEF Count
    <3>2. known' = known \/ known' = known \cup {n}
      BY <3>1 DEF Add, Miss, Create
    <3>3. known \subseteq Names /\ n \in Names
      BY <1>1
    <3> QED BY <3>2, <3>3
  <2>3. CASE UNCHANGED registryVars
    BY <1>1, <2>3 DEF registryVars
  <2> QED BY <2>1, <2>2, <2>3, OnlyTheseCount
<1> QED BY <1>2, <1>3, <1>4, <1>5 DEF LogInv

LEMMA Inductive == Spec => [](CountInv /\ LogInv)
<1>1. CountInv /\ LogInv /\ [Next]_vars => (CountInv /\ LogInv)'
  BY ThreadStep, RegistryStep, LogStep DEF CountInv
<1> QED BY <1>1, CountStart, LogStart, PTL DEF Spec

(* The lines written never outnumber the calls of log, init's own and the  *)
(* signal's, and whichever renames of a rotation fail, log_files names     *)
(* max_files files at most (logger.cpp:243-272).                           *)
THEOREM TypeCorrect == Spec => []TypeOK
<1>1. CountInv /\ LogInv => TypeOK
  <2> SUFFICES ASSUME CountInv, LogInv PROVE TypeOK
    OBVIOUS
  <2>1. /\ lines \in Nat /\ calls \in Nat /\ lines <= calls + 2
    <3>1. /\ One(InitDue) \in Nat /\ One(LogDue("main")) \in Nat /\ One(LogDue("auto")) \in Nat
          /\ One(HandlerDue) \in Nat
      BY DEF One
    <3> QED BY <3>1 DEF LogInv, LinesInv
  <2>2. lines \in 0..(calls + 2)
    BY <2>1
  <2>3. mutex \in Threads \cup {NoOne} /\ build \in Builds /\ process \in {"alive", "exited", "terminated"}
    BY DEF LogInv, MutexInv, BuildInv
  <2>4. pc \in [Threads -> Places] /\ below \in [Threads -> Places \cup {"none"}]
    BY DEF LogInv, PlaceInv
  <2>5. /\ initialized \in BOOLEAN /\ fileOpen \in BOOLEAN
        /\ disk \in [Suffixes -> SUBSET (0..lines)]
        /\ log_files \in Seq(Suffixes) /\ Len(log_files) <= MaxFiles
        /\ current_file_size \in Nat
    BY DEF LogInv, FileTypeOK
  <2>6. /\ known \subseteq Names
        /\ value \in [Names -> Nat] /\ added \in [Names -> Nat] /\ creating \in [Names -> Nat]
    BY DEF LogInv, CountInv, RegistryInv
  <2> QED BY <2>2, <2>3, <2>4, <2>5, <2>6, Zenon DEF TypeOK
<1> QED BY <1>1, Inductive, PTL

(* While no call of the file system fails, the files hold the newest lines *)
(* of the run without a gap, in the log file and one rotated file at most; *)
(* whatever fails, the open file exceeds max_file_size by less than its    *)
(* last line.                                                              *)
THEOREM DiskIsRecentTheorem == Spec => []DiskIsRecent
<1>1. CountInv /\ LogInv => DiskIsRecent
  BY FilesAreRecent DEF LogInv
<1> QED BY <1>1, Inductive, PTL

(* A counter is the number of its increments, unless two of them once      *)
(* missed its name at the same time, which none of a registered name does  *)
(* (prometheus_metrics.cpp:33-42).                                         *)
THEOREM CountersAddUpTheorem == Spec => []CountersAddUp
<1>1. CountInv => CountersAddUp
  BY DEF CountInv, RegistryInv, CounterInv, CountersAddUp, Names
<1> QED  BY <1>1, Inductive, PTL

-----------------------------------------------------------------------------
(* Who holds the mutex, and what becomes of a thread that waits for itself *)

(* A thread that holds the mutex is in init, in log or in the handler that *)
(* interrupted one of them, and about to unlock it, except before init's   *)
(* own line, in the committed code, and in the handler.                    *)
HolderIsInside ==
    \A t \in Threads : mutex = t =>
        \/ pc[t] \in {"open", "first_line", "write"} \cup HandlerPlaces
        \/ pc[t] = "init_log" /\ ~initRepaired

(* As committed, main comes no further than the line that init logs:       *)
(* nothing reaches the file, no thread is started, and the process does    *)
(* not exit.                                                               *)
NeverPastInit ==
    ~initRepaired =>
        /\ At("main") \in {"start", "open", "init_log"} /\ At("auto") = "unborn"
        /\ lines = 0 /\ process # "exited"

(* Nothing can be written to a file before init holds the mutex for good.  *)
InitInv ==
    ~initRepaired =>
        /\ At("main") \in {"start", "open", "init_log"}
        /\ At("main") # "init_log" => ~initialized
        /\ lines = 0 /\ process # "exited"

LEMMA InitStart == Init => InitInv
BY DEF Init, LoggerInit, InitInv, At, InHandler

LEMMA InitStep == ASSUME ThreadInv, PlaceInv, MutexInv, InitInv, [Next]_vars PROVE InitInv'
<1> SUFFICES ASSUME ~initRepaired' PROVE InitInv'
  BY DEF InitInv
<1>0. ~initRepaired
  BY BuildStays DEF buildVars
<1>1. /\ At("main") \in {"start", "open", "init_log"} /\ (At("main") # "init_log" => ~initialized)
      /\ lines = 0 /\ process # "exited"
      /\ At("auto") = "unborn" /\ At("ctrl") = "away"
  BY <1>0 DEF InitInv, ThreadInv, PlaceInv
<1> DEFINE NoneWritten == UNCHANGED <<lines, initialized>> /\ process' # "exited"
<1>4. ASSUME At("main")' = At("main"), NoneWritten PROVE InitInv'
  BY <1>1, <1>4 DEF InitInv
<1>5. ASSUME NEW t \in Threads, NEW from \in Places \ HandlerPlaces, NEW to \in Places \ HandlerPlaces,
             Go(t, from, to), UNCHANGED below
      PROVE  At(t) = from /\ At(t)' = to /\ (t # "main" => At("main")' = At("main"))
  BY <1>5, Goes DEF Threads
<1> USE DEF Places, HandlerPlaces
<1>6. CASE Main
  <2>0. "main" \in Threads
    BY DEF Threads
  <2>1. CASE InitLock
    <3>1. At("main")' = "open" /\ At("main") = "start"
      BY <1>5, <2>0, <2>1 DEF InitLock
    <3> QED BY <1>1, <2>1, <3>1 DEF InitLock, InitInv, fileVars, processVars
  <2>2. CASE InitOpen
    <3>1. At("main")' = "init_log"
      BY <1>5, <2>0, <2>2 DEF InitOpen
    <3> QED BY <1>1, <2>2, <3>1 DEF InitOpen, OpenFile, InitInv, processVars
  <2>3. CASE InitLogLock
    <3>1. At("main") = "init_log"
      BY <1>5, <2>0, <2>3 DEF InitLogLock
    <3>2. mutex = "main"
      BY <1>0, <2>0, <3>1 DEF MutexInv, Holds, HeldAt
    <3> QED BY <2>3, <3>2 DEF InitLogLock, Lock, NoOne
  <2>4. CASE InitWrite
    <3>1. At("main") = "first_line"
      BY <1>5, <2>0, <2>4 DEF InitWrite
    <3> QED BY <1>1, <3>1
  <2>5. CASE MainRegister
    BY <1>1, <2>5 DEF MainRegister, At, InHandler
  <2>6. CASE MainLeave \/ MainFlush
    <3>1. At("main") \in {"idle", "flush"}
      BY <1>5, <2>0, <2>6 DEF MainLeave, MainFlush
    <3> QED BY <1>1, <3>1
  <2> QED BY <1>6, <2>1, <2>2, <2>3, <2>4, <2>5, <2>6 DEF Main
<1>7. ASSUME NEW t \in Threads, LogLock(t) \/ LogWrite(t) PROVE InitInv'
  <2>1. At(t) \in {"lock", "write"}
    BY <1>5, <1>7 DEF LogLock, LogWrite
  <2> QED BY <1>1, <2>1 DEF Threads
<1>8. CASE AutoLeave \/ \E t \in {"main", "auto"} : Log(t)
  <2>1. \E t \in Threads : At(t) = "idle"
    BY <1>5, <1>8 DEF AutoLeave, Log, Threads
  <2> QED BY <1>1, <2>1 DEF Threads
<1>9. ASSUME NEW t \in Threads, HandlerLock(t) PROVE InitInv'
  <2>1. At("main")' = At("main")
    BY <1>9, GoesInHandler DEF HandlerLock, Threads
  <2> QED BY <1>1, <1>4, <1>9, <2>1 DEF HandlerLock, fileVars, processVars
<1>10. ASSUME NEW t \in Threads, HandlerWrite(t) PROVE InitInv'
  <2>1. At("main")' = At("main")
    BY <1>10, GoesInHandler DEF HandlerWrite, Threads
  <2>2. pc[t] = "handler_write"
    BY <1>10 DEF HandlerWrite, Go
  <2>3. mutex = t /\ ~HeldAt(At(t))
    BY <2>2 DEF MutexInv, HeldOnce, Holds
  <2>4. At("main") # "init_log"
    <3> SUFFICES ASSUME At("main") = "init_log" PROVE FALSE
      OBVIOUS
    <3>1. "main" \in Threads /\ HeldAt(At("main"))
      BY <1>0 DEF Threads, HeldAt
    <3>2. mutex = "main"
      BY <3>1 DEF MutexInv, Holds
    <3> QED BY <2>3, <3>1, <3>2
  <2>5. ~initialized
    BY <1>1, <2>4
  <2>6. NoneWritten
    BY <1>1, <1>10, <2>5 DEF HandlerWrite, Write, WriteNothing, fileVars, processVars
  <2> QED BY <1>4, <2>1, <2>6
<1>11. ASSUME NEW t \in Threads, Signal(t) \/ HandlerReturn(t) PROVE InitInv'
  <2>1. At("main")' = At("main")
    BY <1>11, SignalStays DEF Threads
  <2> QED BY <1>1, <1>4, <1>11, <2>1 DEF Signal, HandlerReturn, fileVars
<1>12. CASE Count \/ (\E t \in Threads : LockThrows(t)) \/ UNCHANGED vars
  <2>1. UNCHANGED <<fileVars, threadVars>> /\ process' # "exited"
    BY <1>1, <1>12 DEF Count, LockThrows, vars, processVars
  <2> QED BY <1>1, <1>4, <2>1 DEF fileVars, threadVars, At, InHandler
<1> QED BY <1>6, <1>7, <1>8, <1>9, <1>10, <1>11, <1>12 DEF Next, Thread

LEMMA InitInvariant == Spec => []InitInv
<1>1. CountInv /\ LogInv /\ InitInv /\ [Next]_vars => InitInv'
  BY InitStep DEF CountInv, LogInv
<1> QED BY <1>1, InitStart, Inductive, PTL DEF Spec

(* The logger's mutex is released on every path of init, log and the       *)
(* handler: no thread that has left them holds it, and none that is about  *)
(* to lock it in log, or in the first lock of init, does (logger.cpp:280,  *)
(* :375).  This is what StopsUnlessSelfLocked rests on: whoever waits      *)
(* there waits for a thread that has steps left.                           *)
THEOREM HolderIsInsideTheorem == Spec => []HolderIsInside
<1>1. CountInv /\ LogInv => HolderIsInside
  <2> SUFFICES ASSUME PlaceInv, MutexInv, NEW t \in Threads, mutex = t
               PROVE  \/ pc[t] \in {"open", "first_line", "write"} \cup HandlerPlaces
                      \/ pc[t] = "init_log" /\ ~initRepaired
    BY DEF LogInv, HolderIsInside
  <2>1. Holds(t)
    BY DEF MutexInv
  <2>2. CASE pc[t] \notin HandlerPlaces
    <3>1. HeldAt(pc[t])
      BY <2>1, <2>2 DEF Holds, At, InHandler, HandlerPlaces
    <3> QED BY <3>1 DEF HeldAt
  <2> QED BY <2>2
<1> QED BY <1>1, Inductive, PTL

(* The build without spdlog never gets past Logger::init, whichever        *)
(* standard library it uses: no line is written, no thread is started and  *)
(* the process does not exit by itself, whatever signal comes              *)
(* (Logger::init holds the mutex from logger.cpp:280 on and calls log at   *)
(* :304, which locks it at :375).                                          *)
THEOREM NeverPastInitTheorem == Spec => []NeverPastInit
<1>1. CountInv /\ InitInv => NeverPastInit
  BY DEF CountInv, ThreadInv, InitInv, NeverPastInit
<1> QED BY <1>1, InitInvariant, Inductive, PTL

(* A thread that waits for a mutex it holds waits for ever: no other can   *)
(* lock or unlock it, and no signal takes the thread further.  Only where  *)
(* lock throws instead of waiting does the process end, terminated.        *)
HangsForGood ==
    SelfLocked =>
        /\ SelfLocked' /\ mutex' = mutex
        /\ process' # process => process' = "terminated" /\ build = "msvc"

LEMMA SelfLockedStep ==
    ASSUME ThreadInv, PlaceInv, MutexInv, [Next]_vars, NEW t \in Threads,
           mutex = t, pc[t] \in {"init_log", "handler"}
    PROVE  mutex' = mutex /\ pc'[t] \in {"init_log", "handler"} /\ ~MainFlush
<1>2. t # NoOne
  BY DEF Threads, NoOne
<1>3. ~MainFlush /\ \A u \in Threads : ~Lock(u)
  BY <1>2 DEF Lock, MainFlush
<1>4. \A u \in Threads : pc[u] \notin {"open", "first_line", "write", "handler_write"}
  <2> SUFFICES ASSUME NEW u \in Threads, pc[u] \in {"open", "first_line", "write", "handler_write"} PROVE FALSE
    OBVIOUS
  <2>1. Holds(u)
    BY DEF Holds, HeldAt, At, InHandler
  <2>2. u = t
    BY <2>1 DEF MutexInv
  <2> QED BY <2>2
<1>5. SUFFICES mutex' = mutex /\ pc'[t] \in {"init_log", "handler"}
  BY <1>3
<1>6. CASE Main
  <2>1. ~(InitLock \/ InitLogLock \/ MainFlush)
    BY <1>3 DEF InitLock, InitLogLock, Threads
  <2>2. ~(InitOpen \/ InitWrite)
    BY <1>4 DEF InitOpen, InitWrite, Go, Threads
  <2>3. CASE MainLeave
    BY <2>3 DEF MainLeave, Go, PlaceInv
  <2>4. CASE MainRegister
    <3>1. pc["main"] = "register" /\ At("auto") = "unborn" /\ pc["auto"] # "handler_write"
      BY <1>4, <2>4 DEF MainRegister, ThreadInv, At, InHandler, Threads
    <3>2. "auto" \in Threads /\ ~Holds("auto")
      BY <3>1 DEF Holds, HeldAt, Threads
    <3>3. t # "auto" /\ t # "main"
      BY <3>1, <3>2 DEF MutexInv
    <3> QED BY <2>4, <3>3 DEF MainRegister, PlaceInv
  <2> QED BY <1>6, <2>1, <2>2, <2>3, <2>4 DEF Main
<1>7. CASE AutoLeave
  BY <1>7 DEF AutoLeave, Go, PlaceInv
<1>8. ASSUME NEW u \in Threads, LogLock(u) \/ LogWrite(u) \/ HandlerLock(u) \/ HandlerWrite(u) PROVE FALSE
  BY <1>3, <1>4, <1>8 DEF LogLock, LogWrite, HandlerLock, HandlerWrite, Go
<1>9. ASSUME NEW u \in Threads, Log(u) \/ HandlerReturn(u)
      PROVE  mutex' = mutex /\ pc'[t] \in {"init_log", "handler"}
  BY <1>9 DEF Log, HandlerReturn, Go, PlaceInv
<1>10. ASSUME NEW u \in Threads, Signal(u) PROVE mutex' = mutex /\ pc'[t] \in {"init_log", "handler"}
  BY <1>10 DEF Signal, PlaceInv
<1>11. CASE Count \/ (\E u \in Threads : LockThrows(u)) \/ UNCHANGED vars
  BY <1>11 DEF Count, LockThrows, vars, threadVars
<1> QED BY <1>6, <1>7, <1>8, <1>9, <1>10, <1>11 DEF Next, Thread, Threads

(* What StopsUnlessSelfLocked allows to happen instead of the exit is      *)
(* final (signal_handler, main.cpp:33-38).                                 *)
THEOREM HangsForGoodTheorem == Spec => [][HangsForGood]_vars
<1>1. CountInv /\ LogInv /\ [Next]_vars => HangsForGood
  <2> SUFFICES ASSUME ThreadInv, PlaceInv, MutexInv, [Next]_vars, SelfLocked
               PROVE  /\ SelfLocked' /\ mutex' = mutex
                      /\ process' # process => process' = "terminated" /\ build = "msvc"
    BY DEF CountInv, LogInv, HangsForGood
  <2>1. PICK t \in Threads : mutex = t /\ pc[t] \in {"init_log", "handler"}
    BY DEF SelfLocked
  <2>2. mutex' = mutex /\ pc'[t] \in {"init_log", "handler"} /\ ~MainFlush
    BY <2>1, SelfLockedStep
  <2>3. process' # process => process' = "terminated" /\ build = "msvc"
    BY <2>2, ProcessSteps DEF LockThrows
  <2> QED BY <2>1, <2>2, <2>3 DEF SelfLocked
<1> QED BY <1>1, Inductive, PTL DEF Spec

-----------------------------------------------------------------------------
(* How the process ends *)

(* A signal that hits a thread with the mutex leaves the process running,  *)
(* with that thread waiting; and only init's second lock throws.           *)
Endings ==
    /\ caught => SelfLocked /\ process = "alive"
    /\ process = "terminated" => build = "msvc" /\ ~initRepaired

EndInv ==
    /\ \A t \in Threads : InHandler(t) => t \in SignalThreads
    /\ caught => SelfLocked /\ process = "alive" /\ build # "msvc"
    /\ process = "terminated" => build = "msvc" /\ ~initRepaired

LEMMA EndStart == Init => EndInv
BY DEF Init, EndInv, InHandler, Threads

(* Only the signal takes a thread into the handler, sets caught, or can    *)
(* have done so while the process was alive.                               *)
LEMMA SignalOnly ==
    ASSUME PlaceInv, [Next]_vars
    PROVE  \/ \E t \in Threads : Signal(t) /\ process = "alive"
           \/ /\ \A t \in Threads : InHandler(t)' => InHandler(t)
              /\ caught' = caught
<1> USE DEF InHandler, processVars
<1>1. ASSUME NEW t \in Threads, NEW from, NEW to, Go(t, from, to), from \in HandlerPlaces \/ to \notin HandlerPlaces
      PROVE  \A u \in Threads : InHandler(u)' => InHandler(u)
  BY <1>1 DEF Go, PlaceInv, HandlerPlaces
<1>2. CASE Main
  <2>1. CASE InitLock \/ InitOpen \/ InitLogLock \/ InitWrite
    BY <1>1, <2>1 DEF InitLock, InitOpen, InitLogLock, InitWrite, HandlerPlaces, Threads
  <2>2. CASE MainRegister
    BY <2>2 DEF MainRegister, PlaceInv
  <2>3. CASE MainLeave \/ MainFlush
    BY <1>1, <2>3 DEF MainLeave, MainFlush, HandlerPlaces, Threads
  <2> QED BY <1>2, <2>1, <2>2, <2>3 DEF Main
<1>3. CASE AutoLeave
  BY <1>1, <1>3 DEF AutoLeave, HandlerPlaces, Threads
<1>4. ASSUME NEW t \in Threads, LogLock(t) \/ LogWrite(t) \/ Log(t)
      PROVE  (\A u \in Threads : InHandler(u)' => InHandler(u)) /\ caught' = caught
  BY <1>1, <1>4 DEF LogLock, LogWrite, Log, HandlerPlaces
<1>5. ASSUME NEW t \in Threads, HandlerLock(t) \/ HandlerWrite(t) \/ HandlerReturn(t)
      PROVE  (\A u \in Threads : InHandler(u)' => InHandler(u)) /\ caught' = caught
  BY <1>1, <1>5 DEF HandlerLock, HandlerWrite, HandlerReturn, HandlerPlaces
<1>6. CASE Count \/ (\E t \in Threads : LockThrows(t)) \/ UNCHANGED vars
  BY <1>6 DEF Count, LockThrows, vars, threadVars
<1> QED BY <1>2, <1>3, <1>4, <1>5, <1>6 DEF Next, Thread, Threads

LEMMA EndStep == ASSUME ThreadInv, PlaceInv, MutexInv, EndInv, [Next]_vars PROVE EndInv'
<1>0. build' = build /\ initRepaired' = initRepaired /\ SignalThreads' = SignalThreads
  BY BuildStays DEF buildVars, SignalThreads
<1>1. ASSUME NEW t \in Threads, InHandler(t)' PROVE t \in SignalThreads'
  <2>1. CASE InHandler(t)
    BY <1>0, <2>1 DEF EndInv
  <2>2. CASE ~InHandler(t)
    <3>1. PICK u \in Threads : Signal(u)
      BY <1>1, <2>2, SignalOnly
    <3>2. t = u
      BY <1>1, <2>2, <3>1 DEF Signal, InHandler, PlaceInv
    <3> QED BY <1>0, <3>1, <3>2 DEF Signal
  <2> QED BY <2>1, <2>2
<1>2. ASSUME caught' PROVE SelfLocked' /\ process' = "alive" /\ build' # "msvc"
  <2>1. CASE caught
    <3>1. SelfLocked /\ process = "alive" /\ build # "msvc"
      BY <2>1 DEF EndInv
    <3>2. PICK t \in Threads : mutex = t /\ pc[t] \in {"init_log", "handler"}
      BY <3>1 DEF SelfLocked
    <3>3. mutex' = mutex /\ pc'[t] \in {"init_log", "handler"} /\ ~MainFlush
      BY <3>2, SelfLockedStep
    <3>4. process' = process
      BY <3>1, <3>3, ProcessSteps DEF LockThrows
    <3> QED BY <1>0, <3>1, <3>2, <3>3, <3>4 DEF SelfLocked
  <2>2. CASE ~caught
    <3>1. PICK t \in Threads : Signal(t) /\ process = "alive"
      BY <1>2, <2>2, SignalOnly
    <3>2. mutex = t /\ mutex' = t /\ pc'[t] = "handler" /\ t \in SignalThreads
      BY <1>2, <3>1 DEF Signal, PlaceInv
    <3>3. t # "ctrl"
      <4> SUFFICES ASSUME t = "ctrl" PROVE FALSE
        OBVIOUS
      <4>1. ~InHandler("ctrl") /\ "ctrl" \in Threads
        BY <3>1 DEF Signal, PlaceInv, Threads
      <4>2. pc["ctrl"] = "away"
        BY <4>1 DEF PlaceInv, At
      <4>3. ~Holds("ctrl")
        BY <4>1, <4>2 DEF Holds, HeldAt, At
      <4> QED BY <3>2, <4>1, <4>3 DEF MutexInv
    <3>4. build = "posix"
      BY <3>2, <3>3 DEF SignalThreads
    <3>5. process' = "alive"
      BY <3>1 DEF Signal
    <3> QED BY <1>0, <3>2, <3>4, <3>5 DEF SelfLocked
  <2> QED BY <2>1, <2>2
<1>3. ASSUME process' = "terminated" PROVE build' = "msvc" /\ ~initRepaired'
  <2>1. CASE process = "terminated"
    BY <1>0, <2>1 DEF EndInv
  <2>2. CASE process # "terminated"
    <3>1. PICK t \in Threads : LockThrows(t)
      BY <1>3, <2>2, ProcessSteps
    <3>2. build = "msvc" /\ mutex = t /\ pc[t] \in {"start", "init_log", "lock", "handler", "flush"}
      BY <3>1 DEF LockThrows
    <3>3. Holds(t)
      BY <3>2 DEF MutexInv
    <3>4. CASE pc[t] = "handler"
      <4>1. t = "ctrl"
        BY <3>2, <3>4 DEF EndInv, InHandler, SignalThreads
      <4>2. ~Holds(t)
        BY <3>4, <4>1 DEF Holds, HeldAt, PlaceInv
      <4> QED BY <3>3, <4>2
    <3>5. CASE pc[t] # "handler"
      <4>1. At(t) = pc[t]
        BY <3>2, <3>5 DEF At, InHandler
      <4>2. ~initRepaired
        BY <3>2, <3>3, <3>5, <4>1 DEF Holds, HeldAt
      <4> QED BY <1>0, <3>2, <4>2
    <3> QED BY <3>4, <3>5
  <2> QED BY <2>1, <2>2
<1> QED BY <1>1, <1>2, <1>3 DEF EndInv

(* A signal that interrupts a thread between the lock and the unlock of    *)
(* the logger's mutex never ends the process: it stays alive, and the      *)
(* thread waits for itself in the handler.  Where lock throws, that is     *)
(* not met: the handler has a thread of its own, and only init's line      *)
(* terminates the process (main.cpp:33-38, logger.cpp:304 and :375).       *)
THEOREM EndingsTheorem == Spec => []Endings
<1>1. CountInv /\ LogInv /\ EndInv /\ [Next]_vars => EndInv'
  BY EndStep DEF CountInv, LogInv
<1>2. EndInv => Endings
  BY DEF EndInv, Endings
<1> QED BY <1>1, <1>2, EndStart, Inductive, PTL DEF Spec

=============================================================================

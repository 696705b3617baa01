-------------------------- MODULE ClickHouseClient --------------------------
(***************************************************************************)
(* ClickHouseClient after connect: main buffers rows under mutex_ and has  *)
(* a full batch sent, the async writer sends a full batch every five       *)
(* seconds, and main flushes what is left when it shuts down.  All of them *)
(* call insert_sensor_data_batch with mutex_ held, which locks mutex_      *)
(* again.  HTTP handlers and the sensitivity thread query over the same    *)
(* non-blocking socket without any lock, and no answer says which request  *)
(* it belongs to.                                                          *)
(*                                                                         *)
(* A row is its number; a batch is the whole buffer.  The server takes or  *)
(* refuses a request as a whole.                                           *)
(***************************************************************************)
EXTENDS Naturals, Sequences, FiniteSets

CONSTANTS BatchSize,   (* batch_size_, 1000                     *)
          MaxRows,     (* bound: the rows main inserts          *)
          MaxQueries   (* bound: the queries of the other users *)

ASSUME BatchSizeAssumption == BatchSize \in Nat \ {0}
ASSUME BoundsAssumption == MaxRows \in Nat /\ MaxQueries \in Nat

VARIABLES
    relock,       \* what the second lock of mutex_ does in this build
    connected,    \* impl_->connected
    up,           \* the connection itself
    async,        \* async_running_
    mutex,        \* the thread that holds mutex_
    pc,           \* where main and the writer are
    reader,       \* where the user that queries without the lock is
    buffer,       \* sensor_data_queue_
    inserted,     \* rows main has inserted
    flushing,     \* main is in flush()
    ok,           \* what execute_query returned
    requests,     \* sent and not yet served
    responses,    \* served and not yet read
    queries,      \* queries made without the lock
    stored,       \* how often the table holds each row
    sent,         \* history: the rows some request took to the socket
    stats         \* Stats

clientVars == <<async, mutex, pc, buffer, inserted, flushing, ok, stats>>
netVars == <<connected, up, requests, responses, stored, sent>>
readerVars == <<reader, queries>>
vars == <<relock, clientVars, netVars, readerVars>>

Rows == 1..MaxRows
Writers == {"main", "writer"}
NoOne == "none"

Request(from, rows) == [from |-> from, rows |-> rows]

(* The batch function locks the mutex its callers hold: GCC's and MinGW's   *)
(* std::mutex then waits for ever, MSVC's throws std::system_error, which  *)
(* nothing catches.  "repaired" is the least change that lets the rest of  *)
(* the class run: the batch function counts under its callers' lock.       *)
Outcomes == {"hangs", "throws", "repaired"}

(* connect has just returned: the answer to its USE query may have come    *)
(* within the 100 ms execute_query waits, or be on its way still.          *)
Init ==
    /\ relock \in Outcomes
    /\ connected \in BOOLEAN
    /\ up = connected
    /\ async = connected
    /\ mutex = NoOne
    /\ pc = [t \in Writers |-> IF t = "main" THEN "check" ELSE IF connected THEN "top" ELSE "stopped"]
    /\ reader = "idle"
    /\ buffer = {}
    /\ inserted = 0
    /\ flushing = FALSE
    /\ ok = [t \in Writers |-> TRUE]
    /\ requests \in {<<>>} \cup (IF connected THEN {<<Request("connect", {})>>} ELSE {})
    /\ responses = <<>>
    /\ queries = 0
    /\ stored = [r \in Rows |-> 0]
    /\ sent = {}
    /\ stats = [total_inserts |-> 0, failed_inserts |-> 0]

(* Mutant of BatchFull: one row more than a batch. *)
BatchOverfull(rows) == Cardinality(rows) > BatchSize

BatchFull(rows) == Cardinality(rows) >= BatchSize

-----------------------------------------------------------------------------
(* main: insert_sensor_data *)

Check ==
    /\ pc["main"] = "check"
    /\ inserted < MaxRows
    /\ connected
    /\ pc' = [pc EXCEPT !["main"] = "insert"]
    /\ UNCHANGED <<relock, async, mutex, buffer, inserted, flushing, ok, stats, netVars, readerVars>>

(* Mutant of Insert: the row is appended without mutex_. *)
InsertUnlocked ==
    /\ pc["main"] = "insert"
    /\ inserted' = inserted + 1
    /\ buffer' = buffer \cup {inserted'}
    /\ pc' = [pc EXCEPT !["main"] = IF BatchFull(buffer') THEN "send" ELSE "check"]
    /\ UNCHANGED <<relock, mutex, async, flushing, ok, stats, netVars, readerVars>>

Insert ==
    /\ pc["main"] = "insert"
    /\ mutex = NoOne
    /\ inserted' = inserted + 1
    /\ buffer' = buffer \cup {inserted'}
    /\ \/ /\ BatchFull(buffer')
          /\ mutex' = "main"
          /\ pc' = [pc EXCEPT !["main"] = "send"]
       \/ /\ ~BatchFull(buffer')
          /\ pc' = [pc EXCEPT !["main"] = "check"]
          /\ UNCHANGED mutex
    /\ UNCHANGED <<relock, async, flushing, ok, stats, netVars, readerVars>>

(* async_writer_loop: a wake-up that finds no full batch does nothing.     *)
WriterTop ==
    /\ pc["writer"] = "top"
    /\ pc' = [pc EXCEPT !["writer"] = IF async THEN "sleep" ELSE "stopped"]
    /\ UNCHANGED <<relock, async, mutex, buffer, inserted, flushing, ok, stats, netVars, readerVars>>

WriterWake ==
    /\ pc["writer"] = "sleep"
    /\ mutex = NoOne
    /\ \/ /\ BatchFull(buffer)
          /\ mutex' = "writer"
          /\ pc' = [pc EXCEPT !["writer"] = "send"]
       \/ /\ ~BatchFull(buffer)
          /\ pc' = [pc EXCEPT !["writer"] = "top"]
          /\ UNCHANGED mutex
    /\ UNCHANGED <<relock, async, buffer, inserted, flushing, ok, stats, netVars, readerVars>>

-----------------------------------------------------------------------------
(* insert_sensor_data_batch and execute_query, in either thread *)

(* send fails on a broken connection and when the socket would block; the  *)
(* client then takes itself for disconnected, and never connects again.    *)
Send(t) ==
    /\ pc[t] = "send"
    /\ \/ /\ connected /\ up
          /\ requests' = Append(requests, Request(t, buffer))
          /\ sent' = sent \cup buffer
          /\ pc' = [pc EXCEPT ![t] = "recv"]
          /\ UNCHANGED <<connected, ok>>
       \/ /\ connected' = FALSE
          /\ ok' = [ok EXCEPT ![t] = FALSE]
          /\ pc' = [pc EXCEPT ![t] = "count"]
          /\ UNCHANGED <<requests, sent>>
    /\ UNCHANGED <<relock, async, mutex, buffer, inserted, flushing, stats, up, responses, stored,
                   readerVars>>

(* Everything that has arrived is read as one answer.  It is good when it  *)
(* says 200 OK somewhere, and when nothing arrived in time.                *)
Recv(t) ==
    /\ pc[t] = "recv"
    /\ ok' = [ok EXCEPT ![t] = responses = <<>> \/ \E i \in DOMAIN responses : responses[i]]
    /\ responses' = <<>>
    /\ pc' = [pc EXCEPT ![t] = "count"]
    /\ UNCHANGED <<relock, async, mutex, buffer, inserted, flushing, stats, connected, up, requests,
                   stored, sent, readerVars>>

(* Mutant of Count: a batch that failed is counted as inserted only. *)
CountInsertsOnly(t) ==
    /\ pc[t] = "count"
    /\ \/ /\ relock = "repaired"
          /\ stats' = [stats EXCEPT !.total_inserts = @ + Cardinality(buffer)]
          /\ pc' = [pc EXCEPT ![t] = "finish"]
       \/ /\ relock # "repaired"
          /\ pc' = [pc EXCEPT ![t] = IF relock = "hangs" THEN "hung" ELSE "terminated"]
          /\ UNCHANGED stats
    /\ UNCHANGED <<relock, async, mutex, buffer, inserted, flushing, ok, netVars, readerVars>>

(* The second lock of mutex_, by the thread that holds it: it waits for    *)
(* itself, or the exception ends the process.                              *)
Count(t) ==
    /\ pc[t] = "count"
    /\ \/ /\ relock = "repaired"
          /\ stats' = [total_inserts  |-> stats.total_inserts + Cardinality(buffer),
                       failed_inserts |-> stats.failed_inserts + IF ok[t] THEN 0 ELSE Cardinality(buffer)]
          /\ pc' = [pc EXCEPT ![t] = "finish"]
       \/ /\ relock # "repaired"
          /\ pc' = [pc EXCEPT ![t] = IF relock = "hangs" THEN "hung" ELSE "terminated"]
          /\ UNCHANGED stats
    /\ UNCHANGED <<relock, async, mutex, buffer, inserted, flushing, ok, netVars, readerVars>>

(* Mutant of Finish: nobody clears the buffer. *)
FinishKeepsBuffer(t) ==
    /\ pc[t] = "finish"
    /\ mutex' = NoOne
    /\ pc' = [pc EXCEPT ![t] = CASE t = "writer" -> "top"
                                 [] t = "main" -> IF flushing THEN "disconnect" ELSE "check"]
    /\ UNCHANGED <<relock, async, buffer, inserted, flushing, ok, stats, netVars, readerVars>>

(* Mutant of Finish: the writer goes on as if it were the inserting thread. *)
FinishAsInsert(t) ==
    /\ pc[t] = "finish"
    /\ mutex' = NoOne
    /\ buffer' = IF t = "writer" THEN {} ELSE buffer
    /\ pc' = [pc EXCEPT ![t] = "check"]
    /\ UNCHANGED <<relock, async, inserted, flushing, ok, stats, netVars, readerVars>>

(* The writer and flush clear the buffer, sent or not; insert_sensor_data  *)
(* leaves it as it is.                                                     *)
Finish(t) ==
    /\ pc[t] = "finish"
    /\ mutex' = NoOne
    /\ buffer' = IF t = "writer" \/ flushing THEN {} ELSE buffer
    /\ pc' = [pc EXCEPT ![t] = CASE t = "writer" -> "top"
                                 [] t = "main" -> IF flushing THEN "disconnect" ELSE "check"]
    /\ UNCHANGED <<relock, async, inserted, flushing, ok, stats, netVars, readerVars>>

-----------------------------------------------------------------------------
(* main: stop_async_writer, flush and disconnect, by main or the destructor *)

(* Mutant of StopWriter: async_running_ stays set. *)
StopWriterStillRunning ==
    /\ pc["main"] = "check"
    /\ flushing' = TRUE
    /\ pc' = [pc EXCEPT !["main"] = "join"]
    /\ UNCHANGED <<relock, async, mutex, buffer, inserted, ok, stats, netVars, readerVars>>

StopWriter ==
    /\ pc["main"] = "check"
    /\ async' = FALSE
    /\ flushing' = TRUE
    /\ pc' = [pc EXCEPT !["main"] = "join"]
    /\ UNCHANGED <<relock, mutex, buffer, inserted, ok, stats, netVars, readerVars>>

JoinWriter ==
    /\ pc["main"] = "join"
    /\ pc["writer"] = "stopped"
    /\ pc' = [pc EXCEPT !["main"] = "flush"]
    /\ UNCHANGED <<relock, async, mutex, buffer, inserted, flushing, ok, stats, netVars, readerVars>>

Flush ==
    /\ pc["main"] = "flush"
    /\ mutex = NoOne
    /\ \/ /\ buffer # {}
          /\ mutex' = "main"
          /\ pc' = [pc EXCEPT !["main"] = "send"]
       \/ /\ buffer = {}
          /\ pc' = [pc EXCEPT !["main"] = "disconnect"]
          /\ UNCHANGED mutex
    /\ UNCHANGED <<relock, async, buffer, inserted, flushing, ok, stats, netVars, readerVars>>

Disconnect ==
    /\ pc["main"] = "disconnect"
    /\ connected' = FALSE
    /\ up' = FALSE
    /\ requests' = <<>>
    /\ responses' = <<>>
    /\ pc' = [pc EXCEPT !["main"] = "closed"]
    /\ UNCHANGED <<relock, async, mutex, buffer, inserted, flushing, ok, stats, stored, sent, readerVars>>

-----------------------------------------------------------------------------
(* A user without the lock, the server and the network *)

Query ==
    /\ reader = "idle"
    /\ queries < MaxQueries
    /\ connected
    /\ queries' = queries + 1
    /\ \/ /\ up
          /\ requests' = Append(requests, Request("reader", {}))
          /\ reader' = "recv"
          /\ UNCHANGED connected
       \/ /\ connected' = FALSE
          /\ UNCHANGED <<requests, reader>>
    /\ UNCHANGED <<relock, clientVars, up, responses, stored, sent>>

(* It reads whatever has arrived, another request's answer included.       *)
QueryRecv ==
    /\ reader = "recv"
    /\ responses' = <<>>
    /\ reader' = "idle"
    /\ UNCHANGED <<relock, clientVars, connected, up, requests, stored, sent, queries>>

Serve ==
    /\ up
    /\ requests # <<>>
    /\ requests' = Tail(requests)
    /\ \E accepted \in BOOLEAN :
          /\ responses' = Append(responses, accepted)
          /\ stored' = [r \in Rows |-> stored[r] +
                           IF accepted /\ r \in Head(requests).rows THEN 1 ELSE 0]
    /\ UNCHANGED <<relock, clientVars, connected, up, sent, readerVars>>

ConnectionBreaks ==
    /\ up
    /\ up' = FALSE
    /\ requests' = <<>>
    /\ UNCHANGED <<relock, clientVars, connected, responses, stored, sent, readerVars>>

(* Closed, hung with every other thread that wants the lock behind it, or  *)
(* terminated and every thread with it.                                    *)
Ended ==
    /\ pc["main"] \in {"closed", "hung", "terminated"}
    /\ UNCHANGED vars

Running == \A t \in Writers : pc[t] # "terminated"

Main ==
    \/ Check \/ Insert \/ StopWriter \/ JoinWriter \/ Flush \/ Disconnect
    \/ Send("main") \/ Recv("main") \/ Count("main") \/ Finish("main")

Writer ==
    \/ WriterTop \/ WriterWake
    \/ Send("writer") \/ Recv("writer") \/ Count("writer") \/ Finish("writer")

Process == Running /\ (Main \/ Writer \/ Query \/ QueryRecv)

Next == Process \/ Serve \/ ConnectionBreaks \/ Ended

Spec == Init /\ [][Next]_vars

(* main and the writer are operating system threads.  The server and the   *)
(* network owe nothing: an answer may never come.                          *)
FairSpec == Spec /\ WF_vars(Running /\ Main) /\ WF_vars(Running /\ Writer)

-----------------------------------------------------------------------------
(* Properties *)

MainPoints == {"check", "insert", "send", "recv", "count", "finish", "join", "flush", "disconnect",
               "closed", "hung", "terminated"}
WriterPoints == {"top", "sleep", "send", "recv", "count", "finish", "stopped", "hung", "terminated"}
RequestType == [from : Writers \cup {"reader", "connect"}, rows : SUBSET Rows]

TypeOK ==
    /\ relock \in Outcomes
    /\ {connected, up, async, flushing} \subseteq BOOLEAN
    /\ mutex \in Writers \cup {NoOne}
    /\ pc \in [Writers -> MainPoints \cup WriterPoints]
    /\ pc["main"] \in MainPoints /\ pc["writer"] \in WriterPoints
    /\ reader \in {"idle", "recv"}
    /\ inserted \in 0..MaxRows
    /\ buffer \subseteq 1..inserted
    /\ ok \in [Writers -> BOOLEAN]
    /\ requests \in Seq(RequestType)
    /\ responses \in Seq(BOOLEAN)
    /\ queries \in 0..MaxQueries
    /\ stored \in [Rows -> Nat]
    /\ sent \subseteq 1..inserted
    /\ stats \in [total_inserts : Nat, failed_inserts : Nat]

Sending(t) == pc[t] \in {"send", "recv", "count", "finish", "hung", "terminated"}

(* A batch is sent, counted and cleared by one thread at a time, and the   *)
(* rows a batch counts are the rows it sent: no insert slips in between.   *)
OneSender ==
    \A t \in Writers : Sending(t) <=> mutex = t

(* A row is counted in total_inserts before it leaves the buffer, though   *)
(* three callers send and only two of them clear; and a row that leaves it *)
(* without any request having taken it to the socket is among              *)
(* failed_inserts: nothing is dropped without a trace.                     *)
CountedBeforeCleared ==
    /\ inserted - Cardinality(buffer) <= stats.total_inserts
    /\ Cardinality((1..inserted) \ (buffer \cup sent)) <= stats.failed_inserts

(* Rows stay in the buffer after insert_sensor_data had them sent, so the  *)
(* next insert sends them again: a row is in the table at most once for    *)
(* every insert since its own, and once for the clearing writer or flush.  *)
BoundedDuplicates ==
    \A r \in 1..inserted : stored[r] <= inserted - r + 2

(* Until the second lock is repaired, the first batch is the last: no      *)
(* statistic ever moves, no row is stored twice, and the buffer never      *)
(* exceeds one batch, whether the lock hangs or throws.                    *)
FirstBatchIsLast ==
    relock # "repaired" =>
        /\ stats.total_inserts = 0
        /\ Cardinality(buffer) <= BatchSize
        /\ \A r \in Rows : stored[r] <= 1

(* How a shutdown ends, in every build and whatever server and network do. *)
(* If no row was inserted, or with the second lock repaired, the writer is *)
(* joined, the buffer emptied and the connection closed.  If a row was     *)
(* inserted, the committed code never gets that far: main waits for itself *)
(* where the lock hangs, and the process is terminated where it throws.    *)
CloseCompletes ==
    /\ (flushing /\ (inserted = 0 \/ relock = "repaired"))
          ~> (pc["main"] = "closed" /\ buffer = {} /\ pc["writer"] = "stopped")
    /\ (flushing /\ inserted > 0 /\ relock = "hangs") ~> [](pc["main"] = "hung")
    /\ (flushing /\ inserted > 0 /\ relock = "throws") ~> ~Running
=============================================================================

----------------------------- MODULE HttpServer -----------------------------
(***************************************************************************)
(* HttpServer as main runs it: the accept thread, one detached thread per  *)
(* connection, the routes that start adds after it has started the accept  *)
(* thread, and stop, which joins the accept thread and no handler.  The    *)
(* simulation and the analyses the handlers run are those of               *)
(* SensitivityAnalysis, on the one column.                                 *)
(*                                                                         *)
(* An uncaught exception in a handler, and a use of memory that is gone,   *)
(* end the process; a use of memory another thread is changing may end it. *)
(***************************************************************************)
EXTENDS SensitivityAnalysis, Sequences

VARIABLES
    running_,
    accepting,  \* where the accept thread is
    routes_,    \* how many routes have been added
    main,       \* where the main thread is
    process,
    pc,         \* where each connection, and its handler, is
    slow,       \* the connections whose client takes its time: to send, or to read
    request,    \* what its handler read
    status,     \* status_code of the response
    stats_

httpVars == <<running_, accepting, routes_, main, process, pc, slow, request, status, stats_>>
vars == <<httpVars, columnVars, jobVars>>

(* The routes in the order start adds them, by what their handlers do.     *)
RouteTable == <<"sensor-data", "post", "alerts", "sensitivity", "simulation", "analysis", "stats", "metrics">>

Routed == {RouteTable[i] : i \in DOMAIN RouteTable}

(* A request that parses: for one of the routes, with the method OPTIONS,  *)
(* or for another path (/health is one).                                   *)
Requests == Routed \cup {"options", "unknown"}

NoRequest == "none"
NoStatus == 0

Succeeded(code) == code \in 200..399

Init ==
    /\ ColumnInit
    /\ JobInit
    /\ running_ = FALSE
    /\ accepting = "no"
    /\ routes_ = 0
    /\ main = "start"
    /\ process = "alive"
    /\ pc = [t \in Threads |-> "away"]
    /\ slow = {}
    /\ request = [t \in Threads |-> NoRequest]
    /\ status = [t \in Threads |-> NoStatus]
    /\ stats_ = [total |-> 0, successful |-> 0, failed |-> 0]

-----------------------------------------------------------------------------
(* main *)

StartFails ==
    /\ main = "start"
    /\ main' = "exited"
    /\ process' = "exited"
    /\ UNCHANGED <<running_, accepting, routes_, pc, request, status, stats_, slow, columnVars, jobVars>>

Start ==
    /\ main = "start"
    /\ running_' = TRUE
    /\ accepting' = "top"
    /\ main' = "adding"
    /\ UNCHANGED <<routes_, process, pc, request, status, stats_, slow, columnVars, jobVars>>

AddRoute ==
    /\ main = "adding"
    /\ routes_' = routes_ + 1
    /\ main' = IF routes_' = Len(RouteTable) THEN "serving" ELSE "adding"
    /\ UNCHANGED <<running_, accepting, process, pc, request, status, stats_, slow, columnVars, jobVars>>

Stop ==
    /\ main = "serving"
    /\ running_' = FALSE
    /\ main' = "joining"
    /\ UNCHANGED <<accepting, routes_, process, pc, request, status, stats_, slow, columnVars, jobVars>>

(* Mutant of JoinAccept: stop does not wait for the accept thread. *)
NoJoinAccept ==
    /\ main = "joining"
    /\ main' = "stopped"
    /\ UNCHANGED <<running_, accepting, routes_, process, pc, request, status, stats_, slow, columnVars, jobVars>>

JoinAccept ==
    /\ main = "joining"
    /\ accepting = "ended"
    /\ main' = "stopped"
    /\ UNCHANGED <<running_, accepting, routes_, process, pc, request, status, stats_, slow, columnVars, jobVars>>

(* main stops the other modules and returns: its locals, http_server,      *)
(* http_sensitivity and http_sim among them, are destroyed.                *)
Destroy ==
    /\ main = "stopped"
    /\ main' = "destroyed"
    /\ UNCHANGED <<running_, accepting, routes_, process, pc, request, status, stats_, slow, columnVars, jobVars>>

Exit ==
    /\ main = "destroyed"
    /\ main' = "exited"
    /\ process' = "exited"
    /\ UNCHANGED <<running_, accepting, routes_, pc, request, status, stats_, slow, columnVars, jobVars>>

Main == StartFails \/ Start \/ AddRoute \/ Stop \/ JoinAccept \/ Destroy \/ Exit

-----------------------------------------------------------------------------
(* The accept thread.  The kernel completes connections into the backlog   *)
(* of the listening socket; closing the socket resets those still there.   *)

Connect(t) ==
    /\ pc[t] = "away"
    /\ accepting \in {"top", "accept"}
    /\ pc' = [pc EXCEPT ![t] = "backlog"]
    /\ slow' \in {slow, slow \cup {t}}
    /\ UNCHANGED <<running_, accepting, routes_, main, process, request, status, stats_, columnVars, jobVars>>

AcceptTop ==
    /\ accepting = "top"
    /\ IF running_
       THEN accepting' = "accept" /\ UNCHANGED pc
       ELSE /\ accepting' = "ended"
            /\ pc' = [t \in Threads |-> IF pc[t] = "backlog" THEN "reset" ELSE pc[t]]
    /\ UNCHANGED <<running_, routes_, main, process, request, status, stats_, slow, columnVars, jobVars>>

(* Mutant of Accept: the accept thread handles the connection itself.      *)
AcceptOneByOne ==
    /\ accepting = "accept"
    /\ \A t \in Threads : pc[t] \notin {"reading", "routing", "computing", "sending", "counting"}
    /\ accepting' = "top"
    /\ \/ \E t \in Threads : pc[t] = "backlog" /\ pc' = [pc EXCEPT ![t] = "reading"]
       \/ (\A t \in Threads : pc[t] # "backlog") /\ UNCHANGED pc
    /\ UNCHANGED <<running_, routes_, main, process, request, status, stats_, slow, columnVars, jobVars>>

Accept ==
    /\ accepting = "accept"
    /\ accepting' = "top"
    /\ \/ \E t \in Threads : pc[t] = "backlog" /\ pc' = [pc EXCEPT ![t] = "reading"]
       \/ (\A t \in Threads : pc[t] # "backlog") /\ UNCHANGED pc
    /\ UNCHANGED <<running_, routes_, main, process, request, status, stats_, slow, columnVars, jobVars>>

-----------------------------------------------------------------------------
(* handle_client *)

(* The response is made; the request is not looked at again.  The client   *)
(* may be slow to read it.                                                 *)
Answer(t, code) ==
    /\ status' = [status EXCEPT ![t] = code]
    /\ request' = [request EXCEPT ![t] = NoRequest]
    /\ pc' = [pc EXCEPT ![t] = "sending"]
    /\ slow' \in {slow \ {t}, slow \cup {t}}

Terminate(t) ==
    /\ process' = "dead"
    /\ pc' = [pc EXCEPT ![t] = "thrown"]

(* The loop reads only while running_ holds, so a handler that starts      *)
(* during a stop reads nothing and answers 500, as it does to text without *)
(* a request line or the end of the headers, which is also what a client   *)
(* leaves that sends nothing for the time of one select.  There is no      *)
(* limit to the whole of the loop: a slow client that sends a little now   *)
(* and then may keep the handler in it, see Waits.  A Content-Length that  *)
(* is no number throws.                                                    *)
ReadRequest(t) ==
    /\ pc[t] = "reading"
    /\ \/ Answer(t, 500) /\ UNCHANGED process
       \/ running_ /\ Terminate(t) /\ UNCHANGED <<status, request, slow>>
       \/ /\ running_
          /\ \E what \in Requests : request' = [request EXCEPT ![t] = what]
          /\ pc' = [pc EXCEPT ![t] = "routing"]
          /\ slow' = slow \ {t}
          /\ UNCHANGED <<status, process>>
    /\ UNCHANGED <<running_, accepting, routes_, main, stats_, columnVars, jobVars>>

(* The handlers that compute nothing on the column: the three queries of   *)
(* ClickHouse, the POST that stores nothing, the statistics, the metrics,  *)
(* and an analysis of a type that is none.                                 *)
Simple(t) == request[t] \in Routed \ {"simulation"}

Added(t) == \E i \in 1..routes_ : RouteTable[i] = request[t]

Growing == main = "adding"

(* Mutant of Found: the search leaves out the last route. *)
FoundButLast(t) == \E i \in 1..(routes_ - 1) : RouteTable[i] = request[t]

Found(t) == Added(t)

RouteOptions(t) ==
    /\ pc[t] = "routing"
    /\ request[t] = "options"
    /\ Answer(t, 204)
    /\ UNCHANGED <<running_, accepting, routes_, main, process, stats_, columnVars, jobVars>>

RouteSimple(t) ==
    /\ pc[t] = "routing"
    /\ Simple(t)
    /\ Found(t)
    /\ Answer(t, 200)
    /\ UNCHANGED <<running_, accepting, routes_, main, process, stats_, columnVars, jobVars>>

RouteJob(t) ==
    /\ pc[t] = "routing"
    /\ Found(t)
    /\ \E kind \in Kinds :
          /\ (request[t] = "simulation" /\ kind = "series") \/ (request[t] = "analysis" /\ kind # "series")
          /\ Begin(t, kind)
    /\ pc' = [pc EXCEPT ![t] = "computing"]
    /\ UNCHANGED <<running_, accepting, routes_, main, process, request, status, stats_, slow>>

RouteMissing(t) ==
    /\ pc[t] = "routing"
    /\ request[t] # "options"
    /\ ~Found(t) \/ Growing
    /\ Answer(t, 404)
    /\ UNCHANGED <<running_, accepting, routes_, main, process, stats_, columnVars, jobVars>>

(* A number in the query string or in the body that std::sto* refuses.     *)
HandlerThrows(t) ==
    /\ pc[t] = "routing"
    /\ Found(t)
    /\ request[t] \in {"sensor-data", "alerts", "sensitivity", "simulation", "analysis"}
    /\ Terminate(t)
    /\ UNCHANGED <<running_, accepting, routes_, main, request, status, stats_, slow, columnVars, jobVars>>

Compute(t) ==
    /\ pc[t] = "computing"
    /\ JobStep(t)
    /\ UNCHANGED httpVars

Computed(t) ==
    /\ pc[t] = "computing"
    /\ Leave(t)
    /\ Answer(t, 200)
    /\ UNCHANGED <<running_, accepting, routes_, main, process, stats_>>

(* The socket blocks: a client that does not read may keep the handler     *)
(* here, see Waits.                                                        *)
Send(t) ==
    /\ pc[t] = "sending"
    /\ pc' = [pc EXCEPT ![t] = "counting"]
    /\ slow' = slow \ {t}
    /\ UNCHANGED <<running_, accepting, routes_, main, process, request, status, stats_, columnVars, jobVars>>

(* Mutant of CountRequest: only 500 is a failure. *)
CountServerErrors(t) ==
    /\ pc[t] = "counting"
    /\ stats_' = [total |-> stats_.total + 1,
                  successful |-> stats_.successful + (IF Succeeded(status[t]) THEN 1 ELSE 0),
                  failed |-> stats_.failed + (IF status[t] = 500 THEN 1 ELSE 0)]
    /\ pc' = [pc EXCEPT ![t] = "closed"]
    /\ status' = [status EXCEPT ![t] = NoStatus]
    /\ UNCHANGED <<running_, accepting, routes_, main, process, request, slow, columnVars, jobVars>>

(* The statistics, under their mutex, and closesocket. *)
CountRequest(t) ==
    /\ pc[t] = "counting"
    /\ stats_' = [total |-> stats_.total + 1,
                  successful |-> stats_.successful + (IF Succeeded(status[t]) THEN 1 ELSE 0),
                  failed |-> stats_.failed + (IF Succeeded(status[t]) THEN 0 ELSE 1)]
    /\ pc' = [pc EXCEPT ![t] = "closed"]
    /\ status' = [status EXCEPT ![t] = NoStatus]
    /\ UNCHANGED <<running_, accepting, routes_, main, process, request, slow, columnVars, jobVars>>

(* What the language leaves undefined, where it ends the process: reading  *)
(* the routes while they grow, indexing the soils with an uninitialised    *)
(* member, and any step of a handler once main's locals are destroyed.     *)
Undefined(t) ==
    \/ pc[t] = "routing" /\ Growing
    \/ pc[t] = "computing" /\ frame[t].at = "step" /\ soil_type_ = "unset"
    \/ main = "destroyed" /\ pc[t] \in {"reading", "routing", "computing", "sending", "counting"}

Crash(t) ==
    /\ Undefined(t)
    /\ process' = "dead"
    /\ UNCHANGED <<running_, accepting, routes_, main, pc, request, status, stats_, slow, columnVars, jobVars>>

-----------------------------------------------------------------------------

Handler(t) ==
    \/ ReadRequest(t) \/ RouteOptions(t) \/ RouteSimple(t) \/ RouteJob(t) \/ RouteMissing(t)
    \/ HandlerThrows(t) \/ Compute(t) \/ Computed(t) \/ Send(t) \/ CountRequest(t)

Next ==
    /\ process = "alive"
    /\ Main \/ AcceptTop \/ Accept \/ \E t \in Threads : Connect(t) \/ Handler(t) \/ Crash(t)

Spec == Init /\ [][Next]_vars

(* A handler that goes on only when its client does: the loop of recv,     *)
(* until stop clears running_, and the blocking send, for good.            *)
Waits(t) == t \in slow /\ ((pc[t] = "reading" /\ running_) \/ pc[t] = "sending")

(* The scheduler runs every thread.  Nothing makes a client connect, or a  *)
(* slow one go on, main stop or undefined behaviour strike.                *)
Alive(A) == process = "alive" /\ A

FairSpec ==
    /\ Spec
    /\ WF_vars(Alive(AcceptTop \/ Accept))
    /\ WF_vars(Alive(Start \/ AddRoute \/ JoinAccept \/ Destroy \/ Exit))
    /\ \A t \in Threads : WF_vars(Alive(~Waits(t) /\ Handler(t)))

-----------------------------------------------------------------------------
(* Properties *)

Handled == {"reading", "routing", "computing", "sending", "counting"}

TypeOK ==
    /\ running_ \in BOOLEAN
    /\ accepting \in {"no", "top", "accept", "ended"}
    /\ routes_ \in 0..Len(RouteTable)
    /\ main \in {"start", "adding", "serving", "joining", "stopped", "destroyed", "exited"}
    /\ process \in {"alive", "dead", "exited"}
    /\ pc \in [Threads -> Handled \cup {"away", "backlog", "reset", "thrown", "closed"}]
    /\ request \in [Threads -> Requests \cup {NoRequest}]
    /\ status \in [Threads -> {NoStatus, 200, 204, 404, 500}]
    /\ stats_ \in [total : Nat, successful : Nat, failed : Nat]
    /\ stats_.total = stats_.successful + stats_.failed
    /\ slow \subseteq Threads

(* A request for a route of the table is answered 404 only by a handler    *)
(* that looked while start was still adding the routes, never once start   *)
(* has returned (http_server.cpp:79-117 and :263-278).                     *)
RefusedOnlyAtStart ==
    [][\A t \in Threads :
          (pc[t] = "routing" /\ pc'[t] = "sending" /\ request[t] \in Routed /\ status'[t] = 404)
              => main = "adding"]_vars

(* After stop has returned no connection becomes a handler, though those   *)
(* that run go on (http_server.cpp:122-130 and :90).                       *)
NoHandlerAfterStop ==
    [][\A t \in Threads :
          pc'[t] \in Handled /\ pc[t] \notin Handled => main \notin {"stopped", "destroyed"}]_vars

(* A connection is accepted, answered and closed, however slow other       *)
(* clients are, unless its own takes its time to send the request or to    *)
(* read the answer, or the process ends first (http_server.cpp:79-99 and   *)
(* :151-216).                                                              *)
AcceptedIsAnswered ==
    \A t \in Threads :
        pc[t] \in {"backlog", "reading"} ~> (pc[t] = "closed" \/ t \in slow \/ process # "alive")

=============================================================================

----------------------------- MODULE AlarmWorker -----------------------------
(***************************************************************************)
(* What AlarmMQTT::worker_loop does with one sensor reading and with one   *)
(* sensitivity result: the history of each device, the two alert checks,   *)
(* the scores in Stats, and the publication of alerts over one MQTT        *)
(* connection that is made once and never again.  Only the worker thread   *)
(* touches this state, so a turn of its loop is one action.                *)
(*                                                                         *)
(* A magnitude is strong when it reaches detection_magnitude_threshold; a  *)
(* direction is one of eight octants, -1 for none.  A score is kept as the *)
(* two counts the code divides.                                            *)
(***************************************************************************)
EXTENDS Integers, Sequences, FiniteSets, FiniteSetsExt

CONSTANTS Devices,
          TimeModulus,   (* timestamps are unsigned and wrap here, 2^64       *)
          Window,        (* history_window_seconds, in the timestamps' unit   *)
          MinPercent,    (* below it a score has decreased: 80% of the 80%    *)
          Headings,      (* the <<actual, expected>> octants readings have    *)
          MaxReadings,   (* bound: the readings of a behaviour                *)
          MaxResults     (* bound: the sensitivity results of a behaviour     *)

ASSUME WindowAssumption == TimeModulus \in Nat /\ Window \in 1..TimeModulus - 1
ASSUME HeadingsAssumption == Headings \subseteq (-1..7) \X (0..7)
ASSUME BoundsAssumption == MaxReadings \in Nat \ {0} /\ MaxResults \in Nat

VARIABLES
    history,     \* trigger_history_
    connected,   \* mqtt_client_->is_connected()
    published,   \* the MQTT client's messages_published
    stats,       \* Stats
    results,     \* sensitivity results handled
    log,         \* every reading handled, in order
    judged       \* the last reading, if triggered, and how it was judged

vars == <<history, connected, published, stats, results, log, judged>>

(* validate_sensor_data rejects the timestamp 0 and nothing else.          *)
Timestamps == 1..TimeModulus - 1

Nothing == [triggered |-> FALSE, strong |-> FALSE, heading |-> <<-1, 0>>,
            simTriggered |-> FALSE, falseTrigger |-> FALSE]

Init ==
    /\ history = [d \in Devices |-> <<>>]
    /\ connected \in BOOLEAN
    /\ published = 0
    /\ stats = [total_alerts |-> 0, false_trigger_alerts |-> 0, sensitivity_alerts |-> 0,
                mqtt_messages_sent |-> 0, score |-> <<1, 1>>, rate |-> <<0, 1>>]
    /\ results = 0
    /\ log = <<>>
    /\ judged = Nothing

-----------------------------------------------------------------------------
(* The history of a device *)

(* Unsigned subtraction.                                                   *)
WindowStart(timestamp) == (timestamp + TimeModulus - Window) % TimeModulus

(* Mutant of DropOld: an entry at the very start of the window goes too. *)
DropOldAndStart(entries, start) ==
    LET recent == {i \in DOMAIN entries : entries[i].timestamp > start}
    IN  IF recent = {} THEN <<>> ELSE SubSeq(entries, Min(recent), Len(entries))

(* Mutant of DropOld: an old entry goes wherever it stands. *)
DropOldAnywhere(entries, start) ==
    SelectSeq(entries, LAMBDA entry : entry.timestamp >= start)

(* The entries that are too old are popped from the front, up to the first *)
(* that is not.                                                            *)
DropOld(entries, start) ==
    LET recent == {i \in DOMAIN entries : entries[i].timestamp >= start}
    IN  IF recent = {} THEN <<>> ELSE SubSeq(entries, Min(recent), Len(entries))

Recorded(entry) ==
    DropOld(Append(history[entry.device], entry), WindowStart(entry.timestamp))

CountIf(entries, Test(_)) == Cardinality({i \in DOMAIN entries : Test(entries[i])})

Strong(entry) == entry.strong
Triggered(entry) == entry.triggered
Detected(entry) == entry.strong /\ entry.triggered
FalselyTriggered(entry) == ~entry.strong /\ entry.triggered

(* Mutant of Ratio: nothing guards the division. *)
RatioUnguarded(n, m, default) == <<n, m>>

(* A quotient, or its default when there is nothing to divide by.          *)
Ratio(n, m, default) == IF m = 0 THEN default ELSE <<n, m>>

calculate_sensitivity_score(entries) ==
    Ratio(CountIf(entries, Detected), CountIf(entries, Strong), <<1, 1>>)

calculate_false_trigger_rate(entries) ==
    Ratio(CountIf(entries, FalselyTriggered), CountIf(entries, Triggered), <<0, 1>>)

Decreased(score) == score[1] * 100 < MinPercent * score[2]

-----------------------------------------------------------------------------
(* check_false_trigger *)

Abs(n) == IF n < 0 THEN -n ELSE n

Lesser(m, n) == IF m <= n THEN m ELSE n

(* Mutant of OffCourse: the octants do not wrap around. *)
OffCourseNoWrap(actual, expected) == Abs(actual - expected) > 2

OffCourse(actual, expected) ==
    LET diff == Abs(actual - expected)
    IN  Lesser(diff, 8 - diff) > 2

check_false_trigger(triggered, strong, heading, simTriggered) ==
    /\ triggered
    /\ ~strong \/ (simTriggered /\ OffCourse(heading[1], heading[2]))

-----------------------------------------------------------------------------
(* publish_alert, for the alerts of one turn *)

(* Mutant of Sent: a failed send leaves the client connected. *)
SentStaysConnected(n) ==
    IF connected THEN {<<k, TRUE>> : k \in 0..n} ELSE {<<0, FALSE>>}

(* How many of n alerts the client sends: all of them, or those before the *)
(* first failing send, which disconnects it.                               *)
Sent(n) ==
    IF connected THEN {<<n, TRUE>>} \cup {<<k, FALSE>> : k \in 0..n - 1} ELSE {<<0, FALSE>>}

One(condition) == IF condition THEN 1 ELSE 0

-----------------------------------------------------------------------------
(* worker_loop *)

HandleReading(entry, heading, simTriggered) ==
    LET entries == Recorded(entry)
        score == calculate_sensitivity_score(entries)
        falses == One(check_false_trigger(entry.triggered, entry.strong, heading, simTriggered))
        decreases == One(Decreased(score))
    IN  /\ Len(log) < MaxReadings
        /\ log' = Append(log, entry)
        /\ history' = [history EXCEPT ![entry.device] = entries]
        /\ judged' = IF ~entry.triggered THEN [Nothing EXCEPT !.falseTrigger = falses = 1] ELSE
                     [triggered |-> TRUE, strong |-> entry.strong, heading |-> heading,
                      simTriggered |-> simTriggered, falseTrigger |-> falses = 1]
        /\ \E sent \in Sent(falses + decreases) :
              /\ connected' = sent[2]
              /\ published' = published + sent[1]
              /\ stats' = [total_alerts         |-> stats.total_alerts + falses + decreases,
                           false_trigger_alerts |-> stats.false_trigger_alerts + falses,
                           sensitivity_alerts   |-> stats.sensitivity_alerts + decreases,
                           mqtt_messages_sent   |-> stats.mqtt_messages_sent + sent[1],
                           score                |-> score,
                           rate                 |-> calculate_false_trigger_rate(entries)]
        /\ UNCHANGED results

(* A result of the sensitivity analysis, alerted when it is too low.       *)
HandleResult(low) ==
    /\ results < MaxResults
    /\ results' = results + 1
    /\ \E sent \in Sent(One(low)) :
          /\ connected' = sent[2]
          /\ published' = published + sent[1]
          /\ stats' = [stats EXCEPT !.total_alerts = @ + One(low),
                                    !.sensitivity_alerts = @ + One(low),
                                    !.mqtt_messages_sent = @ + sent[1]]
    /\ UNCHANGED <<history, log, judged>>

Readings == [device : Devices, timestamp : Timestamps, triggered : BOOLEAN, strong : BOOLEAN]

Next ==
    \/ \E entry \in Readings, heading \in Headings, simTriggered \in BOOLEAN :
          HandleReading(entry, heading, simTriggered)
    \/ \E low \in BOOLEAN : HandleResult(low)

Spec == Init /\ [][Next]_vars

-----------------------------------------------------------------------------
(* Properties *)

Counts == {count \in (0..MaxReadings) \X (1..MaxReadings) : count[1] <= count[2]}

TypeOK ==
    /\ history \in [Devices -> Seq(Readings)]
    /\ connected \in BOOLEAN
    /\ published \in Nat
    /\ stats \in [total_alerts : Nat, false_trigger_alerts : Nat, sensitivity_alerts : Nat,
                  mqtt_messages_sent : Nat, score : Counts, rate : Counts]
    /\ results \in 0..MaxResults
    /\ log \in Seq(Readings)
    /\ judged \in [triggered : BOOLEAN, strong : BOOLEAN, heading : Headings \cup {<<-1, 0>>},
                   simTriggered : BOOLEAN, falseTrigger : BOOLEAN]

(* The elements of a sequence that are in a set, in their order.           *)
Kept(entries, S) ==
    LET kept[i \in 0..Len(entries)] ==
            IF i = 0 THEN <<>>
            ELSE IF entries[i] \in S THEN Append(kept[i - 1], entries[i]) ELSE kept[i - 1]
    IN  kept[Len(entries)]

ReadingsOf(d) == Kept(log, {entry \in Readings : entry.device = d})

(* The device's clock runs forward and is past the first window.           *)
InOrder(d) ==
    LET readings == ReadingsOf(d)
    IN  /\ \A i \in DOMAIN readings : readings[i].timestamp >= Window
        /\ \A i, j \in DOMAIN readings : i < j => readings[i].timestamp <= readings[j].timestamp

(* What the sliding window of a device is meant to hold: its readings of   *)
(* the last history_window_seconds before its newest.                      *)
InWindow(d) ==
    LET readings == ReadingsOf(d)
        newest == readings[Len(readings)].timestamp
    IN  Kept(readings, {entry \in Readings : entry.timestamp + Window >= newest})

(* The history trimmed reading by reading is the window taken from the     *)
(* whole log, as long as the device's readings come in order.              *)
WindowMatchesLog ==
    \A d \in Devices :
        ReadingsOf(d) # <<>> /\ InOrder(d) => history[d] = InWindow(d)

(* A reading is never lost from the middle of a history: whatever the      *)
(* timestamps, a history is a suffix of the device's readings.             *)
HistoryIsSuffix ==
    \A d \in Devices :
        LET readings == ReadingsOf(d)
            n == Len(readings) - Len(history[d])
        IN  n >= 0 /\ history[d] = SubSeq(readings, n + 1, Len(readings))

(* The counters, kept by two classes under two locks, agree: an alert is   *)
(* one kind, it is counted sent exactly when the client published it, and  *)
(* as long as the connection lives none went missing.                      *)
AlertsAccounted ==
    /\ stats.total_alerts = stats.false_trigger_alerts + stats.sensitivity_alerts
    /\ stats.mqtt_messages_sent = published
    /\ published <= stats.total_alerts
    /\ connected => published = stats.total_alerts

(* Two octants at most a quarter turn apart, turning either way.           *)
Near(a, b) == \E k \in 0..2 : (a + k) % 8 = b \/ (b + k) % 8 = a

(* The octant arithmetic is right around the circle, and a reading without *)
(* a direction is judged as if it pointed to the last octant.              *)
FalseTriggerIsOffCourse ==
    judged.falseTrigger <=>
        /\ judged.triggered
        /\ ~judged.strong \/ (judged.simTriggered /\ ~Near(judged.heading[1] % 8, judged.heading[2]))

(* README.md:85 gives AlarmMQTT statistics over a sliding window: the      *)
(* window that ends with a reading contains that reading.                  *)
WindowHoldsNewest ==
    log # <<>> => history[log[Len(log)].device] # <<>>
=============================================================================

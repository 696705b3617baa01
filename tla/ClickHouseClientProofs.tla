----------------------- MODULE ClickHouseClientProofs -----------------------
(***************************************************************************)
(* Proofs about the buffering, sending and counting of ClickHouseClient,   *)
(* for any batch size and any number of rows and queries.                  *)
(***************************************************************************)
EXTENDS ClickHouseClient, FiniteSetTheorems, FunctionTheorems, TLAPS

(* The steps that move rows or the lock, and the others.                   *)
Sends(t) == Send(t) \/ Recv(t) \/ Count(t) \/ Finish(t)
Moves == Check \/ StopWriter \/ JoinWriter \/ Disconnect \/ WriterTop
Users == Query \/ QueryRecv \/ Serve \/ ConnectionBreaks

LEMMA StepsOf ==
    [Next]_vars => \/ \E t \in Writers : Sends(t)
                   \/ Insert \/ WriterWake \/ Flush \/ Moves \/ Users
                   \/ UNCHANGED vars
BY DEF Next, Process, Main, Writer, Sends, Moves, Users, Ended, Writers

-----------------------------------------------------------------------------
(* Types *)

LEMMA TypeStart == Init => TypeOK
<1> SUFFICES ASSUME Init PROVE TypeOK
  OBVIOUS
<1>1. Request("connect", {}) \in RequestType
  BY DEF Request, RequestType
<1>2. requests \in Seq(RequestType) /\ responses \in Seq(BOOLEAN)
  <2>1. <<>> \in Seq(RequestType) /\ <<>> \in Seq(BOOLEAN)
    OBVIOUS
  <2>2. <<Request("connect", {})>> \in Seq(RequestType)
    BY <1>1
  <2>3. requests = <<>> \/ requests = <<Request("connect", {})>>
    BY DEF Init
  <2> QED  BY <2>1, <2>2, <2>3 DEF Init
<1>3. inserted \in 0..MaxRows /\ buffer \subseteq 1..inserted /\ queries \in 0..MaxQueries
  BY BoundsAssumption DEF Init
<1>4. /\ pc \in [Writers -> MainPoints \cup WriterPoints]
      /\ pc["main"] \in MainPoints /\ pc["writer"] \in WriterPoints
  BY DEF Init, Writers, MainPoints, WriterPoints
<1> QED  BY <1>2, <1>3, <1>4 DEF Init, TypeOK, NoOne

(* What is buffered is a finite set of rows.                               *)
LEMMA BufferFinite ==
    ASSUME TypeOK
    PROVE  /\ IsFiniteSet(buffer) /\ Cardinality(buffer) \in Nat /\ inserted \in Nat
           /\ buffer \subseteq Rows /\ stats.total_inserts \in Nat /\ stats.failed_inserts \in Nat
<1>1. inserted \in Nat /\ inserted <= MaxRows /\ MaxRows \in Nat
  BY BoundsAssumption DEF TypeOK
<1>2. IsFiniteSet(1..inserted)
  BY <1>1, FS_Interval
<1>3. IsFiniteSet(buffer)
  BY <1>2, FS_Subset DEF TypeOK
<1>4. buffer \subseteq Rows
  BY <1>1 DEF TypeOK, Rows
<1> QED  BY <1>1, <1>3, <1>4, FS_CardinalityType DEF TypeOK

(* main has looked at the bound before it inserts.                         *)
BoundInv == pc["main"] = "insert" => inserted < MaxRows

LEMMA BoundStep == ASSUME TypeOK, BoundInv, [Next]_vars PROVE BoundInv'
<1> USE DEF Writers, netVars, readerVars, clientVars, BoundInv
<1>1. ASSUME NEW t \in Writers, Sends(t) PROVE BoundInv'
  BY <1>1 DEF Sends, Send, Recv, Count, Finish, TypeOK
<1>2. CASE Insert \/ WriterWake \/ Flush
  BY <1>2 DEF Insert, WriterWake, Flush, TypeOK
<1>3. CASE Moves
  BY <1>3 DEF Moves, Check, StopWriter, JoinWriter, Disconnect, WriterTop, TypeOK
<1>4. CASE Users
  BY <1>4 DEF Users, Query, QueryRecv, Serve, ConnectionBreaks
<1>5. CASE UNCHANGED vars
  BY <1>5 DEF vars
<1> QED  BY <1>1, <1>2, <1>3, <1>4, <1>5, StepsOf

LEMMA TypeStep == ASSUME TypeOK, BoundInv, [Next]_vars PROVE TypeOK'
<1> USE DEF Writers, netVars, readerVars, clientVars, MainPoints, WriterPoints
<1>1. ASSUME NEW t \in Writers, Sends(t) PROVE TypeOK'
  <2>1. CASE Send(t)
    <3>1. Request(t, buffer) \in RequestType
      BY BufferFinite DEF Request, RequestType
    <3>2. requests' \in Seq(RequestType)
      <4>1. requests \in Seq(RequestType)
        BY DEF TypeOK
      <4>2. requests' = requests \/ requests' = Append(requests, Request(t, buffer))
        BY <2>1 DEF Send
      <4> QED  BY <3>1, <4>1, <4>2
    <3>3. /\ pc' \in [Writers -> MainPoints \cup WriterPoints]
          /\ pc'["main"] \in MainPoints /\ pc'["writer"] \in WriterPoints
      <4>1. pc' = [pc EXCEPT ![t] = "recv"] \/ pc' = [pc EXCEPT ![t] = "count"]
        BY <2>1 DEF Send
      <4> QED  BY <4>1 DEF TypeOK
    <3>4. ok' \in [Writers -> BOOLEAN]
      BY <2>1 DEF Send, TypeOK
    <3>5. connected' \in BOOLEAN
      BY <2>1 DEF Send, TypeOK
    <3> QED  BY <2>1, <3>2, <3>3, <3>4, <3>5 DEF Send, TypeOK
  <2>2. CASE Recv(t)
    BY <2>2 DEF Recv, TypeOK
  <2>3. CASE Count(t)
    <3>1. stats' \in [total_inserts : Nat, failed_inserts : Nat]
      BY <2>3, BufferFinite DEF Count, TypeOK
    <3> QED  BY <2>3, <3>1 DEF Count, TypeOK
  <2>4. CASE Finish(t)
    BY <2>4 DEF Finish, TypeOK
  <2> QED  BY <1>1, <2>1, <2>2, <2>3, <2>4 DEF Sends
<1>2. CASE Insert
  <2>1. inserted < MaxRows /\ inserted \in Nat /\ MaxRows \in Nat /\ inserted' = inserted + 1
    BY <1>2, BufferFinite, BoundsAssumption DEF Insert, BoundInv
  <2>2. inserted' \in 0..MaxRows /\ buffer' \subseteq 1..inserted'
    BY <1>2, <2>1 DEF Insert, TypeOK
  <2> QED  BY <1>2, <2>2 DEF Insert, TypeOK
<1>3. CASE WriterWake
  BY <1>3 DEF WriterWake, TypeOK
<1>4. CASE Flush
  BY <1>4 DEF Flush, TypeOK
<1>5. CASE Moves
  <2>1. CASE Check \/ JoinWriter \/ WriterTop
    BY <1>5, <2>1 DEF Check, JoinWriter, WriterTop, TypeOK
  <2>2. CASE StopWriter
    BY <2>2 DEF StopWriter, TypeOK
  <2>3. CASE Disconnect
    <3>1. <<>> \in Seq(RequestType) /\ <<>> \in Seq(BOOLEAN)
      OBVIOUS
    <3> QED  BY <2>3, <3>1 DEF Disconnect, TypeOK
  <2> QED  BY <1>5, <2>1, <2>2, <2>3 DEF Moves
<1>6. CASE Users
  <2>1. CASE Query
    <3>1. Request("reader", {}) \in RequestType
      BY DEF Request, RequestType
    <3>2. requests' \in Seq(RequestType)
      <4>1. requests \in Seq(RequestType)
        BY DEF TypeOK
      <4>2. requests' = requests \/ requests' = Append(requests, Request("reader", {}))
        BY <2>1 DEF Query
      <4> QED  BY <3>1, <4>1, <4>2
    <3>3. queries' \in 0..MaxQueries
      BY <2>1, BoundsAssumption DEF Query, TypeOK
    <3> QED  BY <2>1, <3>2, <3>3 DEF Query, TypeOK
  <2>2. CASE QueryRecv
    BY <2>2 DEF QueryRecv, TypeOK
  <2>3. CASE Serve
    <3>1. PICK accepted \in BOOLEAN :
              /\ responses' = Append(responses, accepted)
              /\ stored' = [r \in Rows |-> stored[r] + IF accepted /\ r \in Head(requests).rows THEN 1 ELSE 0]
      BY <2>3 DEF Serve
    <3>2. stored' \in [Rows -> Nat]
      BY <3>1 DEF TypeOK
    <3>3. requests' \in Seq(RequestType) /\ responses' \in Seq(BOOLEAN)
      BY <2>3, <3>1 DEF Serve, TypeOK
    <3> QED  BY <2>3, <3>2, <3>3 DEF Serve, TypeOK
  <2>4. CASE ConnectionBreaks
    <3>1. <<>> \in Seq(RequestType)
      OBVIOUS
    <3> QED  BY <2>4, <3>1 DEF ConnectionBreaks, TypeOK
  <2> QED  BY <1>6, <2>1, <2>2, <2>3, <2>4 DEF Users
<1>7. CASE UNCHANGED vars
  BY <1>7 DEF vars, TypeOK
<1> QED  BY <1>1, <1>2, <1>3, <1>4, <1>5, <1>6, <1>7, StepsOf

-----------------------------------------------------------------------------
(* The lock *)

LEMMA SenderStart == Init => OneSender /\ BoundInv
BY DEF Init, OneSender, BoundInv, Sending, Writers, NoOne

(* Who sends holds the lock from the check of the buffer to its clearing.  *)
LEMMA SenderStep == ASSUME TypeOK, OneSender, [Next]_vars PROVE OneSender'
<1> USE DEF OneSender, Sending, Writers, NoOne
<1>1. ASSUME NEW t \in Writers, Sends(t) PROVE OneSender'
  <2>1. CASE Send(t) \/ Recv(t) \/ Count(t)
    BY <2>1 DEF Send, Recv, Count, TypeOK
  <2>2. CASE Finish(t)
    BY <2>2 DEF Finish, TypeOK
  <2> QED  BY <1>1, <2>1, <2>2 DEF Sends
<1>2. CASE Insert
  BY <1>2 DEF Insert, TypeOK
<1>3. CASE WriterWake \/ Flush
  BY <1>3 DEF WriterWake, Flush, TypeOK
<1>4. CASE Moves
  BY <1>4 DEF Moves, Check, StopWriter, JoinWriter, Disconnect, WriterTop, TypeOK
<1>5. CASE Users
  BY <1>5 DEF Users, Query, QueryRecv, Serve, ConnectionBreaks, clientVars
<1>6. CASE UNCHANGED vars
  BY <1>6 DEF vars, clientVars
<1> QED  BY <1>1, <1>2, <1>3, <1>4, <1>5, <1>6, StepsOf

-----------------------------------------------------------------------------
(* The count *)

(* A thread that is about to clear the buffer has counted all of it.       *)
CountInv ==
    /\ inserted - Cardinality(buffer) <= stats.total_inserts
    /\ \A t \in Writers : pc[t] = "finish" => inserted <= stats.total_inserts

(* The rows nobody took to the socket are still buffered or among the      *)
(* failed ones, and a batch that takes itself for sent has been sent.      *)
Unsent == (1..inserted) \ sent

FailInv ==
    /\ Cardinality(Unsent \ buffer) <= stats.failed_inserts
    /\ \A t \in Writers :
          /\ pc[t] = "recv" => buffer \subseteq sent
          /\ pc[t] = "count" /\ ok[t] => buffer \subseteq sent
          /\ pc[t] = "finish" => Cardinality(Unsent) <= stats.failed_inserts

LEMMA CountStep == ASSUME TypeOK, OneSender, CountInv, [Next]_vars PROVE CountInv'
<1>0. /\ IsFiniteSet(buffer) /\ Cardinality(buffer) \in Nat /\ inserted \in Nat
      /\ stats.total_inserts \in Nat /\ stats.failed_inserts \in Nat
      /\ inserted - Cardinality(buffer) <= stats.total_inserts
      /\ \A t \in Writers : pc[t] = "finish" => inserted <= stats.total_inserts
  BY BufferFinite DEF CountInv
<1>a. ASSUME UNCHANGED <<inserted, buffer, stats>>, \A t \in Writers : pc'[t] = "finish" => pc[t] = "finish"
      PROVE  CountInv'
  BY <1>0, <1>a DEF CountInv
<1>1. ASSUME NEW t \in Writers, Sends(t) PROVE CountInv'
  <2>1. CASE Send(t) \/ Recv(t)
    BY <1>a, <2>1 DEF Send, Recv, TypeOK
  <2>2. CASE Count(t)
    <3>1. CASE relock # "repaired"
      BY <1>a, <2>2, <3>1 DEF Count, TypeOK
    <3>2. CASE relock = "repaired"
      <4>1. /\ stats'.total_inserts = stats.total_inserts + Cardinality(buffer)
            /\ UNCHANGED <<inserted, buffer>>
        BY <2>2, <3>2 DEF Count
      <4>2. inserted <= stats'.total_inserts
        BY <1>0, <4>1
      <4>3. inserted - Cardinality(buffer) <= stats'.total_inserts
        BY <1>0, <4>1
      <4> QED  BY <4>1, <4>2, <4>3 DEF CountInv
    <3> QED  BY <3>1, <3>2
  <2>3. CASE Finish(t)
    <3>1. /\ pc[t] = "finish" /\ UNCHANGED <<inserted, stats>> /\ buffer' \in {{}, buffer}
          /\ pc'[t] # "finish" /\ \A u \in Writers \ {t} : pc'[u] = pc[u]
      BY <2>3 DEF Finish, TypeOK, Writers
    <3>2. inserted - Cardinality(buffer') <= stats.total_inserts
      BY <1>0, <3>1, FS_EmptySet
    <3> QED  BY <1>0, <3>1, <3>2 DEF CountInv
  <2> QED  BY <1>1, <2>1, <2>2, <2>3 DEF Sends
<1>2. CASE Insert
  <2>1. /\ inserted' = inserted + 1 /\ buffer' = buffer \cup {inserted + 1} /\ UNCHANGED stats
        /\ inserted + 1 \notin buffer
    BY <1>0, <1>2 DEF Insert, TypeOK
  <2>2. Cardinality(buffer') = Cardinality(buffer) + 1
    BY <1>0, <2>1, FS_AddElement
  <2>3. \A t \in Writers : pc[t] # "finish" /\ pc'[t] # "finish"
    BY <1>2 DEF Insert, TypeOK, OneSender, Sending, Writers, NoOne
  <2>4. inserted' - Cardinality(buffer') <= stats.total_inserts
    BY <1>0, <2>1, <2>2
  <2> QED  BY <2>1, <2>3, <2>4 DEF CountInv
<1>3. CASE WriterWake \/ Flush
  BY <1>a, <1>3 DEF WriterWake, Flush, TypeOK
<1>4. CASE Moves
  BY <1>a, <1>4 DEF Moves, Check, StopWriter, JoinWriter, Disconnect, WriterTop, TypeOK
<1>5. CASE Users
  BY <1>a, <1>5 DEF Users, Query, QueryRecv, Serve, ConnectionBreaks, clientVars
<1>6. CASE UNCHANGED vars
  BY <1>a, <1>6 DEF vars, clientVars
<1> QED  BY <1>1, <1>2, <1>3, <1>4, <1>5, <1>6, StepsOf

LEMMA UnsentFinite ==
    ASSUME TypeOK
    PROVE  /\ IsFiniteSet(Unsent) /\ Cardinality(Unsent) \in Nat
           /\ IsFiniteSet(Unsent \ buffer) /\ Cardinality(Unsent \ buffer) \in Nat
           /\ Cardinality(Unsent \ buffer) <= Cardinality(Unsent)
           /\ Cardinality(Unsent) <= Cardinality(Unsent \ buffer) + Cardinality(buffer)
<1>0. inserted \in Int
  BY DEF TypeOK
<1>1. IsFiniteSet(1..inserted)
  BY <1>0, FS_Interval
<1>2. IsFiniteSet(Unsent) /\ IsFiniteSet(Unsent \ buffer)
  BY <1>1, FS_Subset DEF Unsent
<1>3. IsFiniteSet(buffer) /\ Cardinality(buffer) \in Nat
  BY BufferFinite
<1>4. Cardinality(Unsent) \in Nat /\ Cardinality(Unsent \ buffer) \in Nat
  BY <1>2, FS_CardinalityType
<1>5. Cardinality(Unsent \ buffer) <= Cardinality(Unsent)
  BY <1>2, FS_Subset
<1>6. LET all == (Unsent \ buffer) \cup buffer
      IN  /\ Unsent \subseteq all /\ IsFiniteSet(all)
          /\ Cardinality(all) = Cardinality(Unsent \ buffer) + Cardinality(buffer) - Cardinality((Unsent \ buffer) \cap buffer)
  BY <1>2, <1>3, FS_Union
<1>7. Cardinality((Unsent \ buffer) \cap buffer) = 0
  <2>1. (Unsent \ buffer) \cap buffer = {}
    OBVIOUS
  <2> QED  BY <2>1, FS_EmptySet
<1>8. Cardinality(Unsent) <= Cardinality((Unsent \ buffer) \cup buffer)
  BY <1>6, FS_Subset
<1> QED  BY <1>2, <1>3, <1>4, <1>5, <1>6, <1>7, <1>8

LEMMA FailStep == ASSUME TypeOK, OneSender, FailInv, [Next]_vars PROVE FailInv'
<1>0. /\ Cardinality(Unsent \ buffer) <= stats.failed_inserts /\ stats.failed_inserts \in Nat
      /\ Cardinality(Unsent) \in Nat /\ Cardinality(Unsent \ buffer) \in Nat
      /\ Cardinality(Unsent) <= Cardinality(Unsent \ buffer) + Cardinality(buffer)
      /\ Cardinality(buffer) \in Nat /\ pc \in [Writers -> MainPoints \cup WriterPoints]
      /\ ok \in [Writers -> BOOLEAN]
  BY UnsentFinite, BufferFinite DEF FailInv, TypeOK
<1>p. \A t \in Writers : pc[t] = "recv" => buffer \subseteq sent
  BY DEF FailInv
<1>q. \A t \in Writers : pc[t] = "count" /\ ok[t] => buffer \subseteq sent
  BY DEF FailInv
<1>r. \A t \in Writers : pc[t] = "finish" => Cardinality(Unsent) <= stats.failed_inserts
  BY DEF FailInv
<1>a. ASSUME UNCHANGED <<inserted, buffer, sent, stats, ok>>,
             \A t \in Writers : pc'[t] \in {"recv", "count", "finish"} => pc[t] = pc'[t]
      PROVE  FailInv'
  BY <1>0, <1>p, <1>q, <1>r, <1>a DEF FailInv, Unsent
<1>1. ASSUME NEW t \in Writers, Sends(t) PROVE FailInv'
  <2>0. \A u \in Writers \ {t} : pc[u] \notin {"send", "recv", "count", "finish"} /\ pc'[u] = pc[u]
    BY <1>0, <1>1 DEF OneSender, Sending, Sends, Send, Recv, Count, Finish
  <2>1. CASE Send(t)
    <3>1. UNCHANGED <<inserted, buffer, stats>> /\ pc'[t] \in {"recv", "count"}
      BY <1>0, <2>1 DEF Send
    <3>2. \/ sent' = sent \cup buffer /\ pc'[t] = "recv"
          \/ sent' = sent /\ pc'[t] = "count" /\ ~ok'[t]
      BY <1>0, <2>1 DEF Send
    <3>3. Unsent' \ buffer' = Unsent \ buffer
      BY <3>1, <3>2 DEF Unsent
    <3> QED  BY <1>0, <2>0, <3>1, <3>2, <3>3 DEF FailInv
  <2>2. CASE Recv(t)
    <3>1. UNCHANGED <<inserted, buffer, sent, stats>> /\ pc[t] = "recv" /\ pc'[t] = "count"
      BY <1>0, <2>2 DEF Recv, netVars
    <3>2. buffer \subseteq sent
      BY <1>p, <3>1, Zenon
    <3>4. Unsent' = Unsent
      BY <3>1 DEF Unsent
    <3> QED  BY <1>0, <2>0, <3>1, <3>2, <3>4 DEF FailInv
  <2>3. CASE Count(t)
    <3>1. UNCHANGED <<inserted, buffer, sent, ok>> /\ pc[t] = "count"
      BY <1>0, <2>3 DEF Count, netVars
    <3>2. CASE relock = "repaired"
      <4>1. /\ pc'[t] = "finish"
            /\ stats'.failed_inserts = stats.failed_inserts + IF ok[t] THEN 0 ELSE Cardinality(buffer)
        BY <1>0, <2>3, <3>2 DEF Count
      <4>6. ok[t] => buffer \subseteq sent
        BY <1>q, <3>1, Zenon
      <4>2. ok[t] => Unsent = Unsent \ buffer
        BY <4>6 DEF Unsent
      <4>3. Cardinality(Unsent) <= stats'.failed_inserts
        <5>1. CASE ok[t]
          <6>1. Cardinality(Unsent) = Cardinality(Unsent \ buffer)
            BY <4>2, <5>1
          <6> QED  BY <1>0, <4>1, <5>1, <6>1
        <5>2. CASE ~ok[t]
          BY <1>0, <4>1, <5>2
        <5> QED  BY <5>1, <5>2
      <4>4. Cardinality(Unsent \ buffer) <= stats'.failed_inserts
        BY <1>0, <4>1
      <4>5. Unsent' = Unsent
        BY <3>1 DEF Unsent
      <4> QED  BY <2>0, <3>1, <4>1, <4>3, <4>4, <4>5 DEF FailInv
    <3>3. CASE relock # "repaired"
      <4>1. UNCHANGED stats /\ pc'[t] \in {"hung", "terminated"}
        BY <1>0, <2>3, <3>3 DEF Count
      <4> QED  BY <1>a, <2>0, <3>1, <4>1
    <3> QED  BY <3>2, <3>3
  <2>4. CASE Finish(t)
    <3>1. /\ pc[t] = "finish" /\ UNCHANGED <<inserted, sent, stats, ok>> /\ buffer' \in {{}, buffer}
          /\ pc'[t] \in {"top", "disconnect", "check"}
      BY <1>0, <2>4 DEF Finish, netVars, Writers
    <3>2. Unsent' = Unsent
      BY <3>1 DEF Unsent
    <3>3. Cardinality(Unsent' \ buffer') <= stats.failed_inserts
      <4>1. Cardinality(Unsent) <= stats.failed_inserts
        BY <1>r, <3>1, Zenon
      <4>2. Unsent \ {} = Unsent
        OBVIOUS
      <4> QED  BY <1>0, <3>1, <3>2, <4>1, <4>2
    <3> QED  BY <2>0, <3>1, <3>3 DEF FailInv
  <2> QED  BY <1>1, <2>1, <2>2, <2>3, <2>4 DEF Sends
<1>2. CASE Insert
  <2>1. /\ inserted' = inserted + 1 /\ buffer' = buffer \cup {inserted + 1} /\ UNCHANGED <<stats, sent>>
        /\ \A t \in Writers : pc'[t] \notin {"recv", "count", "finish"}
    BY <1>0, <1>2 DEF Insert, OneSender, Sending, Writers, NoOne, netVars
  <2>2. Unsent' \ buffer' \subseteq Unsent \ buffer
    BY <2>1 DEF Unsent, TypeOK
  <2>3. Cardinality(Unsent' \ buffer') <= Cardinality(Unsent \ buffer)
    BY <2>2, UnsentFinite, FS_Subset
  <2>4. Cardinality(Unsent' \ buffer') \in Nat
    BY <2>2, UnsentFinite, FS_Subset, FS_CardinalityType
  <2> QED  BY <1>0, <2>1, <2>3, <2>4 DEF FailInv
<1>3. CASE WriterWake \/ Flush
  BY <1>0, <1>a, <1>3 DEF WriterWake, Flush, netVars
<1>4. CASE Moves
  BY <1>0, <1>a, <1>4 DEF Moves, Check, StopWriter, JoinWriter, Disconnect, WriterTop, netVars
<1>5. CASE Users
  BY <1>a, <1>5 DEF Users, Query, QueryRecv, Serve, ConnectionBreaks, clientVars
<1>6. CASE UNCHANGED vars
  BY <1>a, <1>6 DEF vars, clientVars, netVars
<1> QED  BY <1>1, <1>2, <1>3, <1>4, <1>5, <1>6, StepsOf

LEMMA Counted == CountInv /\ FailInv => CountedBeforeCleared
<1>1. (1..inserted) \ (buffer \cup sent) = Unsent \ buffer
  BY DEF Unsent
<1> QED  BY <1>1 DEF CountInv, FailInv, CountedBeforeCleared

-----------------------------------------------------------------------------
(* Where the second lock is not repaired *)

(* No rows have left the client, or one batch of them has.                 *)
Virgin ==
    /\ \A r \in Rows : stored[r] = 0
    /\ \A i \in DOMAIN requests : requests[i].rows = {}

Once ==
    \A r \in Rows :
        /\ stored[r] <= 1
        /\ stored[r] = 1 => \A i \in DOMAIN requests : r \notin requests[i].rows
        /\ \A i, j \in DOMAIN requests : r \in requests[i].rows /\ r \in requests[j].rows => i = j

HangInv ==
    relock # "repaired" =>
        /\ stats.total_inserts = 0
        /\ \A t \in Writers : pc[t] # "finish"
        /\ Cardinality(buffer) <= BatchSize
        /\ mutex = NoOne => ~BatchFull(buffer)
        /\ Once
        /\ mutex = NoOne \/ (\E t \in Writers : pc[t] = "send") => Virgin

ClientInv == TypeOK /\ BoundInv /\ OneSender /\ CountInv /\ FailInv /\ HangInv

LEMMA Appended ==
    ASSUME NEW S, NEW q \in Seq(S), NEW e
    PROVE  \A i \in DOMAIN Append(q, e) :
              \/ i \in DOMAIN q /\ Append(q, e)[i] = q[i]
              \/ i = Len(q) + 1 /\ Append(q, e)[i] = e
OBVIOUS

LEMMA WithoutHead ==
    ASSUME NEW S, NEW q \in Seq(S), q # <<>>
    PROVE  /\ 1 \in DOMAIN q /\ Head(q) = q[1]
           /\ \A i \in DOMAIN Tail(q) : i + 1 \in DOMAIN q /\ i + 1 # 1 /\ Tail(q)[i] = q[i + 1]
OBVIOUS

(* Requests that carry no rows change nothing.                             *)
LEMMA RowlessAppended ==
    ASSUME TypeOK, NEW from, requests' = Append(requests, Request(from, {})), stored' = stored
    PROVE  (Virgin => Virgin') /\ (Once => Once')
<1>1. requests \in Seq(RequestType)
  BY DEF TypeOK
<1>2. \A i \in DOMAIN requests' : (i \in DOMAIN requests /\ requests'[i] = requests[i]) \/ requests'[i].rows = {}
  BY <1>1, Appended DEF Request
<1> QED  BY <1>2 DEF Virgin, Once

LEMMA BatchAppended ==
    ASSUME TypeOK, Virgin, NEW from, requests' = Append(requests, Request(from, buffer)), stored' = stored
    PROVE  Once'
<1>1. requests \in Seq(RequestType)
  BY DEF TypeOK
<1>2. \A i \in DOMAIN requests' : i = Len(requests) + 1 \/ requests'[i].rows = {}
  BY <1>1, Appended DEF Virgin
<1> QED  BY <1>2 DEF Virgin, Once

LEMMA Served == ASSUME TypeOK, Serve PROVE (Virgin => Virgin') /\ (Once => Once')
<1>1. requests \in Seq(RequestType) /\ requests # <<>> /\ requests' = Tail(requests)
  BY DEF TypeOK, Serve
<1>2. /\ 1 \in DOMAIN requests /\ Head(requests) = requests[1]
      /\ \A i \in DOMAIN requests' : i + 1 \in DOMAIN requests /\ i + 1 # 1 /\ requests'[i] = requests[i + 1]
  BY <1>1, WithoutHead
<1>3. PICK accepted \in BOOLEAN :
          stored' = [r \in Rows |-> stored[r] + IF accepted /\ r \in Head(requests).rows THEN 1 ELSE 0]
  BY DEF Serve
<1>4. \A r \in Rows : /\ stored[r] \in Nat
                      /\ stored'[r] = stored[r] + IF accepted /\ r \in requests[1].rows THEN 1 ELSE 0
  BY <1>2, <1>3 DEF TypeOK
<1>5. ASSUME Virgin PROVE Virgin'
  BY <1>2, <1>4, <1>5 DEF Virgin
<1>6. ASSUME Once, NEW r \in Rows
      PROVE  /\ stored'[r] <= 1
             /\ stored'[r] = 1 => \A i \in DOMAIN requests' : r \notin requests'[i].rows
             /\ \A i, j \in DOMAIN requests' : r \in requests'[i].rows /\ r \in requests'[j].rows => i = j
  <2>1. /\ stored[r] <= 1 /\ stored[r] \in Nat
        /\ stored[r] = 1 => \A i \in DOMAIN requests : r \notin requests[i].rows
        /\ \A i, j \in DOMAIN requests : r \in requests[i].rows /\ r \in requests[j].rows => i = j
    BY <1>4, <1>6 DEF Once
  <2>2. r \in requests[1].rows => stored[r] = 0 /\ \A i \in DOMAIN requests' : r \notin requests'[i].rows
    BY <1>2, <2>1
  <2>3. stored[r] = 1 => \A i \in DOMAIN requests' : r \notin requests'[i].rows
    BY <1>2, <2>1
  <2>4. ASSUME NEW i \in DOMAIN requests', NEW j \in DOMAIN requests', r \in requests'[i].rows, r \in requests'[j].rows
        PROVE  i = j
    <3>1. i + 1 = j + 1
      BY <1>2, <2>1, <2>4
    <3>2. i \in Int /\ j \in Int
      BY <1>1, <2>4
    <3> QED  BY <3>1, <3>2
  <2>5. stored'[r] = stored[r] \/ (r \in requests[1].rows /\ stored'[r] = 1)
    BY <1>4, <2>1, <2>2
  <2> QED  BY <2>1, <2>2, <2>3, <2>4, <2>5
<1>7. Once => Once'
  BY <1>6 DEF Once
<1> QED  BY <1>5, <1>7

LEMMA HangStart == Init => CountInv /\ FailInv /\ HangInv
<1> SUFFICES ASSUME Init PROVE CountInv /\ FailInv /\ HangInv
  OBVIOUS
<1>1. buffer = {} /\ Cardinality(buffer) = 0 /\ inserted = 0 /\ stats.total_inserts = 0
  BY FS_EmptySet DEF Init
<1>2. \A t \in Writers : pc[t] # "finish"
  BY DEF Init
<1>3. \A i \in DOMAIN requests : requests[i].rows = {}
  BY DEF Init, Request
<1>4. Virgin /\ Once
  BY <1>3 DEF Init, Virgin, Once
<1>5. CountInv
  BY <1>1, <1>2 DEF CountInv
<1>6. HangInv
  BY <1>1, <1>2, <1>4, BatchSizeAssumption DEF HangInv, BatchFull
<1>7. FailInv
  <2>1. Unsent = {} /\ Unsent \ buffer = {} /\ stats.failed_inserts = 0
    BY <1>1 DEF Unsent, Init
  <2>2. \A t \in Writers : pc[t] \notin {"recv", "count", "finish"}
    BY DEF Init
  <2> QED  BY <2>1, <2>2, FS_EmptySet DEF FailInv
<1> QED  BY <1>5, <1>6, <1>7

LEMMA BuildKept == [Next]_vars => relock' = relock
<1> SUFFICES ASSUME [Next]_vars PROVE relock' = relock
  OBVIOUS
<1>1. ASSUME NEW t \in Writers, Sends(t) PROVE relock' = relock
  BY <1>1 DEF Sends, Send, Recv, Count, Finish
<1>2. CASE Insert \/ WriterWake \/ Flush \/ Moves
  BY <1>2 DEF Insert, WriterWake, Flush, Moves, Check, StopWriter, JoinWriter, Disconnect, WriterTop
<1>3. CASE Users \/ UNCHANGED vars
  BY <1>3 DEF Users, Query, QueryRecv, Serve, ConnectionBreaks, vars
<1> QED  BY <1>1, <1>2, <1>3, StepsOf

LEMMA HangStep == ASSUME TypeOK, OneSender, HangInv, [Next]_vars PROVE HangInv'
<1> SUFFICES ASSUME relock' # "repaired"
             PROVE  /\ stats'.total_inserts = 0
                    /\ \A t \in Writers : pc'[t] # "finish"
                    /\ Cardinality(buffer') <= BatchSize
                    /\ mutex' = NoOne => ~BatchFull(buffer')
                    /\ Once'
                    /\ mutex' = NoOne \/ (\E t \in Writers : pc'[t] = "send") => Virgin'
  BY DEF HangInv
<1> DEFINE Goal == /\ stats'.total_inserts = 0
                   /\ \A t \in Writers : pc'[t] # "finish"
                   /\ Cardinality(buffer') <= BatchSize
                   /\ mutex' = NoOne => ~BatchFull(buffer')
                   /\ Once'
                   /\ mutex' = NoOne \/ (\E t \in Writers : pc'[t] = "send") => Virgin'
           Quiet == mutex = NoOne \/ \E t \in Writers : pc[t] = "send"
           Quiet2 == mutex' = NoOne \/ \E t \in Writers : pc'[t] = "send"
<1>0. /\ relock # "repaired"
      /\ stats.total_inserts = 0
      /\ \A t \in Writers : pc[t] # "finish"
      /\ Cardinality(buffer) <= BatchSize
      /\ mutex = NoOne => ~BatchFull(buffer)
      /\ Once
      /\ Quiet => Virgin
  BY BuildKept DEF HangInv
<1>a. ASSUME UNCHANGED <<buffer, stats>>, \A t \in Writers : pc'[t] # "finish", mutex' = NoOne => mutex = NoOne,
             Once', Quiet2 => Virgin'
      PROVE  Goal
  BY <1>0, <1>a DEF BatchFull
<1>b. ASSUME UNCHANGED <<buffer, stats, requests, stored>>, \A t \in Writers : pc'[t] # "finish",
             mutex' = NoOne => mutex = NoOne, Quiet2 => Quiet
      PROVE  Goal
  BY <1>0, <1>b DEF BatchFull, Once, Virgin
<1> USE DEF netVars, readerVars, clientVars
<1>1. ASSUME NEW t \in Writers, Sends(t) PROVE Goal
  <2>0. t # NoOne
    BY DEF Writers, NoOne
  <2>1. CASE Send(t)
    <3>1. /\ pc[t] = "send" /\ mutex = t /\ UNCHANGED <<buffer, stats, mutex, stored>>
          /\ \A u \in Writers \ {t} : pc'[u] = pc[u] /\ pc[u] # "send"
          /\ pc'[t] \in {"recv", "count"}
          /\ requests' = requests \/ requests' = Append(requests, Request(t, buffer))
      BY <2>1 DEF Send, TypeOK, OneSender, Sending, Writers
    <3>2. Once'
      BY <1>0, <3>1, BatchAppended DEF Once
    <3> QED  BY <1>a, <1>0, <2>0, <3>1, <3>2
  <2>2. CASE Recv(t)
    BY <1>0, <1>b, <2>2 DEF Recv, TypeOK
  <2>3. CASE Count(t)
    BY <1>0, <1>b, <2>3 DEF Count, TypeOK
  <2>4. CASE Finish(t)
    BY <1>0, <2>4 DEF Finish
  <2> QED  BY <1>1, <2>1, <2>2, <2>3, <2>4 DEF Sends
<1>2. CASE Insert
  <2>1. /\ mutex = NoOne /\ buffer' = buffer \cup {inserted + 1} /\ inserted + 1 \notin buffer
        /\ UNCHANGED <<stats, requests, stored>> /\ \A t \in Writers : pc'[t] # "finish"
    BY <1>0, <1>2, BufferFinite DEF Insert, TypeOK
  <2>5. mutex' = NoOne => ~BatchFull(buffer')
    BY <1>2 DEF Insert, NoOne
  <2>2. Cardinality(buffer') = Cardinality(buffer) + 1 /\ Cardinality(buffer) \in Nat
    BY <2>1, BufferFinite, FS_AddElement
  <2>3. Cardinality(buffer') <= BatchSize
    BY <1>0, <2>1, <2>2, BatchSizeAssumption DEF BatchFull
  <2>4. Virgin' /\ Once'
    BY <1>0, <2>1 DEF Virgin, Once
  <2> QED  BY <1>0, <2>1, <2>3, <2>4, <2>5
<1>3. CASE WriterWake \/ Flush
  <2>1. /\ mutex = NoOne /\ UNCHANGED <<buffer, stats, requests, stored>>
        /\ \A t \in Writers : pc'[t] # "finish"
    BY <1>0, <1>3 DEF WriterWake, Flush, TypeOK
  <2> QED  BY <1>b, <2>1
<1>4. CASE Moves
  <2>1. CASE Check \/ StopWriter \/ JoinWriter \/ WriterTop
    BY <1>0, <1>b, <2>1 DEF Check, StopWriter, JoinWriter, WriterTop, TypeOK
  <2>2. CASE Disconnect
    <3>1. /\ requests' = <<>> /\ UNCHANGED <<stored, buffer, stats, mutex>>
          /\ \A t \in Writers : pc'[t] # "finish" /\ (pc'[t] = "send" => pc[t] = "send")
      BY <1>0, <2>2 DEF Disconnect, TypeOK
    <3>2. Once' /\ (Virgin => Virgin')
      BY <1>0, <3>1 DEF Once, Virgin
    <3> QED  BY <1>0, <1>a, <3>1, <3>2
  <2> QED  BY <1>4, <2>1, <2>2 DEF Moves
<1>5. CASE Users
  <2>1. UNCHANGED <<buffer, stats, mutex, pc>>
    BY <1>5 DEF Users, Query, QueryRecv, Serve, ConnectionBreaks
  <2>2. (Virgin => Virgin') /\ Once'
    <3>1. CASE Query
      <4>1. stored' = stored /\ (requests' = requests \/ requests' = Append(requests, Request("reader", {})))
        BY <3>1 DEF Query
      <4> QED  BY <1>0, <4>1, RowlessAppended DEF Virgin, Once
    <3>2. CASE QueryRecv
      BY <1>0, <3>2 DEF QueryRecv, Virgin, Once
    <3>3. CASE Serve
      BY <1>0, <3>3, Served
    <3>4. CASE ConnectionBreaks
      BY <1>0, <3>4 DEF ConnectionBreaks, Virgin, Once
    <3> QED  BY <1>5, <3>1, <3>2, <3>3, <3>4 DEF Users
  <2> QED  BY <1>0, <1>a, <2>1, <2>2
<1>6. CASE UNCHANGED vars
  BY <1>0, <1>b, <1>6 DEF vars
<1> QED  BY <1>1, <1>2, <1>3, <1>4, <1>5, <1>6, StepsOf

-----------------------------------------------------------------------------
(* How often a row is stored *)

(* The requests on the wire that carry row r.                              *)
Places(s, r) == {i \in DOMAIN s : r \in s[i].rows}

LEMMA PlacesFinite ==
    ASSUME NEW s \in Seq(RequestType), NEW r
    PROVE  IsFiniteSet(Places(s, r)) /\ Cardinality(Places(s, r)) \in Nat
<1>1. Places(s, r) \in SUBSET (1..Len(s)) /\ Len(s) \in Nat
  BY DEF Places
<1>2. IsFiniteSet(1..Len(s))
  BY <1>1, FS_Interval
<1>3. IsFiniteSet(Places(s, r))
  BY <1>1, <1>2, FS_Subset
<1> QED  BY <1>3, FS_CardinalityType

LEMMA PlacesAppend ==
    ASSUME NEW s \in Seq(RequestType), NEW e, NEW r
    PROVE  Cardinality(Places(Append(s, e), r)) =
              Cardinality(Places(s, r)) + IF r \in e.rows THEN 1 ELSE 0
<1>1. Len(s) + 1 \notin Places(s, r)
  BY DEF Places
<1>2. CASE r \in e.rows
  <2>1. Places(Append(s, e), r) = Places(s, r) \cup {Len(s) + 1}
    BY <1>2 DEF Places
  <2> QED  BY <1>1, <1>2, <2>1, PlacesFinite, FS_AddElement
<1>3. CASE r \notin e.rows
  <2>1. Places(Append(s, e), r) = Places(s, r)
    BY <1>3 DEF Places
  <2> QED  BY <1>3, <2>1, PlacesFinite
<1> QED  BY <1>2, <1>3

LEMMA PlacesTail ==
    ASSUME NEW s \in Seq(RequestType), s # <<>>, NEW r
    PROVE  Cardinality(Places(s, r)) =
              Cardinality(Places(Tail(s), r)) + IF r \in Head(s).rows THEN 1 ELSE 0
<1> DEFINE T == Places(Tail(s), r)
           S == Places(s, r) \ {1}
           F == [i \in T |-> i + 1]
<1>1. Tail(s) \in Seq(RequestType) /\ Len(Tail(s)) = Len(s) - 1 /\ Len(s) \in Nat \ {0}
      /\ \A i \in 1..Len(s) - 1 : Tail(s)[i] = s[i + 1]
  OBVIOUS
<1>2. F \in [T -> S]
  BY <1>1 DEF Places
<1>3. \A a, b \in T : F[a] = F[b] => a = b
  BY <1>1 DEF Places
<1>4. \A u \in S : \E i \in T : F[i] = u
  <2> SUFFICES ASSUME NEW u \in S PROVE \E i \in T : F[i] = u
    OBVIOUS
  <2>1. u \in 2..Len(s) /\ r \in s[u].rows
    BY <1>1 DEF Places
  <2>2. u - 1 \in 1..Len(s) - 1 /\ Tail(s)[u - 1] = s[u]
    BY <1>1, <2>1
  <2>3. u - 1 \in T
    BY <1>1, <2>1, <2>2 DEF Places
  <2> QED  BY <2>1, <2>3
<1>5. F \in Bijection(T, S)
  <2> HIDE DEF F, T, S
  <2> QED  BY <1>2, <1>3, <1>4, Fun_IsBij
<1>6. Cardinality(S) = Cardinality(T) /\ Cardinality(T) \in Nat
  <2>1. ExistsBijection(T, S)
    BY <1>5 DEF ExistsBijection
  <2>2. IsFiniteSet(T) /\ Cardinality(T) \in Nat
    BY <1>1, PlacesFinite
  <2> QED  BY <2>1, <2>2, FS_Bijection
<1>7. 1 \in Places(s, r) <=> r \in Head(s).rows
  BY <1>1 DEF Places
<1>8. IsFiniteSet(Places(s, r)) /\ Cardinality(Places(s, r)) \in Nat
  BY PlacesFinite
<1>9. Cardinality(S) = IF 1 \in Places(s, r) THEN Cardinality(Places(s, r)) - 1 ELSE Cardinality(Places(s, r))
  BY <1>8, FS_RemoveElement
<1> QED
  <2> HIDE DEF F, S
  <2> QED  BY <1>6, <1>7, <1>8, <1>9

(* Row r in the table and on the wire; whether the buffer has dropped it,  *)
(* or its last batch is under way; whether an insert owes it a batch.      *)
Out(r) == stored[r] + Cardinality(Places(requests, r))

Cleared(r) ==
    \/ r \notin buffer
    \/ \E t \in Writers : (t = "writer" \/ flushing) /\ pc[t] \in {"recv", "count", "finish", "hung", "terminated"}

Owed == pc["main"] = "send" /\ ~flushing

Allowed(r) == inserted - r + (IF Cleared(r) THEN 2 ELSE IF Owed THEN 0 ELSE 1)

DupInv ==
    /\ pc["main"] \in {"join", "flush"} => flushing
    /\ \A r \in Rows : Out(r) <= IF r > inserted THEN 0 ELSE Allowed(r)

LEMMA SumType ==
    ASSUME NEW table \in [Rows -> Nat], NEW s \in Seq(RequestType), NEW r \in Rows
    PROVE  /\ table[r] \in Nat /\ table[r] + Cardinality(Places(s, r)) \in Nat
           /\ table[r] <= table[r] + Cardinality(Places(s, r))
<1>1. table[r] \in Nat /\ Cardinality(Places(s, r)) \in Nat
  BY PlacesFinite
<1> QED  BY <1>1

LEMMA OutType == TypeOK => \A r \in Rows : Out(r) \in Nat /\ stored[r] \in Nat /\ stored[r] <= Out(r)
BY SumType DEF Out, TypeOK

LEMMA OutTypeNext == TypeOK' => \A r \in Rows : Out(r)' \in Nat
BY SumType DEF Out, TypeOK

(* A step that sends nothing keeps the count, if no row returns to the     *)
(* buffer and no insert asks for a batch.                                  *)
LEMMA CountKept ==
    ASSUME TypeOK, TypeOK', DupInv, inserted' = inserted,
           pc'["main"] \in {"join", "flush"} => flushing',
           \A r \in Rows : Out(r)' <= Out(r) /\ (Cleared(r) => Cleared(r)'),
           Owed' => Owed
    PROVE  DupInv'
<1>1. inserted \in Nat
  BY BufferFinite
<1>2. ASSUME NEW r \in Rows PROVE Out(r)' <= IF r > inserted THEN 0 ELSE Allowed(r)'
  <2>1. Out(r) \in Nat /\ Out(r)' \in Nat /\ Out(r)' <= Out(r) /\ r \in Nat
    BY OutType, OutTypeNext DEF Rows
  <2>2. Out(r) <= IF r > inserted THEN 0 ELSE Allowed(r)
    BY DEF DupInv
  <2>3. Cleared(r) => Cleared(r)'
    OBVIOUS
  <2> QED  BY <1>1, <2>1, <2>2, <2>3 DEF Allowed
<1> QED  BY <1>2 DEF DupInv

LEMMA DupStart == ASSUME Init, TypeOK PROVE DupInv
<1> SUFFICES ASSUME NEW r \in Rows PROVE Out(r) = 0 /\ r > inserted
  BY DEF DupInv, Init, Writers
<1>1. stored[r] = 0 /\ inserted = 0 /\ r > 0
  BY DEF Init, Rows
<1>2. Places(requests, r) = {}
  BY DEF Init, Places, Request
<1> QED  BY <1>1, <1>2, FS_EmptySet DEF Out

LEMMA DupStep == ASSUME TypeOK, TypeOK', OneSender, DupInv, [Next]_vars PROVE DupInv'
<1>0. /\ \A r \in Rows : Out(r) \in Nat /\ Out(r)' \in Nat /\ r \in Nat
      /\ inserted \in Nat /\ requests \in Seq(RequestType)
      /\ \A r \in Rows : Out(r) <= IF r > inserted THEN 0 ELSE Allowed(r)
      /\ pc["main"] \in {"join", "flush"} => flushing
  <2>1. \A r \in Rows : Out(r) \in Nat /\ Out(r)' \in Nat /\ r \in Nat
    BY OutType, OutTypeNext DEF Rows
  <2>2. inserted \in Nat /\ requests \in Seq(RequestType)
    BY DEF TypeOK
  <2> QED  BY <2>1, <2>2 DEF DupInv
<1>w. UNCHANGED <<stored, requests>> => \A r \in Rows : Out(r)' = Out(r)
  BY DEF Out
<1>b. UNCHANGED <<pc, buffer, flushing>> => (\A r \in Rows : Cleared(r) = Cleared(r)') /\ Owed' = Owed
  BY DEF Cleared, Owed
<1>1. ASSUME NEW t \in Writers, Sends(t) PROVE DupInv'
  <2>1. CASE Send(t)
    <3>1. /\ pc[t] = "send" /\ pc'[t] \in {"recv", "count"} /\ UNCHANGED <<buffer, flushing, inserted, stored>>
          /\ \A u \in Writers \ {t} : pc'[u] = pc[u] /\ pc[u] \notin {"send", "recv", "count", "finish", "hung", "terminated"}
          /\ requests' = requests \/ requests' = Append(requests, Request(t, buffer))
          /\ pc'["main"] \in {"join", "flush"} => flushing
      BY <1>0, <2>1 DEF Send, TypeOK, OneSender, Sending, Writers
    <3>2. \A r \in Rows : Cleared(r)' <=> r \notin buffer \/ t = "writer" \/ flushing
      BY <3>1 DEF Cleared, Writers
    <3>3. ~Owed' /\ (Owed <=> t = "main" /\ ~flushing)
      BY <3>1 DEF Owed, Writers
    <3>4. \A r \in Rows : Cleared(r) <=> r \notin buffer
      BY <3>1 DEF Cleared
    <3>5. ASSUME NEW r \in Rows PROVE Out(r)' <= Out(r) + IF r \in buffer THEN 1 ELSE 0
      <4>1. stored[r] \in Nat /\ Cardinality(Places(requests, r)) \in Nat
        BY <1>0, PlacesFinite DEF TypeOK
      <4>2. Request(t, buffer).rows = buffer
        BY DEF Request
      <4>3. Cardinality(Places(requests', r)) <= Cardinality(Places(requests, r)) + IF r \in buffer THEN 1 ELSE 0
        <5>1. CASE requests' = requests
          BY <4>1, <5>1
        <5>2. CASE requests' = Append(requests, Request(t, buffer))
          <6>1. Cardinality(Places(Append(requests, Request(t, buffer)), r)) =
                   Cardinality(Places(requests, r)) + IF r \in Request(t, buffer).rows THEN 1 ELSE 0
            BY <1>0, PlacesAppend
          <6>2. Cardinality(Places(requests', r)) = Cardinality(Places(requests, r)) + IF r \in buffer THEN 1 ELSE 0
            BY <4>2, <5>2, <6>1
          <6> QED  BY <4>1, <6>2
        <5> QED  BY <3>1, <5>1, <5>2
      <4> QED  BY <3>1, <4>1, <4>3, PlacesFinite DEF Out, TypeOK
    <3>6. ASSUME NEW r \in Rows PROVE Out(r)' <= IF r > inserted THEN 0 ELSE Allowed(r)'
      <4>1. /\ Out(r) \in Nat /\ Out(r)' \in Nat /\ r \in Nat
            /\ Out(r)' <= Out(r) + IF r \in buffer THEN 1 ELSE 0
            /\ Out(r) <= IF r > inserted THEN 0 ELSE inserted - r + (IF r \notin buffer THEN 2 ELSE IF Owed THEN 0 ELSE 1)
        BY <1>0, <3>4, <3>5 DEF Allowed
      <4>2. r > inserted => r \notin buffer
        BY <1>0 DEF TypeOK
      <4>3. Allowed(r)' = inserted - r + (IF r \notin buffer \/ ~Owed THEN 2 ELSE 1)
        BY <3>1, <3>2, <3>3 DEF Allowed, Writers
      <4> QED  BY <1>0, <4>1, <4>2, <4>3
    <3> QED  BY <3>1, <3>6 DEF DupInv
  <2>2. CASE Recv(t) \/ Count(t)
    <3>1. /\ pc[t] \in {"recv", "count"} /\ pc'[t] \in {"recv", "count", "finish", "hung", "terminated"}
          /\ UNCHANGED <<buffer, flushing, inserted, stored, requests>>
          /\ \A u \in Writers \ {t} : pc'[u] = pc[u]
          /\ pc'["main"] \in {"join", "flush"} => flushing
      BY <1>0, <2>2 DEF Recv, Count, TypeOK, Writers, netVars
    <3>2. \A r \in Rows : Cleared(r) => Cleared(r)'
      BY <3>1 DEF Cleared
    <3>3. Owed' => Owed
      BY <3>1 DEF Owed, Writers
    <3> QED  BY <1>0, <1>w, <3>1, <3>2, <3>3, CountKept
  <2>3. CASE Finish(t)
    <3>1. /\ pc[t] = "finish" /\ pc'[t] \in {"top", "disconnect", "check"}
          /\ UNCHANGED <<flushing, inserted, stored, requests>>
          /\ buffer' = IF t = "writer" \/ flushing THEN {} ELSE buffer
          /\ \A u \in Writers \ {t} : pc'[u] = pc[u] /\ pc[u] \notin {"send", "recv", "count", "finish", "hung", "terminated"}
          /\ pc'["main"] \in {"join", "flush"} => flushing
      BY <1>0, <2>3 DEF Finish, TypeOK, OneSender, Sending, Writers, netVars
    <3>2. \A r \in Rows : Cleared(r) => Cleared(r)'
      BY <3>1 DEF Cleared, Writers
    <3>3. Owed' => Owed
      BY <3>1 DEF Owed, Writers
    <3> QED  BY <1>0, <1>w, <3>1, <3>2, <3>3, CountKept
  <2> QED  BY <1>1, <2>1, <2>2, <2>3 DEF Sends
<1>2. CASE Insert
  <2>1. /\ inserted' = inserted + 1 /\ buffer' = buffer \cup {inserted + 1}
        /\ UNCHANGED <<flushing, stored, requests>> /\ pc'["main"] \in {"send", "check"}
        /\ pc'["writer"] = pc["writer"] /\ pc["main"] = "insert"
        /\ \A t \in Writers : pc[t] \notin {"send", "recv", "count", "finish", "hung", "terminated"}
    BY <1>2 DEF Insert, TypeOK, OneSender, Sending, Writers, NoOne, netVars
  <2>2. \A r \in Rows : r <= inserted => (Cleared(r)' <=> Cleared(r))
    BY <1>0, <2>1 DEF Cleared, Writers
  <2>3. ~Owed
    BY <2>1 DEF Owed
  <2>4. ASSUME NEW r \in Rows PROVE Out(r)' <= IF r > inserted' THEN 0 ELSE Allowed(r)'
    <3>1. Out(r)' = Out(r) /\ Out(r) \in Nat /\ r \in Nat
      BY <1>0, <1>w, <2>1
    <3>2. CASE r <= inserted
      <4>1. Allowed(r) <= Allowed(r)' /\ Allowed(r)' \in Int
        BY <1>0, <2>1, <2>2, <2>3, <3>1, <3>2 DEF Allowed
      <4> QED  BY <1>0, <2>1, <3>1, <3>2, <4>1 DEF Allowed
    <3>3. CASE r > inserted
      BY <1>0, <2>1, <3>1, <3>3 DEF Allowed
    <3> QED  BY <1>0, <3>1, <3>2, <3>3
  <2> QED  BY <2>1, <2>4 DEF DupInv
<1>3. CASE WriterWake \/ Flush
  <2>1. /\ UNCHANGED <<inserted, buffer, flushing, stored, requests>>
        /\ \A t \in Writers : pc[t] \notin {"recv", "count", "finish", "hung", "terminated"}
        /\ pc'["main"] # pc["main"] => flushing
    BY <1>0, <1>3 DEF WriterWake, Flush, TypeOK, OneSender, Sending, Writers, NoOne, netVars
  <2>2. \A r \in Rows : Cleared(r) => Cleared(r)'
    BY <2>1 DEF Cleared
  <2>3. Owed' => Owed
    BY <2>1 DEF Owed
  <2> QED  BY <1>0, <1>w, <2>1, <2>2, <2>3, CountKept
<1>4. CASE Moves
  <2>1. /\ UNCHANGED <<inserted, buffer>> /\ (flushing => flushing')
        /\ \A t \in Writers : /\ pc[t] \in {"send", "recv", "count", "finish", "hung", "terminated"} => pc'[t] = pc[t]
                              /\ pc'[t] = "send" => pc[t] = "send"
        /\ pc'["main"] \in {"join", "flush"} => flushing'
    BY <1>0, <1>4 DEF Moves, Check, StopWriter, JoinWriter, Disconnect, WriterTop, TypeOK, Writers
  <2>2. \A r \in Rows : Out(r)' <= Out(r)
    <3>1. CASE UNCHANGED <<stored, requests>>
      BY <1>0, <1>w, <3>1
    <3>2. CASE Disconnect
      <4> SUFFICES ASSUME NEW r \in Rows PROVE Out(r)' <= Out(r)
        OBVIOUS
      <4>1. stored' = stored /\ Places(requests', r) = {}
        BY <3>2 DEF Disconnect, Places
      <4>2. Out(r)' = stored[r]
        BY <4>1, FS_EmptySet DEF Out, TypeOK
      <4> QED  BY <4>2, OutType
    <3> QED  BY <1>4, <3>1, <3>2 DEF Moves, Check, StopWriter, JoinWriter, WriterTop, netVars
  <2>3. \A r \in Rows : Cleared(r) => Cleared(r)'
    BY <2>1 DEF Cleared
  <2>4. Owed' => Owed
    BY <2>1 DEF Owed, Writers
  <2> QED  BY <2>1, <2>2, <2>3, <2>4, CountKept
<1>5. CASE Users
  <2>1. UNCHANGED <<pc, buffer, flushing, inserted>>
    BY <1>5 DEF Users, Query, QueryRecv, Serve, ConnectionBreaks, clientVars
  <2>2. ASSUME NEW r \in Rows PROVE Out(r)' <= Out(r)
    <3>0. stored[r] \in Nat /\ Cardinality(Places(requests, r)) \in Nat
      BY <1>0, PlacesFinite DEF TypeOK
    <3>1. CASE Query
      <4>1. stored' = stored /\ (requests' = requests \/ requests' = Append(requests, Request("reader", {})))
        BY <3>1 DEF Query
      <4>2. Request("reader", {}).rows = {}
        BY DEF Request
      <4>3. Cardinality(Places(requests', r)) = Cardinality(Places(requests, r))
        <5>1. Cardinality(Places(Append(requests, Request("reader", {})), r)) =
                 Cardinality(Places(requests, r)) + IF r \in Request("reader", {}).rows THEN 1 ELSE 0
          BY <1>0, PlacesAppend
        <5>2. CASE requests' = requests
          BY <5>2
        <5>3. CASE requests' = Append(requests, Request("reader", {}))
          <6>1. r \notin Request("reader", {}).rows
            BY <4>2
          <6> QED  BY <3>0, <5>1, <5>3, <6>1
        <5> QED  BY <4>1, <5>2, <5>3
      <4> QED  BY <3>0, <4>1, <4>3 DEF Out
    <3>2. CASE QueryRecv
      BY <1>0, <1>w, <3>2 DEF QueryRecv
    <3>3. CASE Serve
      <4>1. requests # <<>> /\ requests' = Tail(requests)
        BY <3>3 DEF Serve
      <4>2. PICK accepted \in BOOLEAN :
                stored' = [q \in Rows |-> stored[q] + IF accepted /\ q \in Head(requests).rows THEN 1 ELSE 0]
        BY <3>3 DEF Serve
      <4>3. stored'[r] = stored[r] + IF accepted /\ r \in Head(requests).rows THEN 1 ELSE 0
        BY <4>2
      <4>4. /\ Cardinality(Places(requests, r)) =
                  Cardinality(Places(requests', r)) + IF r \in Head(requests).rows THEN 1 ELSE 0
            /\ Cardinality(Places(requests', r)) \in Nat
        BY <1>0, <4>1, PlacesTail, PlacesFinite DEF TypeOK
      <4> QED  BY <3>0, <4>3, <4>4 DEF Out
    <3>4. CASE ConnectionBreaks
      <4>1. stored' = stored /\ Places(requests', r) = {}
        BY <3>4 DEF ConnectionBreaks, Places
      <4>2. Out(r)' = stored[r]
        BY <3>0, <4>1, FS_EmptySet DEF Out
      <4> QED  BY <4>2, OutType
    <3> QED  BY <1>5, <3>1, <3>2, <3>3, <3>4 DEF Users
  <2> QED  BY <1>0, <1>b, <2>1, <2>2, CountKept
<1>6. CASE UNCHANGED vars
  BY <1>0, <1>b, <1>w, <1>6, CountKept DEF vars, clientVars, netVars
<1> QED  BY <1>1, <1>2, <1>3, <1>4, <1>5, <1>6, StepsOf

-----------------------------------------------------------------------------
(* The results *)

LEMMA ClientInvariant == Spec => []ClientInv
<1>1. Init => ClientInv
  BY TypeStart, SenderStart, HangStart DEF ClientInv
<1>2. ClientInv /\ [Next]_vars => ClientInv'
  <2> SUFFICES ASSUME ClientInv, [Next]_vars PROVE ClientInv'
    OBVIOUS
  <2>1. TypeOK' /\ BoundInv' /\ OneSender'
    BY TypeStep, BoundStep, SenderStep DEF ClientInv
  <2> QED  BY <2>1, CountStep, FailStep, HangStep DEF ClientInv
<1> QED  BY <1>1, <1>2, PTL DEF Spec

(* Buffers, statistics and requests keep their types.                      *)
THEOREM TypeCorrect == Spec => []TypeOK
<1>1. ClientInv => TypeOK
  BY DEF ClientInv
<1> QED  BY <1>1, ClientInvariant, PTL

(* A batch is sent, counted and cleared by the one thread that holds       *)
(* mutex_ (clickhouse_client.cpp:192-222 and :580-598).                    *)
THEOREM OneSenderTheorem == Spec => []OneSender
<1>1. ClientInv => OneSender
  BY DEF ClientInv
<1> QED  BY <1>1, ClientInvariant, PTL

(* A row is counted before it leaves the buffer, and one that leaves it    *)
(* without having been sent is counted as failed, though three callers     *)
(* send and only two of them clear (clickhouse_client.cpp:192-222 and      *)
(* :580-598).                                                              *)
THEOREM CountedBeforeClearedTheorem == Spec => []CountedBeforeCleared
<1>1. ClientInv => CountedBeforeCleared
  BY Counted DEF ClientInv
<1> QED  BY <1>1, ClientInvariant, PTL

(* Whether locking mutex_ twice hangs or throws, the first batch is the    *)
(* last that is sent, whoever sends it and whatever the server does        *)
(* (clickhouse_client.cpp:214).                                            *)
THEOREM FirstBatchIsLastTheorem == Spec => []FirstBatchIsLast
<1>1. ClientInv => FirstBatchIsLast
  BY DEF ClientInv, HangInv, Once, FirstBatchIsLast
<1> QED  BY <1>1, ClientInvariant, PTL

LEMMA DupInvariant == Spec => []DupInv
<1>1. Init => DupInv
  BY TypeStart, DupStart
<1>2. ClientInv /\ ClientInv' /\ DupInv /\ [Next]_vars => DupInv'
  BY DupStep DEF ClientInv
<1> QED  BY <1>1, <1>2, ClientInvariant, PTL DEF Spec

(* Rows an insert had sent stay buffered and go out again with the next    *)
(* insert: a row is stored at most once for each insert since its own,     *)
(* once by that insert and once by the writer or flush that clears it      *)
(* (clickhouse_client.cpp:192-222 and :580-598).                           *)
THEOREM BoundedDuplicatesTheorem == Spec => []BoundedDuplicates
<1>1. ASSUME ClientInv, DupInv, NEW r \in 1..inserted PROVE stored[r] <= inserted - r + 2
  <2>1. TypeOK
    BY <1>1 DEF ClientInv
  <2>2. r \in Rows /\ r \in Nat /\ inserted \in Nat /\ ~(r > inserted)
    BY <1>1, <2>1, BoundsAssumption DEF TypeOK, Rows
  <2>3. Out(r) <= Allowed(r) /\ Out(r) \in Nat /\ stored[r] \in Nat /\ stored[r] <= Out(r)
    BY <1>1, <2>1, <2>2, OutType DEF DupInv
  <2>4. Allowed(r) <= inserted - r + 2 /\ Allowed(r) \in Int
    BY <2>2 DEF Allowed
  <2> QED  BY <2>2, <2>3, <2>4
<1>2. ClientInv /\ DupInv => BoundedDuplicates
  BY <1>1 DEF BoundedDuplicates
<1> QED  BY <1>2, ClientInvariant, DupInvariant, PTL

-----------------------------------------------------------------------------
(* The shutdown *)

(* flush runs when the writer has ended for good, and nothing is inserted  *)
(* after it.                                                               *)
CloseInv ==
    /\ pc["main"] \in {"check", "insert"} => ~flushing
    /\ pc["main"] \in {"join", "flush", "disconnect", "closed"} => flushing
    /\ flushing /\ pc["main"] # "join" => pc["writer"] = "stopped"
    /\ pc["main"] \in {"disconnect", "closed"} => buffer = {}

(* When the connection is closed no row is left behind: the buffer is      *)
(* empty, nobody is left to clear it, all rows were counted and those that *)
(* were never sent counted as failed.  The committed code closes it only   *)
(* if no row was inserted.                                                 *)
ClosedEmpty ==
    pc["main"] = "closed" =>
        /\ buffer = {} /\ pc["writer"] = "stopped" /\ mutex = NoOne
        /\ inserted <= stats.total_inserts
        /\ Cardinality((1..inserted) \ sent) <= stats.failed_inserts
        /\ relock # "repaired" => inserted = 0

LEMMA CloseStart == Init => CloseInv
BY DEF Init, CloseInv, Writers

LEMMA CloseStep == ASSUME TypeOK, CloseInv, [Next]_vars PROVE CloseInv'
<1>0. pc \in [Writers -> MainPoints \cup WriterPoints] /\ "main" \in Writers /\ "writer" \in Writers
      /\ flushing \in BOOLEAN
  BY DEF TypeOK, Writers
<1>1. ASSUME NEW t \in Writers, Sends(t) PROVE CloseInv'
  <2>1. CASE t = "main"
    <3>1. /\ pc["main"] \in {"send", "recv", "count", "finish"} /\ flushing' = flushing
          /\ pc'["writer"] = pc["writer"]
      BY <1>0, <1>1, <2>1 DEF Sends, Send, Recv, Count, Finish
    <3>2. \/ pc'["main"] \in {"recv", "count", "finish", "hung", "terminated"}
          \/ pc'["main"] = "check" /\ ~flushing
          \/ pc'["main"] = "disconnect" /\ flushing /\ buffer' = {}
      BY <1>0, <1>1, <2>1 DEF Sends, Send, Recv, Count, Finish
    <3>3. flushing => pc["writer"] = "stopped"
      BY <3>1 DEF CloseInv
    <3> QED BY <3>1, <3>2, <3>3 DEF CloseInv
  <2>2. CASE t = "writer"
    <3>1. /\ pc["writer"] # "stopped" /\ flushing' = flushing /\ pc'["main"] = pc["main"]
      BY <1>0, <1>1, <2>2 DEF Sends, Send, Recv, Count, Finish
    <3>2. ~flushing \/ pc["main"] = "join"
      BY <3>1 DEF CloseInv
    <3> QED BY <3>1, <3>2 DEF CloseInv
  <2> QED BY <2>1, <2>2 DEF Writers
<1>2. CASE Insert
  BY <1>0, <1>2 DEF Insert, CloseInv
<1>3. CASE WriterWake
  BY <1>0, <1>3 DEF WriterWake, CloseInv
<1>4. CASE Flush
  BY <1>0, <1>4 DEF Flush, CloseInv
<1>5. CASE Moves
  BY <1>0, <1>5 DEF Moves, Check, StopWriter, JoinWriter, Disconnect, WriterTop, CloseInv
<1>6. CASE Users \/ UNCHANGED vars
  <2>1. UNCHANGED <<pc, flushing, buffer>>
    BY <1>6 DEF Users, Query, QueryRecv, Serve, ConnectionBreaks, vars, clientVars
  <2> QED BY <2>1 DEF CloseInv
<1> QED BY <1>1, <1>2, <1>3, <1>4, <1>5, <1>6, StepsOf

(* When disconnect has closed the socket, the writer was joined, the       *)
(* buffer is empty and every row main inserted has been counted, as failed *)
(* if it was never sent; without the repair of the second lock there was   *)
(* no row (stop_async_writer and flush, clickhouse_client.cpp:573-586,     *)
(* disconnect, :83-89).                                                    *)
THEOREM ClosedEmptyTheorem == Spec => []ClosedEmpty
<1>1. ASSUME ClientInv, CloseInv, pc["main"] = "closed"
      PROVE  /\ buffer = {} /\ pc["writer"] = "stopped" /\ mutex = NoOne
             /\ inserted <= stats.total_inserts
             /\ Cardinality((1..inserted) \ sent) <= stats.failed_inserts
             /\ relock # "repaired" => inserted = 0
  <2>1. TypeOK /\ OneSender /\ CountedBeforeCleared
    BY <1>1, Counted DEF ClientInv
  <2>2. buffer = {} /\ pc["writer"] = "stopped"
    BY <1>1 DEF CloseInv
  <2>3. mutex = NoOne
    <3>1. mutex # "main" /\ mutex # "writer"
      BY <1>1, <2>1, <2>2 DEF OneSender, Sending, Writers
    <3> QED BY <2>1, <3>1 DEF TypeOK, Writers
  <2>4. Cardinality(buffer) = 0 /\ inserted \in Nat /\ stats.total_inserts \in Nat
    BY <2>1, <2>2, FS_EmptySet, BufferFinite
  <2>5. inserted <= stats.total_inserts
    BY <2>1, <2>4 DEF CountedBeforeCleared
  <2>6. Cardinality((1..inserted) \ sent) <= stats.failed_inserts
    <3>1. (1..inserted) \ (buffer \cup sent) = (1..inserted) \ sent
      BY <2>2
    <3> QED BY <2>1, <3>1 DEF CountedBeforeCleared
  <2>7. relock # "repaired" => inserted = 0
    <3>1. relock # "repaired" => stats.total_inserts = 0
      BY <1>1 DEF ClientInv, HangInv
    <3> QED BY <2>4, <2>5, <3>1
  <2> QED BY <2>2, <2>3, <2>5, <2>6, <2>7
<1>2. ClientInv /\ CloseInv => ClosedEmpty
  BY <1>1 DEF ClosedEmpty
<1>3. ClientInv /\ CloseInv /\ [Next]_vars => CloseInv'
  BY CloseStep DEF ClientInv
<1> QED BY <1>2, <1>3, CloseStart, ClientInvariant, PTL DEF Spec
=============================================================================

------------------------- MODULE CompetingConsumers -------------------------
(***************************************************************************)
(* What a queue with several consumers promises: messages are published in *)
(* increasing order, at most Capacity of them wait, and each is taken by   *)
(* at most one consumer, oldest first.  It says nothing of which consumer  *)
(* that is.                                                                *)
(***************************************************************************)
EXTENDS Naturals, Sequences

CONSTANTS Messages,    (* the messages, numbered in the order they arise *)
          Consumers,   (* the threads that take them                     *)
          Capacity     (* how many may wait                              *)

VARIABLES waiting,     (* the messages published and not yet taken       *)
          taken        (* for each consumer, the messages it ever took   *)

vars == <<waiting, taken>>

(* m is newer than every message published so far. *)
Newest(m) ==
    /\ \A i \in DOMAIN waiting : waiting[i] < m
    /\ \A c \in Consumers : \A k \in taken[c] : k < m

Init ==
    /\ waiting = <<>>
    /\ taken = [c \in Consumers |-> {}]

Publish(m) ==
    /\ Newest(m)
    /\ Len(waiting) < Capacity
    /\ waiting' = Append(waiting, m)
    /\ UNCHANGED taken

Take(c) ==
    /\ waiting # <<>>
    /\ taken' = [taken EXCEPT ![c] = @ \cup {Head(waiting)}]
    /\ waiting' = Tail(waiting)

Next ==
    \/ \E m \in Messages : Publish(m)
    \/ \E c \in Consumers : Take(c)

Spec == Init /\ [][Next]_vars
=============================================================================

---------------------------- MODULE MessageQueue ----------------------------
(***************************************************************************)
(* MessageQueue<T> of backend/include/message_queue.h in its std::mutex    *)
(* build: a FIFO of at most Capacity items and the number of items its     *)
(* push refused.  Every member function runs entirely under mutex_, so one *)
(* call is one step of whoever makes it; the modules of the threads that   *)
(* share a queue apply these operators to it in actions of their own.      *)
(***************************************************************************)
EXTENDS Naturals, Sequences

CONSTANT Capacity   (* capacity_, 4096 for the three queues of main *)

ASSUME CapacityAssumption == Capacity \in Nat \ {0}

(* q is a queue of items from S. *)
IsQueue(q, S) ==
    /\ q \in [items : Seq(S), dropped : Nat]
    /\ Len(q.items) <= Capacity

EmptyQueue == [items |-> <<>>, dropped |-> 0]

(* Mutant of HasRoom: one item too many is let in. *)
HasRoomForOneMore(q) == Len(q.items) <= Capacity

(* push returns true exactly when the queue has room. *)
HasRoom(q) == Len(q.items) < Capacity

(* Mutant of Push: a refused item is not counted. *)
PushUncounted(q, item) ==
    IF HasRoom(q) THEN [q EXCEPT !.items = Append(@, item)] ELSE q

Push(q, item) ==
    IF HasRoom(q) THEN [q EXCEPT !.items = Append(@, item)]
                  ELSE [q EXCEPT !.dropped = @ + 1]

(* Mutant of IsEmpty: an off-by-one keeps the last item back. *)
IsEmptyOffByOne(q) == Len(q.items) <= 1

(* pop returns false, and assigns nothing, exactly when the queue is empty. *)
IsEmpty(q) == q.items = <<>>

Front(q) == Head(q.items)

(* Mutant of Pop: the item is read and left where it is. *)
PopLeavesItem(q) == q

Pop(q) == [q EXCEPT !.items = Tail(@)]
=============================================================================

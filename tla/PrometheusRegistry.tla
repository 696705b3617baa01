------------------------- MODULE PrometheusRegistry -------------------------
(***************************************************************************)
(* The counters of PrometheusRegistry.  An increment looks its name up     *)
(* without the lock; one that finds it adds atomically, one that does not  *)
(* creates the counter under the lock with a store.  A counter that main   *)
(* registered is always found, and this program increments no other: Miss  *)
(* and Create are what the registry does for a name nobody registered.     *)
(* Gauges behave the same and are left out.                                *)
(*                                                                         *)
(* added and raced are histories, per name: the increments made, and       *)
(* whether two of them missed the name at the same time.                   *)
(***************************************************************************)
EXTENDS Naturals

CONSTANTS Registered,   (* names main registers                            *)
          Unregistered  (* names it does not                               *)

ASSUME NamesAssumption == Registered \cap Unregistered = {}

Names == Registered \cup Unregistered

VARIABLES
    known,      \* the names in counters_
    value,      \* the values of counters_
    added,
    raced,
    creating    \* per name, how many increments have missed it and not yet stored

registryVars == <<known, value, added, raced, creating>>

RegistryInit ==
    /\ known = {}
    /\ value = [n \in Names |-> 0]
    /\ added = [n \in Names |-> 0]
    /\ raced = [n \in Names |-> FALSE]
    /\ creating = [n \in Names |-> 0]

Register ==
    /\ known' = known \cup Registered
    /\ value' = [n \in Names |-> IF n \in known THEN value[n] ELSE 0]
    /\ UNCHANGED <<added, raced, creating>>

(* Mutant of Add: the counter found is overwritten. *)
AddByStore(n) ==
    /\ n \in known
    /\ value' = [value EXCEPT ![n] = 1]
    /\ added' = [added EXCEPT ![n] = @ + 1]
    /\ UNCHANGED <<known, raced, creating>>

(* increment_counter, the name found. *)
Add(n) ==
    /\ n \in known
    /\ value' = [value EXCEPT ![n] = @ + 1]
    /\ added' = [added EXCEPT ![n] = @ + 1]
    /\ UNCHANGED <<known, raced, creating>>

(* increment_counter, the name missed: at the look-up ... *)
Miss(n) ==
    /\ n \notin known
    /\ creating' = [creating EXCEPT ![n] = @ + 1]
    /\ raced' = [raced EXCEPT ![n] = @ \/ creating[n] > 0]
    /\ UNCHANGED <<known, value, added>>

(* ... and under the lock. *)
Create(n) ==
    /\ creating[n] > 0
    /\ creating' = [creating EXCEPT ![n] = @ - 1]
    /\ known' = known \cup {n}
    /\ value' = [value EXCEPT ![n] = 1]
    /\ added' = [added EXCEPT ![n] = @ + 1]
    /\ UNCHANGED raced

(* A counter is the number of its increments, unless two of them once      *)
(* missed its name at the same time, which none of a registered name does; *)
(* it is never more (increment_counter, prometheus_metrics.cpp:33-42).     *)
CountersAddUp ==
    \A n \in Names :
        /\ value[n] <= added[n]
        /\ n \in Registered \/ ~raced[n] => value[n] = added[n]

=============================================================================

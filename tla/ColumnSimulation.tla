-------------------------- MODULE ColumnSimulation --------------------------
(***************************************************************************)
(* The one ColumnSimulation object the HTTP handlers share, and the two    *)
(* operations they run on it, simulate and simulate_timeseries.  None of   *)
(* them takes a lock.                                                      *)
(*                                                                         *)
(* The ten numbers of the column's state are represented by where they     *)
(* come from: how many time steps since the last reset, if all of them     *)
(* were made by one thread with the same parameters and soil, and Mixed    *)
(* otherwise.  Whether a step takes the column above its threshold is a    *)
(* free choice.                                                            *)
(***************************************************************************)
EXTENDS Integers

CONSTANTS Threads,   (* the handlers                                       *)
          Steps,     (* time steps of a simulation, duration / dt          *)
          NoThread

ASSUME StepsAssumption == Steps \in Nat
ASSUME NoThreadAssumption == NoThread \notin Threads

VARIABLES
    column_params_,
    soil_type_,
    motion,     \* what state_disp_x_ ... state_ang_vel_y_ hold
    frame       \* the locals of the simulation each thread is running; above
                \* is a history: whether a step took the column over its threshold

columnVars == <<column_params_, soil_type_, motion, frame>>

(* A set of column parameters: those of the configuration, or the n-th     *)
(* candidate of the search that thread t runs.                             *)
Configured == [by |-> NoThread, n |-> 0]
Candidate(t, n) == [by |-> t, n |-> n]

(* The soils: of the configuration, the fixed one of the ranges and the    *)
(* searches, and the member that api_run_simulation leaves uninitialised.  *)
Soils == {"configured", "medium", "unset"}

Rest == [by |-> NoThread, params |-> Configured, soil |-> "configured", steps |-> 0]
Mixed == [Rest EXCEPT !.steps = 1]
Motion(t, params, soil, n) == [by |-> t, params |-> params, soil |-> soil, steps |-> n]

(* What a step of thread t makes of the motion m. *)
Driven(m, t, params, soil) ==
    CASE m = Rest -> Motion(t, params, soil, 1)
      [] m # Rest /\ m = Motion(t, params, soil, m.steps) -> [m EXCEPT !.steps = @ + 1]
      [] OTHER -> Mixed

NotTriggered == -1

NoFrame == [call |-> "none", at |-> "none", soil |-> "configured", time |-> 0,
            trigger_time |-> NotTriggered, above |-> FALSE, sample |-> FALSE]

ColumnInit ==
    /\ column_params_ = Configured
    /\ soil_type_ = "configured"
    /\ motion = Rest
    /\ frame = [t \in Threads |-> NoFrame]

Idle(t) == frame[t].call = "none"
Finished(t) == frame[t].at = "end"

Call(t, call, soil) ==
    /\ Idle(t)
    /\ frame' = [frame EXCEPT ![t] = [NoFrame EXCEPT !.call = call, !.at = "reset", !.soil = soil]]

(* Mutant of Reset: the state of the last simulation is kept. *)
ResetForgotten(t) ==
    /\ frame[t].at = "reset"
    /\ soil_type_' = frame[t].soil
    /\ frame' = [frame EXCEPT ![t].at = "step"]
    /\ UNCHANGED <<motion, column_params_>>

(* The start of simulate and of simulate_timeseries, which a request may   *)
(* ask for no time at all.                                                 *)
Reset(t) ==
    /\ frame[t].at = "reset"
    /\ soil_type_' = frame[t].soil
    /\ motion' = Rest
    /\ frame' = [frame EXCEPT ![t].at = IF Steps = 0 THEN "end" ELSE "step"]
    /\ UNCHANGED column_params_

(* One time step: update_dynamics, the latch of trigger_time, and the      *)
(* sample, whose is_triggered looks at trigger_time as the step before     *)
(* left it.  A column above its threshold in the first step, at time 0, is *)
(* latched and not reported again.                                         *)
(*                                                                         *)
(* raced says that another thread uses the column meanwhile.  Without a    *)
(* lock the step may then add to what it finds, overwrite it with what it  *)
(* read before, or leave some of each.                                     *)
Step(t, raced) ==
    LET f == frame[t]
        n == f.time + 1
    IN
    /\ f.at = "step"
    /\ motion' \in {Driven(motion, t, column_params_, soil_type_)} \cup
          IF raced THEN {Mixed, Motion(t, column_params_, soil_type_, n)} ELSE {}
    /\ \E above \in BOOLEAN :
          LET latched == above /\ f.trigger_time < 0 IN
          frame' = [frame EXCEPT
              ![t].at = IF n = Steps THEN "end" ELSE "step",
              ![t].time = n,
              ![t].trigger_time = IF latched THEN f.time ELSE @,
              ![t].above = @ \/ above,
              ![t].sample = latched \/ f.trigger_time > 0]
    /\ UNCHANGED <<column_params_, soil_type_>>

(* is_triggered of the result of simulate, and of the last sample of       *)
(* simulate_timeseries.                                                    *)
IsTriggered(t) == IF frame[t].call = "series" THEN frame[t].sample ELSE frame[t].trigger_time > 0

Return(t) == frame' = [frame EXCEPT ![t] = NoFrame]

ColumnStep(t, raced) == Reset(t) \/ Step(t, raced)

-----------------------------------------------------------------------------
(* What a simulation should have computed *)

Exact(t, params) ==
    motion = IF Steps = 0 THEN Rest ELSE Motion(t, params, frame[t].soil, Steps)

(* A trigger in the first step is reported by a series of that step only.  *)
ReportedAsLatched(t) ==
    IsTriggered(t) <=>
        /\ frame[t].above
        /\ frame[t].trigger_time # 0 \/ (frame[t].call = "series" /\ Steps = 1)

=============================================================================

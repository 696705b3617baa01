------------------------ MODULE SensitivityAnalysis ------------------------
(***************************************************************************)
(* SensitivityAnalysis on a shared ColumnSimulation: the scans over a      *)
(* range of magnitudes or distances (or both), the detection range, which  *)
(* is one scan after the other, and optimize_parameters, which saves the   *)
(* column's parameters, tries candidates and puts the saved ones back.     *)
(* The time series of api_run_simulation is a job here too, because it     *)
(* competes for the same column.                                           *)
(*                                                                         *)
(* alone and overlapped are history variables: which jobs have had the     *)
(* column to themselves, and whether two searches ever ran at once.        *)
(***************************************************************************)
EXTENDS ColumnSimulation

CONSTANTS Points,       (* bound: points of a scan, steps in the request   *)
          Trials,       (* bound: trials at a point                        *)
          Iterations    (* bound: candidates of a search                   *)

ASSUME JobAssumption == Points \in Nat /\ Trials \in Nat /\ Iterations \in Nat

VARIABLES job, alone, overlapped

jobVars == <<job, alone, overlapped>>

Kinds == {"series", "scan", "range", "search"}

NoReport == [trials |-> 0, params |-> Configured]
NoJob == [kind |-> "none", phase |-> "none", scans |-> 0, point |-> 0, trial |-> 0,
          saved |-> Configured, report |-> NoReport]

JobInit ==
    /\ job = [t \in Threads |-> NoJob]
    /\ alone = [t \in Threads |-> FALSE]
    /\ overlapped = FALSE

Busy(t) == job[t].kind # "none"
Searching(t) == job[t].kind = "search" /\ job[t].phase # "done"
SoilOf(kind) == CASE kind = "series" -> "unset"
                  [] kind = "scan" -> "configured"
                  [] OTHER -> "medium"

(* The parameters a job's simulations are to run with. *)
Intended(t) == IF Searching(t) THEN Candidate(t, job[t].point + 1) ELSE Configured

(* What every job does to the history when it begins. *)
Enter(t, begun) ==
    /\ ~Busy(t)
    /\ job' = [job EXCEPT ![t] = begun]
    /\ alone' = [u \in Threads |-> IF u = t THEN \A v \in Threads \ {t} : ~Busy(v)
                                   ELSE alone[u] /\ ~Busy(u)]

BeginSeries(t) ==
    /\ Enter(t, [NoJob EXCEPT !.kind = "series", !.phase = "run"])
    /\ Call(t, "series", SoilOf("series"))
    /\ UNCHANGED <<overlapped, column_params_, soil_type_, motion>>

(* A scan sets the soil for its reference amplification. *)
BeginScan(t, kind) ==
    /\ Enter(t, [NoJob EXCEPT !.kind = kind, !.phase = "points", !.scans = IF kind = "range" THEN 2 ELSE 1])
    /\ soil_type_' = SoilOf(kind)
    /\ UNCHANGED <<overlapped, column_params_, motion, frame>>

BeginSearch(t) ==
    /\ Enter(t, [NoJob EXCEPT !.kind = "search", !.phase = "choose", !.saved = column_params_])
    /\ overlapped' = (overlapped \/ \E u \in Threads \ {t} : Searching(u))
    /\ UNCHANGED columnVars

Begin(t, kind) ==
    \/ kind = "series" /\ BeginSeries(t)
    \/ kind \in {"scan", "range"} /\ BeginScan(t, kind)
    \/ kind = "search" /\ BeginSearch(t)

-----------------------------------------------------------------------------

StartTrial(t) ==
    /\ job[t].phase = "points"
    /\ job[t].point < Points \/ job[t].kind = "search"
    /\ job[t].trial < Trials
    /\ Call(t, "simulate", SoilOf(job[t].kind))
    /\ UNCHANGED <<jobVars, column_params_, soil_type_, motion>>

EndTrial(t) ==
    /\ job[t].phase = "points"
    /\ Finished(t)
    /\ Return(t)
    /\ job' = [job EXCEPT ![t].trial = @ + 1]
    /\ UNCHANGED <<alone, overlapped, column_params_, soil_type_, motion>>

EndSeries(t) ==
    /\ job[t].kind = "series"
    /\ Finished(t)
    /\ Return(t)
    /\ job' = [job EXCEPT ![t].phase = "done"]
    /\ UNCHANGED <<alone, overlapped, column_params_, soil_type_, motion>>

(* The result of a point: the trials it rests on, and the stiffness and    *)
(* damping read from the column after the last of them.                    *)
EndPoint(t) ==
    /\ job[t].phase = "points"
    /\ job[t].trial = Trials
    /\ Idle(t)
    /\ job[t].kind # "search"
    /\ job[t].point < Points
    /\ job' = [job EXCEPT ![t].point = @ + 1, ![t].trial = 0,
                          ![t].report = [trials |-> job[t].trial, params |-> column_params_]]
    /\ UNCHANGED <<alone, overlapped, columnVars>>

EndScan(t) ==
    /\ job[t].phase = "points"
    /\ job[t].kind # "search"
    /\ job[t].point = Points
    /\ IF job[t].scans > 1
       THEN /\ job' = [job EXCEPT ![t].scans = @ - 1, ![t].point = 0]
            /\ soil_type_' = SoilOf(job[t].kind)
       ELSE /\ job' = [job EXCEPT ![t].phase = "done"]
            /\ UNCHANGED soil_type_
    /\ UNCHANGED <<alone, overlapped, column_params_, motion, frame>>

-----------------------------------------------------------------------------
(* optimize_parameters *)

TryCandidate(t) ==
    /\ job[t].phase = "choose"
    /\ job[t].point < Iterations
    /\ column_params_' = Candidate(t, job[t].point + 1)
    /\ job' = [job EXCEPT ![t].phase = "points", ![t].trial = 0]
    /\ UNCHANGED <<alone, overlapped, soil_type_, motion, frame>>

ScoreCandidate(t) ==
    /\ job[t].phase = "points"
    /\ job[t].kind = "search"
    /\ job[t].trial = Trials
    /\ Idle(t)
    /\ job' = [job EXCEPT ![t].phase = "choose", ![t].point = @ + 1]
    /\ UNCHANGED <<alone, overlapped, columnVars>>

(* Mutant of RestoreParams: the last candidate stays in the column. *)
RestoreForgotten(t) ==
    /\ job[t].phase = "choose"
    /\ job[t].point = Iterations
    /\ job' = [job EXCEPT ![t].phase = "done"]
    /\ UNCHANGED <<alone, overlapped, columnVars>>

RestoreParams(t) ==
    /\ job[t].phase = "choose"
    /\ job[t].point = Iterations
    /\ column_params_' = job[t].saved
    /\ job' = [job EXCEPT ![t].phase = "done"]
    /\ UNCHANGED <<alone, overlapped, soil_type_, motion, frame>>

JobStep(t) ==
    \/ StartTrial(t) \/ EndTrial(t) \/ EndSeries(t) \/ EndPoint(t) \/ EndScan(t)
    \/ TryCandidate(t) \/ ScoreCandidate(t) \/ RestoreParams(t)
    \/ ColumnStep(t, \E u \in Threads \ {t} : Busy(u)) /\ UNCHANGED jobVars

(* The handler takes the results of its job. *)
Leave(t) ==
    /\ job[t].phase = "done"
    /\ job' = [job EXCEPT ![t] = NoJob]
    /\ alone' = [alone EXCEPT ![t] = FALSE]
    /\ UNCHANGED <<overlapped, columnVars>>

-----------------------------------------------------------------------------

(* While two searches have never run at once, the parameters every handler *)
(* reads are those of the configuration unless a search is under way, and  *)
(* that search holds the configuration's to put back                       *)
(* (optimize_parameters, sensitivity_analysis.cpp:406 and :444).           *)
ParamsRestored ==
    ~overlapped =>
        \/ column_params_ = Configured
        \/ \E t \in Threads : Searching(t) /\ job[t].saved = Configured

(* A job that has had the column to itself, in a process where no two      *)
(* searches have overlapped, computes what it was asked for whatever ran   *)
(* before it: each of its simulations is Steps steps of its own from a     *)
(* reset, all with the parameters and the soil it intends, its trigger is  *)
(* reported as latched, and the stiffness a point reports is the one its   *)
(* trials were made with (column_simulation.cpp:371-491,                   *)
(* sensitivity_analysis.cpp:155-181).                                      *)
AloneIsExact ==
    \A t \in Threads : alone[t] /\ ~overlapped =>
        /\ Finished(t) => Exact(t, Intended(t)) /\ ReportedAsLatched(t)
        /\ job[t].report.params = Configured

=============================================================================

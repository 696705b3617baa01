-------------------------- MODULE HttpServerProofs --------------------------
(***************************************************************************)
(* Proofs about the HTTP server and the jobs its handlers run on the       *)
(* shared column, for any number of connections, steps, points, trials and *)
(* candidates.  The first part speaks of the steps that a job can make     *)
(* (JobNext); the second shows that the handlers do nothing else to the    *)
(* column, and proves what the server promises while it starts and stops.  *)
(***************************************************************************)
EXTENDS HttpServer, TLAPS

-----------------------------------------------------------------------------
(* The steps of the jobs *)

jobsVars == <<columnVars, jobVars>>

JobNext == \E t \in Threads : (\E kind \in Kinds : Begin(t, kind)) \/ JobStep(t) \/ Leave(t)

-----------------------------------------------------------------------------
(* The invariant *)

Owners == Threads \cup {NoThread}
ParamsType == [by : Owners, n : Nat]
MotionType == [by : Owners, params : ParamsType, soil : Soils, steps : Nat]
FrameType == [call : {"none", "simulate", "series"}, at : {"none", "reset", "step", "end"},
              soil : Soils, time : Nat, trigger_time : Int, above : BOOLEAN, sample : BOOLEAN]
JobType == [kind : Kinds \cup {"none"}, phase : {"none", "run", "points", "choose", "done"},
            scans : Nat, point : Nat, trial : Nat, saved : ParamsType,
            report : [trials : Nat, params : ParamsType]]

JobTypeOK ==
    /\ column_params_ \in ParamsType
    /\ soil_type_ \in Soils
    /\ motion \in MotionType
    /\ frame \in [Threads -> FrameType]
    /\ job \in [Threads -> JobType]
    /\ alone \in [Threads -> BOOLEAN]
    /\ overlapped \in BOOLEAN

(* The phases each kind of job goes through, and where it has a simulation *)
(* under way.                                                              *)
Phased(t) ==
    /\ job[t].kind = "none" <=> job[t].phase = "none"
    /\ job[t].phase = "choose" => job[t].kind = "search"
    /\ job[t].phase = "run" => job[t].kind = "series"
    /\ job[t].kind = "series" => job[t].phase \in {"run", "done"}
    /\ job[t].phase \notin {"run", "points"} => frame[t] = NoFrame
    /\ Idle(t) => frame[t] = NoFrame
    /\ Finished(t) => ~Idle(t)
    /\ job[t].phase = "points" /\ job[t].kind # "search" /\ ~Idle(t) => job[t].point < Points

PhaseInv == \A t \in Threads : Phased(t)

(* A job that has the column to itself is the only one.                    *)
AloneInv ==
    \A t \in Threads : alone[t] => Busy(t) /\ \A u \in Threads \ {t} : ~Busy(u)

(* While searches have not overlapped there is one at most, it holds the   *)
(* configuration's parameters to put back, and without one they are in     *)
(* place.                                                                  *)
Orderly ==
    /\ \A t, u \in Threads : Searching(t) /\ Searching(u) => t = u
    /\ \A t \in Threads : Searching(t) => job[t].saved = Configured
    /\ (\A t \in Threads : ~Searching(t)) => column_params_ = Configured

SearchInv == ~overlapped => Orderly

(* The latch of the trigger, whoever else uses the column.                 *)
Latched(t) ==
    LET f == frame[t] IN
    /\ f.time <= Steps
    /\ f.at = "end" => f.time = Steps
    /\ f.at = "step" => f.time < Steps
    /\ f.at \in {"none", "reset"} => f.time = 0
    /\ f.trigger_time \in -1..f.time - 1
    /\ f.above <=> f.trigger_time # -1
    /\ f.sample <=> f.trigger_time > 0 \/ (f.time = 1 /\ f.above)

LatchInv == \A t \in Threads : Latched(t)

(* A job alone finds what it left.                                         *)
Undisturbed(t) ==
    /\ job[t].phase # "choose" => column_params_ = Intended(t)
    /\ job[t].report.params = Configured
    /\ frame[t].at \in {"step", "end"} =>
          /\ soil_type_ = frame[t].soil
          /\ motion = IF frame[t].time = 0 THEN Rest
                      ELSE Motion(t, Intended(t), frame[t].soil, frame[t].time)

ExactInv == \A t \in Threads : alone[t] /\ ~overlapped => Undisturbed(t)

JobInv == JobTypeOK /\ PhaseInv /\ AloneInv /\ SearchInv /\ LatchInv /\ ExactInv

-----------------------------------------------------------------------------
(* Every job begins, goes on and ends by one of these steps.               *)
Steppings(t) ==
    \/ BeginSeries(t)
    \/ \E kind \in {"scan", "range"} : BeginScan(t, kind)
    \/ BeginSearch(t)
    \/ StartTrial(t) \/ EndTrial(t) \/ EndSeries(t) \/ EndPoint(t) \/ EndScan(t)
    \/ TryCandidate(t) \/ ScoreCandidate(t) \/ RestoreParams(t)
    \/ Reset(t) /\ UNCHANGED jobVars
    \/ Step(t, \E u \in Threads \ {t} : Busy(u)) /\ UNCHANGED jobVars
    \/ Leave(t)

LEMMA StepOf == JobNext => \E t \in Threads : Steppings(t)
BY Zenon DEF JobNext, Steppings, Begin, JobStep, ColumnStep, Kinds

(* The records the steps make have the types of jobs and of frames.        *)
LEMMA FreshTypes ==
    /\ NoFrame \in FrameType /\ NoJob \in JobType /\ Configured \in ParamsType /\ Rest \in MotionType
    /\ \A call \in {"simulate", "series"}, soil \in Soils :
          [NoFrame EXCEPT !.call = call, !.at = "reset", !.soil = soil] \in FrameType
<1>1. NoFrame \in FrameType
  BY DEF NoFrame, FrameType, Soils, NotTriggered
<1>2. Configured \in ParamsType
  BY DEF Configured, ParamsType, Owners
<1>3. NoJob \in JobType
  BY <1>2 DEF NoJob, NoReport, JobType
<1>4. Rest \in MotionType
  BY <1>2 DEF Rest, MotionType, Owners, Soils
<1>5. ASSUME NEW call \in {"simulate", "series"}, NEW soil \in Soils
      PROVE  [NoFrame EXCEPT !.call = call, !.at = "reset", !.soil = soil] \in FrameType
  BY <1>1 DEF FrameType
<1> QED  BY <1>1, <1>2, <1>3, <1>4, <1>5

(* The initial state satisfies the invariant.                              *)
LEMMA JobStart == ASSUME ColumnInit, JobInit PROVE JobInv
<1>1. JobTypeOK
  BY FreshTypes DEF ColumnInit, JobInit, JobTypeOK, Soils
<1>2. PhaseInv
  BY DEF ColumnInit, JobInit, PhaseInv, Phased, NoJob, NoFrame, Idle, Finished
<1>3. AloneInv
  BY DEF JobInit, AloneInv
<1>4. SearchInv
  BY DEF ColumnInit, JobInit, SearchInv, Orderly, Searching, NoJob
<1>5. LatchInv
  <2>1. -1 \in -1..0 - 1 /\ 0 <= Steps
    BY StepsAssumption
  <2>2. SUFFICES ASSUME NEW t \in Threads PROVE Latched(t)
    BY DEF LatchInv
  <2>3. frame[t] = NoFrame
    BY DEF ColumnInit
  <2>4. /\ frame[t].sample = FALSE /\ frame[t].above = FALSE /\ frame[t].time = 0
        /\ frame[t].trigger_time = -1 /\ frame[t].at = "none"
    BY <2>3 DEF NoFrame, NotTriggered
  <2> QED  BY <2>1, <2>4 DEF Latched
<1>6. ExactInv
  BY DEF JobInit, ExactInv
<1> QED  BY <1>1, <1>2, <1>3, <1>4, <1>5, <1>6 DEF JobInv

-----------------------------------------------------------------------------
(* Preservation, conjunct by conjunct *)

(* Counters stay natural numbers.                                          *)
LEMMA CounterTypes ==
    ASSUME JobTypeOK, NEW t \in Threads
    PROVE  /\ job[t] \in JobType /\ job[t].saved \in ParamsType
           /\ job[t].trial \in Nat /\ job[t].trial + 1 \in Nat
           /\ job[t].point \in Nat /\ job[t].point + 1 \in Nat
           /\ job[t].scans \in Nat /\ (job[t].scans > 1 => job[t].scans - 1 \in Nat)
           /\ job[t].kind \in Kinds \cup {"none"}
<1>1. job[t] \in JobType
  BY DEF JobTypeOK
<1>2. job[t].trial \in Nat /\ job[t].point \in Nat /\ job[t].scans \in Nat /\ job[t].kind \in Kinds \cup {"none"}
      /\ job[t].saved \in ParamsType
  BY <1>1 DEF JobType
<1> QED  BY <1>1, <1>2

LEMMA JobTypeStep ==
    ASSUME JobTypeOK, NEW t \in Threads, Steppings(t) PROVE JobTypeOK'
<1> USE DEF JobTypeOK, columnVars, jobVars
<1>1. CASE BeginSeries(t)
  <2>1. [NoJob EXCEPT !.kind = "series", !.phase = "run"] \in JobType
    BY FreshTypes DEF JobType, Kinds
  <2> QED  BY <1>1, <2>1, FreshTypes DEF BeginSeries, Enter, Call, SoilOf, Soils
<1>2. CASE \E kind \in {"scan", "range"} : BeginScan(t, kind)
  <2>1. PICK kind \in {"scan", "range"} : BeginScan(t, kind)
    BY <1>2
  <2>2. [NoJob EXCEPT !.kind = kind, !.phase = "points", !.scans = IF kind = "range" THEN 2 ELSE 1] \in JobType
    BY FreshTypes DEF JobType, Kinds
  <2> QED  BY <2>1, <2>2 DEF BeginScan, Enter, SoilOf, Soils
<1>3. CASE BeginSearch(t)
  <2>1. [NoJob EXCEPT !.kind = "search", !.phase = "choose", !.saved = column_params_] \in JobType
    BY FreshTypes DEF JobType, Kinds
  <2> QED  BY <1>3, <2>1 DEF BeginSearch, Enter
<1>4. CASE StartTrial(t)
  BY <1>4, FreshTypes DEF StartTrial, Call, SoilOf, Soils
<1>5. CASE EndTrial(t)
  <2>1. \A n \in Nat : [job[t] EXCEPT !.trial = n] \in JobType
    BY CounterTypes DEF JobType
  <2> QED  BY <1>5, <2>1, CounterTypes, FreshTypes DEF EndTrial, Return
<1>6. CASE EndSeries(t)
  <2>1. [job[t] EXCEPT !.phase = "done"] \in JobType
    BY DEF JobType
  <2> QED  BY <1>6, <2>1, FreshTypes DEF EndSeries, Return
<1>7. CASE EndPoint(t)
  <2>1. \A n, k \in Nat : [job[t] EXCEPT !.point = n, !.trial = 0,
                         !.report = [trials |-> k, params |-> column_params_]] \in JobType
    BY CounterTypes DEF JobType
  <2> QED  BY <1>7, <2>1, CounterTypes DEF EndPoint
<1>8. CASE EndScan(t)
  <2>1. CASE job[t].scans > 1
    <3>1. \A n \in Nat : [job[t] EXCEPT !.scans = n, !.point = 0] \in JobType
      BY CounterTypes DEF JobType
    <3> QED  BY <1>8, <2>1, <3>1, CounterTypes DEF EndScan, SoilOf, Soils
  <2>2. CASE ~(job[t].scans > 1)
    <3>1. [job[t] EXCEPT !.phase = "done"] \in JobType
      BY DEF JobType
    <3> QED  BY <1>8, <2>2, <3>1 DEF EndScan
  <2> QED  BY <2>1, <2>2
<1>9. CASE TryCandidate(t)
  <2>1. [job[t] EXCEPT !.phase = "points", !.trial = 0] \in JobType
    BY CounterTypes DEF JobType
  <2>2. \A n \in Nat : Candidate(t, n) \in ParamsType
    BY DEF Candidate, ParamsType, Owners
  <2> QED  BY <1>9, <2>1, <2>2, CounterTypes DEF TryCandidate
<1>10. CASE ScoreCandidate(t)
  <2>1. \A n \in Nat : [job[t] EXCEPT !.phase = "choose", !.point = n] \in JobType
    BY CounterTypes DEF JobType
  <2> QED  BY <1>10, <2>1, CounterTypes DEF ScoreCandidate
<1>11. CASE RestoreParams(t)
  <2>1. [job[t] EXCEPT !.phase = "done"] \in JobType /\ job[t].saved \in ParamsType
    BY DEF JobType
  <2> QED  BY <1>11, <2>1 DEF RestoreParams
<1>12. CASE Reset(t) /\ UNCHANGED jobVars
  <2>1. /\ \A at \in {"end", "step"} : [frame[t] EXCEPT !.at = at] \in FrameType
        /\ frame[t].soil \in Soils
    BY DEF FrameType
  <2> QED  BY <1>12, <2>1, FreshTypes DEF Reset
<1>13. CASE Step(t, \E u \in Threads \ {t} : Busy(u)) /\ UNCHANGED jobVars
  <2>1. motion' \in MotionType
    BY <1>13 DEF Step, Driven, Mixed, Motion, Rest, FrameType, MotionType, ParamsType, Owners, Configured, Soils
  <2>2. frame' \in [Threads -> FrameType]
    BY <1>13 DEF Step, FrameType
  <2> QED  BY <1>13, <2>1, <2>2 DEF Step
<1>14. CASE Leave(t)
  BY <1>14, FreshTypes DEF Leave
<1> QED
  BY <1>1, <1>2, <1>3, <1>4, <1>5, <1>6, <1>7, <1>8, <1>9, <1>10, <1>11, <1>12, <1>13, <1>14 DEF Steppings

(* A step of thread t leaves the jobs and the frames of the others.        *)
LEMMA OthersKept ==
    ASSUME JobTypeOK, NEW t \in Threads, Steppings(t), NEW u \in Threads \ {t}
    PROVE  job'[u] = job[u] /\ frame'[u] = frame[u]
<1> USE DEF JobTypeOK, columnVars, jobVars
<1>1. CASE BeginSeries(t) \/ (\E kind \in {"scan", "range"} : BeginScan(t, kind)) \/ BeginSearch(t)
  BY <1>1 DEF BeginSeries, BeginScan, BeginSearch, Enter, Call
<1>2. CASE StartTrial(t) \/ EndTrial(t) \/ EndSeries(t)
  BY <1>2 DEF StartTrial, EndTrial, EndSeries, Call, Return
<1>3. CASE EndPoint(t) \/ EndScan(t)
  BY <1>3 DEF EndPoint, EndScan
<1>4. CASE TryCandidate(t) \/ ScoreCandidate(t) \/ RestoreParams(t) \/ Leave(t)
  BY <1>4 DEF TryCandidate, ScoreCandidate, RestoreParams, Leave
<1>5. CASE (Reset(t) \/ Step(t, \E v \in Threads \ {t} : Busy(v))) /\ UNCHANGED jobVars
  BY <1>5 DEF Reset, Step
<1> QED  BY <1>1, <1>2, <1>3, <1>4, <1>5 DEF Steppings

LEMMA PhaseStep ==
    ASSUME JobTypeOK, PhaseInv, NEW t \in Threads, Steppings(t) PROVE PhaseInv'
<1> SUFFICES Phased(t)'
  BY OthersKept DEF PhaseInv, Phased, Idle, Finished
<1> Phased(t)
  BY DEF PhaseInv
<1> USE DEF JobTypeOK, columnVars, jobVars, Phased, Idle, Finished
<1>1. CASE BeginSeries(t)
  BY <1>1 DEF BeginSeries, Enter, Call, NoJob, NoFrame, Busy
<1>2. CASE \E kind \in {"scan", "range"} : BeginScan(t, kind)
  BY <1>2 DEF BeginScan, Enter, NoJob, NoFrame, Busy
<1>3. CASE BeginSearch(t)
  BY <1>3 DEF BeginSearch, Enter, NoJob, NoFrame, Busy
<1>4. CASE StartTrial(t)
  BY <1>4 DEF StartTrial, Call, NoFrame
<1>5. CASE EndTrial(t)
  BY <1>5, CounterTypes DEF EndTrial, Return, NoFrame, JobType
<1>6. CASE EndSeries(t)
  BY <1>6, CounterTypes DEF EndSeries, Return, NoFrame, JobType
<1>7. CASE EndPoint(t)
  BY <1>7, CounterTypes DEF EndPoint, NoFrame, JobType
<1>8. CASE EndScan(t)
  <2>1. ~(job[t].point < Points)
    BY <1>8, JobAssumption DEF EndScan
  <2>2. frame[t] = NoFrame
    BY <1>8, <2>1 DEF EndScan
  <2>3. CASE job[t].scans > 1
    <3>1. job'[t].kind = job[t].kind /\ job'[t].phase = job[t].phase /\ frame'[t] = frame[t]
      BY <1>8, <2>3, CounterTypes DEF EndScan, JobType
    <3> QED  BY <1>8, <2>2, <3>1 DEF EndScan, NoFrame
  <2>4. CASE ~(job[t].scans > 1)
    BY <1>8, <2>2, <2>4, CounterTypes DEF EndScan, NoFrame, JobType
  <2> QED  BY <2>3, <2>4
<1>9. CASE TryCandidate(t)
  BY <1>9, CounterTypes DEF TryCandidate, NoFrame, JobType
<1>10. CASE ScoreCandidate(t)
  BY <1>10, CounterTypes DEF ScoreCandidate, NoFrame, JobType
<1>11. CASE RestoreParams(t)
  BY <1>11, CounterTypes DEF RestoreParams, NoFrame, JobType
<1>12. CASE Reset(t) /\ UNCHANGED jobVars
  BY <1>12 DEF Reset, NoFrame, FrameType
<1>13. CASE Step(t, \E u \in Threads \ {t} : Busy(u)) /\ UNCHANGED jobVars
  BY <1>13 DEF Step, NoFrame, FrameType
<1>14. CASE Leave(t)
  BY <1>14 DEF Leave, NoJob, NoFrame
<1> QED
  BY <1>1, <1>2, <1>3, <1>4, <1>5, <1>6, <1>7, <1>8, <1>9, <1>10, <1>11, <1>12, <1>13, <1>14 DEF Steppings

(* A job that begins alone is the only one, and while a thread has the     *)
(* column to itself no other has a step but the one that begins a job.     *)
LEMMA AloneStep ==
    ASSUME JobTypeOK, AloneInv, NEW t \in Threads, Steppings(t) PROVE AloneInv'
<1> USE DEF JobTypeOK, columnVars, jobVars, AloneInv, Busy
<1>1. CASE BeginSeries(t) \/ (\E kind \in {"scan", "range"} : BeginScan(t, kind)) \/ BeginSearch(t)
  <2>1. /\ job[t].kind = "none" /\ job'[t].kind # "none"
        /\ alone' = [u \in Threads |-> IF u = t THEN \A v \in Threads \ {t} : ~Busy(v) ELSE alone[u] /\ ~Busy(u)]
    <3>1. PICK begun \in {[NoJob EXCEPT !.kind = "series", !.phase = "run"],
                          [NoJob EXCEPT !.kind = "scan", !.phase = "points", !.scans = 1],
                          [NoJob EXCEPT !.kind = "range", !.phase = "points", !.scans = 2],
                          [NoJob EXCEPT !.kind = "search", !.phase = "choose", !.saved = column_params_]} :
               Enter(t, begun)
      BY <1>1 DEF BeginSeries, BeginScan, BeginSearch
    <3>2. begun.kind # "none"
      BY DEF NoJob
    <3>3. job'[t] = begun
      BY <3>1 DEF Enter
    <3>4. job[t].kind = "none"
      BY <3>1 DEF Enter
    <3>5. alone' = [u \in Threads |-> IF u = t THEN \A v \in Threads \ {t} : ~Busy(v) ELSE alone[u] /\ ~Busy(u)]
      BY <3>1, Zenon DEF Enter
    <3> QED  BY <3>2, <3>3, <3>4, <3>5
  <2> QED  BY <2>1, OthersKept
<1>2. CASE Leave(t)
  <2>1. job'[t].kind = "none" /\ alone'[t] = FALSE /\ \A u \in Threads \ {t} : alone'[u] = alone[u]
    BY <1>2 DEF Leave, NoJob
  <2> QED  BY <2>1, OthersKept
<1>3. ASSUME alone' = alone, job'[t].kind = job[t].kind PROVE AloneInv'
  BY <1>3, OthersKept
<1>4. CASE EndScan(t)
  BY <1>3, <1>4, CounterTypes DEF EndScan, JobType
<1>5. CASE EndPoint(t)
  BY <1>3, <1>5, CounterTypes DEF EndPoint, JobType
<1>6. CASE EndTrial(t)
  BY <1>3, <1>6, CounterTypes DEF EndTrial, JobType
<1>7. CASE EndSeries(t)
  BY <1>3, <1>7, CounterTypes DEF EndSeries, JobType
<1>8. CASE TryCandidate(t)
  BY <1>3, <1>8, CounterTypes DEF TryCandidate, JobType
<1>9. CASE ScoreCandidate(t)
  BY <1>3, <1>9, CounterTypes DEF ScoreCandidate, JobType
<1>10. CASE RestoreParams(t)
  BY <1>3, <1>10, CounterTypes DEF RestoreParams, JobType
<1>11. CASE UNCHANGED jobVars
  BY <1>3, <1>11
<1>12. CASE StartTrial(t)
  BY <1>11, <1>12 DEF StartTrial
<1> QED
  BY <1>1, <1>2, <1>4, <1>5, <1>6, <1>7, <1>8, <1>9, <1>10, <1>11, <1>12 DEF Steppings

LEMMA LatchStep ==
    ASSUME JobTypeOK, LatchInv, NEW t \in Threads, Steppings(t) PROVE LatchInv'
<1> SUFFICES Latched(t)'
  BY OthersKept DEF LatchInv, Latched
<1>0. Latched(t) /\ frame[t] \in FrameType
  BY DEF LatchInv, JobTypeOK
<1>1. CASE frame'[t] = frame[t]
  BY <1>0, <1>1 DEF Latched
<1>2. CASE \E call \in {"simulate", "series"}, soil \in Soils :
               frame'[t] = [NoFrame EXCEPT !.call = call, !.at = "reset", !.soil = soil]
  <2>1. -1 \in -1..0 - 1 /\ 0 <= Steps
    BY StepsAssumption
  <2>2. /\ frame'[t].time = 0 /\ frame'[t].at = "reset" /\ frame'[t].trigger_time = -1
        /\ frame'[t].above = FALSE /\ frame'[t].sample = FALSE
    BY <1>2 DEF NoFrame, NotTriggered
  <2> QED  BY <2>1, <2>2 DEF Latched
<1>3. CASE frame'[t] = NoFrame
  <2>1. -1 \in -1..0 - 1 /\ 0 <= Steps
    BY StepsAssumption
  <2> QED  BY <1>3, <2>1 DEF Latched, NoFrame, NotTriggered
<1>4. CASE Reset(t)
  <2>1. frame'[t] = [frame[t] EXCEPT !.at = IF Steps = 0 THEN "end" ELSE "step"] /\ frame[t].time = 0
    BY <1>0, <1>4 DEF Reset, JobTypeOK, Latched
  <2> QED  BY <1>0, <2>1, StepsAssumption DEF Latched, FrameType
<1>5. CASE Step(t, \E u \in Threads \ {t} : Busy(u))
  <2>1. PICK above \in BOOLEAN :
            frame'[t] = LET f == frame[t]
                            latched == above /\ f.trigger_time < 0 IN
              [f EXCEPT
              !.at = IF f.time + 1 = Steps THEN "end" ELSE "step",
              !.time = f.time + 1,
              !.trigger_time = IF latched THEN f.time ELSE @,
              !.above = @ \/ above,
              !.sample = latched \/ f.trigger_time > 0]
    BY <1>5 DEF Step, JobTypeOK
  <2> DEFINE f == frame[t]
             g == frame'[t]
  <2>2. /\ f.time \in Nat /\ f.trigger_time \in -1..f.time - 1 /\ f.time < Steps
        /\ f.above \in BOOLEAN /\ (f.above <=> f.trigger_time # -1)
    BY <1>0, <1>5 DEF Step, Latched, FrameType
  <2>3. /\ g.at = IF f.time + 1 = Steps THEN "end" ELSE "step"
        /\ g.time = f.time + 1
        /\ g.trigger_time = IF above /\ f.trigger_time < 0 THEN f.time ELSE f.trigger_time
        /\ g.above = (f.above \/ above)
        /\ g.sample = ((above /\ f.trigger_time < 0) \/ f.trigger_time > 0)
    BY <1>0, <2>1 DEF FrameType
  <2>4. g.time <= Steps /\ (g.at = "end" => g.time = Steps) /\ (g.at = "step" => g.time < Steps)
        /\ g.at \notin {"none", "reset"}
    BY <2>2, <2>3, StepsAssumption
  <2>5. g.trigger_time \in -1..g.time - 1
    BY <2>2, <2>3
  <2>6. CASE above /\ f.trigger_time < 0
    <3>1. g.trigger_time = f.time /\ g.above = TRUE /\ g.sample = TRUE
      BY <2>3, <2>6, Zenon
    <3>3. g.trigger_time # -1
      BY <2>2, <3>1
    <3>2. g.trigger_time > 0 \/ g.time = 1
      BY <2>2, <2>3, <3>1
    <3> QED  BY <2>4, <2>5, <3>1, <3>2, <3>3 DEF Latched
  <2>7. CASE ~(above /\ f.trigger_time < 0)
    <3>1. above => f.above
      BY <2>2, <2>7
    <3>2. g.trigger_time = f.trigger_time /\ (g.above <=> f.above) /\ (g.sample <=> f.trigger_time > 0)
      BY <2>3, <2>7, <3>1, Zenon
    <3>3. g.time = 1 => g.trigger_time = -1
      BY <2>2, <2>3, <2>7, <3>1, <3>2
    <3> QED  BY <2>2, <2>3, <2>4, <2>5, <3>2, <3>3 DEF Latched
  <2> QED  BY <2>6, <2>7
<1> USE DEF JobTypeOK, columnVars, jobVars
<1>6. CASE BeginSeries(t)
  BY <1>2, <1>6, FreshTypes DEF BeginSeries, Call, SoilOf, Soils
<1>7. CASE StartTrial(t)
  BY <1>2, <1>7, FreshTypes DEF StartTrial, Call, SoilOf, Soils
<1>8. CASE EndTrial(t) \/ EndSeries(t)
  BY <1>3, <1>8 DEF EndTrial, EndSeries, Return
<1>9. CASE (\E kind \in {"scan", "range"} : BeginScan(t, kind)) \/ BeginSearch(t) \/ EndPoint(t)
           \/ EndScan(t) \/ TryCandidate(t) \/ ScoreCandidate(t) \/ RestoreParams(t) \/ Leave(t)
  BY <1>1, <1>9 DEF BeginScan, BeginSearch, EndPoint, EndScan, TryCandidate, ScoreCandidate, RestoreParams, Leave
<1> QED  BY <1>4, <1>5, <1>6, <1>7, <1>8, <1>9 DEF Steppings

(* Whether searches have overlapped is not forgotten.                      *)
LEMMA OverlapKept == ASSUME NEW t \in Threads, Steppings(t), ~overlapped' PROVE ~overlapped
<1> USE DEF jobVars
<1>1. CASE BeginSeries(t) \/ (\E kind \in {"scan", "range"} : BeginScan(t, kind)) \/ BeginSearch(t)
  BY <1>1 DEF BeginSeries, BeginScan, BeginSearch
<1>2. CASE StartTrial(t) \/ EndTrial(t) \/ EndSeries(t) \/ EndPoint(t) \/ EndScan(t)
  BY <1>2 DEF StartTrial, EndTrial, EndSeries, EndPoint, EndScan
<1>3. CASE TryCandidate(t) \/ ScoreCandidate(t) \/ RestoreParams(t) \/ Leave(t)
  BY <1>3 DEF TryCandidate, ScoreCandidate, RestoreParams, Leave
<1>4. CASE UNCHANGED jobVars
  BY <1>4
<1> QED  BY <1>1, <1>2, <1>3, <1>4 DEF Steppings

(* A search that begins without another saves the configuration's          *)
(* parameters, which are back in place when it ends.                       *)
LEMMA SearchStep ==
    ASSUME JobTypeOK, PhaseInv, SearchInv, NEW t \in Threads, Steppings(t) PROVE SearchInv'
<1> SUFFICES ASSUME ~overlapped' PROVE Orderly'
  BY DEF SearchInv
<1>0. \A u \in Threads \ {t} : (Searching(u)' <=> Searching(u)) /\ job'[u].saved = job[u].saved
  BY OthersKept DEF Searching
<1> Orderly
  BY OverlapKept DEF SearchInv
<1> Phased(t)
  BY DEF PhaseInv
<1> USE DEF JobTypeOK, jobVars
<1>a. ASSUME column_params_' = column_params_, Searching(t)' <=> Searching(t), job'[t].saved = job[t].saved
      PROVE  Orderly'
  BY <1>0, <1>a DEF Orderly
<1>b. ASSUME column_params_' = column_params_, ~Searching(t)', ~Searching(t)
      PROVE  Orderly'
  BY <1>0, <1>b DEF Orderly
<1>1. CASE BeginSeries(t)
  <2>1. job[t].kind = "none" /\ job'[t].kind = "series" /\ column_params_' = column_params_
    BY <1>1 DEF BeginSeries, Enter, NoJob, Busy
  <2> QED  BY <1>b, <2>1 DEF Searching
<1>2. CASE \E kind \in {"scan", "range"} : BeginScan(t, kind)
  <2>1. job[t].kind = "none" /\ job'[t].kind \in {"scan", "range"} /\ column_params_' = column_params_
    BY <1>2 DEF BeginScan, Enter, NoJob, Busy
  <2> QED  BY <1>b, <2>1 DEF Searching
<1>3. CASE BeginSearch(t)
  <2>1. /\ job[t].kind = "none" /\ job'[t].saved = column_params_ /\ column_params_' = column_params_
        /\ job'[t].kind = "search" /\ job'[t].phase = "choose"
    BY <1>3 DEF BeginSearch, Enter, NoJob, Busy, columnVars
  <2>2. \A u \in Threads \ {t} : ~Searching(u)
    BY <1>3 DEF BeginSearch
  <2>3. column_params_ = Configured
    BY <2>1, <2>2 DEF Orderly, Searching
  <2> QED  BY <1>0, <2>1, <2>2, <2>3 DEF Orderly, Searching
<1>4. CASE EndTrial(t)
  BY <1>a, <1>4, CounterTypes DEF EndTrial, Searching, JobType
<1>5. CASE EndSeries(t)
  BY <1>b, <1>5, CounterTypes DEF EndSeries, Searching, JobType
<1>6. CASE EndPoint(t)
  BY <1>b, <1>6, CounterTypes DEF EndPoint, Searching, JobType, columnVars
<1>7. CASE EndScan(t)
  <2>1. job'[t].kind = job[t].kind /\ column_params_' = column_params_ /\ job[t].kind # "search"
    BY <1>7, CounterTypes DEF EndScan, JobType
  <2> QED  BY <1>b, <2>1 DEF Searching
<1>8. CASE TryCandidate(t)
  <2>1. Searching(t) /\ Searching(t)' /\ job'[t].saved = job[t].saved
    BY <1>8, CounterTypes DEF TryCandidate, Searching, JobType, Phased
  <2> QED  BY <1>0, <2>1 DEF Orderly
<1>9. CASE ScoreCandidate(t)
  BY <1>a, <1>9, CounterTypes DEF ScoreCandidate, Searching, JobType, columnVars
<1>10. CASE RestoreParams(t)
  <2>1. Searching(t) /\ ~Searching(t)' /\ column_params_' = job[t].saved
    BY <1>10, CounterTypes DEF RestoreParams, Searching, JobType, Phased
  <2> QED  BY <1>0, <2>1 DEF Orderly
<1>11. CASE Leave(t)
  <2>1. job'[t].kind = "none" /\ job[t].phase = "done" /\ column_params_' = column_params_
    BY <1>11 DEF Leave, NoJob, columnVars
  <2> QED  BY <1>b, <2>1 DEF Searching
<1>12. CASE (Reset(t) \/ Step(t, \E u \in Threads \ {t} : Busy(u))) /\ UNCHANGED jobVars
  BY <1>a, <1>12 DEF Reset, Step, Searching
<1>13. CASE StartTrial(t)
  BY <1>a, <1>13 DEF StartTrial, Searching
<1> QED
  BY <1>1, <1>2, <1>3, <1>4, <1>5, <1>6, <1>7, <1>8, <1>9, <1>10, <1>11, <1>12, <1>13 DEF Steppings

(* While a thread has the column to itself, the steps are its own.         *)
LEMMA AloneMoves ==
    ASSUME JobTypeOK, PhaseInv, AloneInv, NEW t \in Threads, Steppings(t), NEW u \in Threads, alone'[u]
    PROVE  u = t
<1> SUFFICES ASSUME u # t PROVE FALSE
  OBVIOUS
<1> Phased(t)
  BY DEF PhaseInv
<1> USE DEF JobTypeOK, columnVars, jobVars
<1>0. alone[u] => Busy(u) /\ ~Busy(t)
  BY DEF AloneInv
<1>1. CASE BeginSeries(t) \/ (\E kind \in {"scan", "range"} : BeginScan(t, kind)) \/ BeginSearch(t)
  <2>1. alone'[u] = (alone[u] /\ ~Busy(u))
    BY <1>1 DEF BeginSeries, BeginScan, BeginSearch, Enter
  <2> QED  BY <1>0, <2>1
<1>a. ASSUME alone'[u] = alone[u], job[t].phase # "none" PROVE FALSE
  BY <1>0, <1>a DEF Phased, Busy
<1>2. CASE StartTrial(t) \/ EndTrial(t) \/ EndPoint(t) \/ EndScan(t)
  BY <1>a, <1>2 DEF StartTrial, EndTrial, EndPoint, EndScan
<1>3. CASE TryCandidate(t) \/ ScoreCandidate(t) \/ RestoreParams(t) \/ Leave(t)
  BY <1>a, <1>3 DEF TryCandidate, ScoreCandidate, RestoreParams, Leave
<1>4. CASE EndSeries(t)
  BY <1>a, <1>4 DEF EndSeries, Phased
<1>5. CASE (Reset(t) \/ Step(t, \E v \in Threads \ {t} : Busy(v))) /\ UNCHANGED jobVars
  <2>1. frame[t].at \in {"reset", "step"} /\ alone' = alone
    BY <1>5 DEF Reset, Step
  <2>2. frame[t] # NoFrame
    BY <2>1 DEF NoFrame
  <2> QED  BY <1>a, <2>1, <2>2 DEF Phased
<1> HIDE DEF JobTypeOK, columnVars, jobVars
<1> QED  BY <1>1, <1>2, <1>3, <1>4, <1>5 DEF Steppings

(* A step of a thread alone adds to what its last step left.               *)
LEMMA DrivenAlone ==
    ASSUME NEW t \in Threads, NEW params, NEW soil, NEW n \in Nat
    PROVE  Driven(IF n = 0 THEN Rest ELSE Motion(t, params, soil, n), t, params, soil)
              = Motion(t, params, soil, n + 1)
<1>1. CASE n = 0
  <2>1. Driven(Rest, t, params, soil) = Motion(t, params, soil, 1)
    BY Zenon DEF Driven
  <2> QED  BY <1>1, <2>1
<1>2. CASE n # 0
  <2> DEFINE m == Motion(t, params, soil, n)
  <2>1. m # Rest
    BY NoThreadAssumption DEF Motion, Rest
  <2>2. m.steps = n /\ [m EXCEPT !.steps = @ + 1] = Motion(t, params, soil, n + 1)
    BY DEF Motion
  <2> QED  BY <1>2, <2>1, <2>2 DEF Driven
<1> QED  BY <1>1, <1>2

LEMMA ExactStep ==
    ASSUME JobTypeOK, PhaseInv, AloneInv, SearchInv, LatchInv, ExactInv, NEW t \in Threads, Steppings(t)
    PROVE  ExactInv'
<1> SUFFICES ASSUME alone'[t], ~overlapped' PROVE Undisturbed(t)'
  BY AloneMoves DEF ExactInv
<1>0. ~overlapped
  BY OverlapKept
<1> Phased(t) /\ Orderly
  BY <1>0 DEF PhaseInv, SearchInv
<1> USE DEF JobTypeOK, columnVars, jobVars
<1>a. ASSUME Enter(t, job'[t]) PROVE column_params_ = Configured /\ frame[t] = NoFrame
  <2>1. \A u \in Threads : ~Busy(u)
    BY <1>a DEF Enter
  <2>2. \A u \in Threads : ~Searching(u)
    BY <2>1 DEF Searching, Busy
  <2> QED  BY <2>1, <2>2 DEF Orderly, Phased, Busy
<1>1. CASE BeginSeries(t)
  <2>1. /\ job'[t].kind = "series" /\ job'[t].report.params = Configured /\ column_params_' = column_params_
        /\ frame'[t].at = "reset" /\ Enter(t, job'[t])
    BY <1>1 DEF BeginSeries, Enter, NoJob, NoReport, Call, NoFrame
  <2> QED  BY <1>a, <2>1 DEF Undisturbed, Intended, Searching
<1>2. CASE \E kind \in {"scan", "range"} : BeginScan(t, kind)
  <2>1. /\ job'[t].kind # "search" /\ job'[t].report.params = Configured /\ column_params_' = column_params_
        /\ frame'[t] = frame[t] /\ Enter(t, job'[t])
    BY <1>2 DEF BeginScan, Enter, NoJob, NoReport
  <2> QED  BY <1>a, <2>1 DEF Undisturbed, Intended, Searching, NoFrame
<1>3. CASE BeginSearch(t)
  <2>1. /\ job'[t].phase = "choose" /\ job'[t].report.params = Configured
        /\ frame'[t] = frame[t] /\ Enter(t, job'[t])
    BY <1>3 DEF BeginSearch, Enter, NoJob, NoReport
  <2> QED  BY <1>a, <2>1 DEF Undisturbed, NoFrame
<1>b. ASSUME alone' = alone PROVE Undisturbed(t)
  BY <1>0, <1>b DEF ExactInv
<1>4. CASE StartTrial(t)
  <2>1. job' = job /\ column_params_' = column_params_ /\ frame'[t].at = "reset" /\ alone' = alone
    BY <1>4 DEF StartTrial, Call, NoFrame
  <2> QED  BY <1>b, <2>1 DEF Undisturbed, Intended, Searching
<1>5. CASE EndTrial(t)
  <2>1. /\ alone' = alone /\ job'[t].kind = job[t].kind /\ job'[t].phase = job[t].phase
        /\ job'[t].point = job[t].point /\ job'[t].report = job[t].report
        /\ column_params_' = column_params_ /\ frame'[t] = NoFrame
    BY <1>5, CounterTypes DEF EndTrial, Return, JobType
  <2> QED  BY <1>b, <2>1 DEF Undisturbed, Intended, Searching, NoFrame
<1>6. CASE EndSeries(t)
  <2>1. /\ alone' = alone /\ job[t].kind = "series" /\ job'[t].kind = "series" /\ job[t].phase # "choose"
        /\ job'[t].report = job[t].report /\ column_params_' = column_params_ /\ frame'[t] = NoFrame
    BY <1>6, CounterTypes DEF EndSeries, Return, JobType, Phased
  <2> QED  BY <1>b, <2>1 DEF Undisturbed, Intended, Searching, NoFrame
<1>7. CASE EndPoint(t)
  <2>1. /\ alone' = alone /\ job[t].kind # "search" /\ job'[t].kind = job[t].kind /\ job[t].phase = "points"
        /\ job'[t].report.params = column_params_ /\ column_params_' = column_params_ /\ frame'[t] = NoFrame
    BY <1>7, CounterTypes DEF EndPoint, JobType, Phased
  <2> QED  BY <1>b, <2>1 DEF Undisturbed, Intended, Searching, NoFrame
<1>8. CASE EndScan(t)
  <2>1. ~(job[t].point < Points)
    BY <1>8, JobAssumption DEF EndScan
  <2>2. /\ alone' = alone /\ job[t].kind # "search" /\ job'[t].kind = job[t].kind /\ job[t].phase = "points"
        /\ job'[t].report = job[t].report /\ column_params_' = column_params_ /\ frame'[t] = frame[t]
    BY <1>8, CounterTypes DEF EndScan, JobType
  <2>3. frame[t] = NoFrame
    BY <2>1, <2>2 DEF Phased
  <2> QED  BY <1>b, <2>2, <2>3 DEF Undisturbed, Intended, Searching, NoFrame
<1>9. CASE TryCandidate(t)
  <2>1. /\ alone' = alone /\ job'[t].kind = "search" /\ job'[t].phase = "points" /\ job'[t].point = job[t].point
        /\ job'[t].report = job[t].report /\ column_params_' = Candidate(t, job[t].point + 1)
        /\ frame'[t] = NoFrame
    BY <1>9, CounterTypes DEF TryCandidate, JobType, Phased
  <2> QED  BY <1>b, <2>1 DEF Undisturbed, Intended, Searching, NoFrame
<1>10. CASE ScoreCandidate(t)
  <2>1. alone' = alone /\ job'[t].phase = "choose" /\ job'[t].report = job[t].report /\ frame'[t] = NoFrame
    BY <1>10, CounterTypes DEF ScoreCandidate, JobType, Phased
  <2> QED  BY <1>b, <2>1 DEF Undisturbed, NoFrame
<1>11. CASE RestoreParams(t)
  <2>1. /\ alone' = alone /\ job'[t].phase = "done" /\ job'[t].report = job[t].report
        /\ column_params_' = job[t].saved /\ Searching(t) /\ frame'[t] = NoFrame
    BY <1>11, CounterTypes DEF RestoreParams, JobType, Phased, Searching
  <2> QED  BY <1>b, <2>1 DEF Undisturbed, Orderly, Intended, Searching, NoFrame
<1>12. CASE Reset(t) /\ UNCHANGED jobVars
  <2>1. /\ alone' = alone /\ job' = job /\ column_params_' = column_params_ /\ motion' = Rest
        /\ soil_type_' = frame[t].soil /\ frame'[t].soil = frame[t].soil /\ frame'[t].time = frame[t].time
    BY <1>12 DEF Reset, FrameType
  <2>2. frame[t].time = 0
    BY <1>12 DEF Reset, LatchInv, Latched
  <2> QED  BY <1>b, <2>1, <2>2 DEF Undisturbed, Intended, Searching
<1>13. CASE Step(t, \E u \in Threads \ {t} : Busy(u)) /\ UNCHANGED jobVars
  <2>1. ~\E u \in Threads \ {t} : Busy(u)
    BY <1>13 DEF AloneInv
  <2>2. motion' = Driven(motion, t, column_params_, soil_type_)
    BY <1>13, <2>1 DEF Step
  <2>3. /\ alone' = alone /\ job' = job /\ column_params_' = column_params_ /\ soil_type_' = soil_type_
        /\ frame'[t].soil = frame[t].soil /\ frame'[t].time = frame[t].time + 1
        /\ frame[t].at = "step" /\ frame[t].time \in Nat
    BY <1>13 DEF Step, FrameType
  <2>4. job[t].phase # "choose"
    BY <2>3 DEF Phased, NoFrame
  <2>5. /\ column_params_ = Intended(t) /\ soil_type_ = frame[t].soil /\ job[t].report.params = Configured
        /\ motion = IF frame[t].time = 0 THEN Rest ELSE Motion(t, Intended(t), frame[t].soil, frame[t].time)
    BY <1>b, <2>3, <2>4 DEF Undisturbed
  <2>6. motion' = Motion(t, Intended(t), frame[t].soil, frame[t].time + 1)
    BY <2>2, <2>3, <2>5, DrivenAlone
  <2>7. Intended(t)' = Intended(t) /\ frame[t].time + 1 # 0
    BY <2>3 DEF Intended, Searching
  <2> QED  BY <2>3, <2>5, <2>6, <2>7 DEF Undisturbed
<1>14. CASE Leave(t)
  BY <1>14 DEF Leave
<1> QED
  BY <1>1, <1>2, <1>3, <1>4, <1>5, <1>6, <1>7, <1>8, <1>9, <1>10, <1>11, <1>12, <1>13, <1>14 DEF Steppings

-----------------------------------------------------------------------------
(* What HttpServerProofs cites *)

LEMMA JobInvStep == ASSUME JobInv, JobNext \/ UNCHANGED jobsVars PROVE JobInv'
<1>1. CASE JobNext
  <2>1. PICK t \in Threads : Steppings(t)
    BY <1>1, StepOf
  <2> QED
    BY <2>1, JobTypeStep, PhaseStep, AloneStep, SearchStep, LatchStep, ExactStep DEF JobInv
<1>2. CASE UNCHANGED jobsVars
  BY <1>2 DEF jobsVars, columnVars, jobVars, JobInv, JobTypeOK, PhaseInv, Phased, AloneInv, SearchInv, Orderly,
              LatchInv, Latched, ExactInv, Undisturbed, Idle, Finished, Busy, Searching, Intended
<1> QED  BY <1>1, <1>2

LEMMA JobInvRestores == ASSUME JobInv PROVE ParamsRestored
BY DEF JobInv, SearchInv, Orderly, ParamsRestored

LEMMA JobInvIsExact == ASSUME JobInv PROVE AloneIsExact
<1> SUFFICES ASSUME NEW t \in Threads, alone[t], ~overlapped
             PROVE  /\ Finished(t) => Exact(t, Intended(t)) /\ ReportedAsLatched(t)
                    /\ job[t].report.params = Configured
  BY DEF AloneIsExact
<1>1. Undisturbed(t) /\ Latched(t) /\ Phased(t) /\ frame[t] \in FrameType
  BY DEF JobInv, JobTypeOK, ExactInv, LatchInv, PhaseInv
<1>2. ASSUME Finished(t) PROVE Exact(t, Intended(t))
  BY <1>1, <1>2, StepsAssumption DEF Undisturbed, Latched, Finished, Exact
<1>3. ASSUME Finished(t) PROVE ReportedAsLatched(t)
  <2>1. /\ frame[t].time = Steps /\ Steps \in Nat
        /\ frame[t].trigger_time \in Int /\ frame[t].trigger_time >= -1
        /\ frame[t].trigger_time < frame[t].time \/ frame[t].trigger_time = -1
    BY <1>1, <1>3, StepsAssumption DEF Latched, Finished, FrameType
  <2>2. /\ frame[t].above <=> frame[t].trigger_time # -1
        /\ frame[t].sample <=> frame[t].trigger_time > 0 \/ (frame[t].time = 1 /\ frame[t].above)
    BY <1>1, <2>1 DEF Latched
  <2> QED  BY <2>1, <2>2 DEF ReportedAsLatched, IsTriggered
<1> QED  BY <1>1, <1>2, <1>3 DEF Undisturbed

-----------------------------------------------------------------------------
(* The jobs of the handlers *)

(* A step of the server is a step of one job, or leaves them all alone.    *)
LEMMA ServerRunsJobs == [Next]_vars => JobNext \/ UNCHANGED jobsVars
<1> SUFFICES ASSUME [Next]_vars PROVE JobNext \/ UNCHANGED jobsVars
  OBVIOUS
<1> USE DEF jobsVars, columnVars, jobVars
<1>1. CASE Main
  BY <1>1 DEF Main, StartFails, Start, AddRoute, Stop, JoinAccept, Destroy, Exit
<1>2. CASE AcceptTop \/ Accept \/ \E t \in Threads : Connect(t) \/ Crash(t)
  BY <1>2 DEF AcceptTop, Accept, Connect, Crash
<1>3. ASSUME NEW t \in Threads, Handler(t) PROVE JobNext \/ UNCHANGED jobsVars
  <2>1. CASE ReadRequest(t) \/ RouteOptions(t) \/ RouteSimple(t) \/ RouteMissing(t) \/ HandlerThrows(t)
    BY <2>1 DEF ReadRequest, RouteOptions, RouteSimple, RouteMissing, HandlerThrows
  <2>2. CASE Send(t) \/ CountRequest(t)
    BY <2>2 DEF Send, CountRequest
  <2> HIDE DEF jobsVars, columnVars, jobVars
  <2>3. CASE RouteJob(t)
    BY <2>3, Zenon DEF RouteJob, JobNext
  <2>4. CASE Compute(t)
    BY <2>4, Zenon DEF Compute, JobNext
  <2>5. CASE Computed(t)
    BY <2>5, Zenon DEF Computed, JobNext
  <2> QED  BY <1>3, <2>1, <2>2, <2>3, <2>4, <2>5, Zenon DEF Handler
<1>4. CASE UNCHANGED vars
  BY <1>4 DEF vars
<1> HIDE DEF jobsVars, columnVars, jobVars
<1> QED  BY <1>1, <1>2, <1>3, <1>4, Zenon DEF Next

(* The invariant of the jobs is one of the server.                         *)
THEOREM JobInvariant == Spec => []JobInv
<1>1. Init => JobInv
  BY JobStart DEF Init
<1>2. JobInv /\ [Next]_vars => JobInv'
  BY JobInvStep, ServerRunsJobs
<1> QED  BY <1>1, <1>2, PTL DEF Spec

(* optimize_parameters puts back what it found: while no two searches have *)
(* overlapped, the parameters outside a search are the configuration's     *)
(* (sensitivity_analysis.cpp:406 and :444).                                *)
THEOREM ParamsRestoredTheorem == Spec => []ParamsRestored
<1>1. JobInv => ParamsRestored
  BY JobInvRestores
<1> QED  BY <1>1, JobInvariant, PTL

(* A job that has the column to itself computes what it was asked for,     *)
(* whatever ran before it (column_simulation.cpp:371-491,                  *)
(* sensitivity_analysis.cpp:155-181).                                      *)
THEOREM AloneIsExactTheorem == Spec => []AloneIsExact
<1>1. JobInv => AloneIsExact
  BY JobInvIsExact
<1> QED  BY <1>1, JobInvariant, PTL

-----------------------------------------------------------------------------
(* Starting and stopping *)

(* Where main is says how far the routes and the accept thread are.        *)
StartInv ==
    /\ main = "start" => accepting = "no" /\ routes_ = 0 /\ \A t \in Threads : pc[t] = "away"
    /\ main = "adding" => routes_ < Len(RouteTable)
    /\ process = "alive" /\ main \notin {"start", "adding"} => routes_ = Len(RouteTable)
    /\ main \in {"stopped", "destroyed"} => accepting = "ended"

ServerInv == TypeOK /\ StartInv

LEMMA TableLength == Len(RouteTable) = 8
BY DEF RouteTable

LEMMA ServerStart == Init => ServerInv
<1> SUFFICES ASSUME Init PROVE ServerInv
  OBVIOUS
<1>1. TypeOK
  <2>1. routes_ \in 0..Len(RouteTable) /\ stats_ \in [total : Nat, successful : Nat, failed : Nat]
    BY TableLength DEF Init
  <2>2. stats_.total = stats_.successful + stats_.failed
    BY DEF Init
  <2> QED  BY <2>1, <2>2 DEF Init, TypeOK
<1>2. StartInv
  BY TableLength DEF Init, StartInv
<1> QED  BY <1>1, <1>2 DEF ServerInv

(* An answer keeps the types.                                              *)
LEMMA AnswerTypes ==
    ASSUME TypeOK, NEW t \in Threads, NEW code \in {200, 204, 404, 500}, Answer(t, code)
    PROVE  /\ pc' \in [Threads -> Handled \cup {"away", "backlog", "reset", "thrown", "closed"}]
           /\ request' \in [Threads -> Requests \cup {NoRequest}]
           /\ status' \in [Threads -> {NoStatus, 200, 204, 404, 500}]
           /\ slow' \subseteq Threads
<1>1. "sending" \in Handled
  BY DEF Handled
<1> QED  BY <1>1 DEF TypeOK, Answer

LEMMA ServerTypeStep == ASSUME ServerInv, [Next]_vars PROVE TypeOK'
<1> TypeOK
  BY DEF ServerInv
<1> USE DEF Handled
<1>1. CASE Main
  <2>1. CASE AddRoute
    <3>1. routes_ \in Nat /\ routes_ < 8 /\ routes_' = routes_ + 1
      BY <2>1, TableLength DEF AddRoute, ServerInv, StartInv, TypeOK
    <3>2. routes_' \in 0..Len(RouteTable)
      BY <3>1, TableLength
    <3> QED  BY <2>1, <3>2 DEF AddRoute, TypeOK
  <2>2. CASE StartFails \/ Start \/ Stop
    <3>1. /\ UNCHANGED <<routes_, pc, request, status, stats_, slow>> /\ running_' \in BOOLEAN
          /\ accepting' \in {"top", accepting} /\ main' \in {"exited", "adding", "joining"}
          /\ process' \in {"exited", process}
      BY <2>2 DEF StartFails, Start, Stop, TypeOK
    <3> QED  BY <3>1 DEF TypeOK
  <2>3. CASE JoinAccept \/ Destroy \/ Exit
    <3>1. /\ UNCHANGED <<running_, accepting, routes_, pc, request, status, stats_, slow>>
          /\ main' \in {"stopped", "destroyed", "exited"} /\ process' \in {"exited", process}
      BY <2>3 DEF JoinAccept, Destroy, Exit, TypeOK
    <3> QED  BY <3>1 DEF TypeOK
  <2> QED  BY <1>1, <2>1, <2>2, <2>3 DEF Main
<1>2. CASE AcceptTop \/ Accept
  BY <1>2 DEF AcceptTop, Accept, TypeOK
<1>3. ASSUME NEW t \in Threads, Connect(t) \/ Crash(t) PROVE TypeOK'
  BY <1>3 DEF Connect, Crash, TypeOK
<1>4. ASSUME NEW t \in Threads, Handler(t) PROVE TypeOK'
  <2>1. CASE ReadRequest(t)
    <3>1. CASE Answer(t, 500) /\ UNCHANGED process
      BY <2>1, <3>1, AnswerTypes DEF ReadRequest, TypeOK
    <3>2. CASE Terminate(t) /\ UNCHANGED <<status, request, slow>>
      BY <2>1, <3>2 DEF ReadRequest, Terminate, TypeOK
    <3>3. CASE /\ \E what \in Requests : request' = [request EXCEPT ![t] = what]
               /\ pc' = [pc EXCEPT ![t] = "routing"]
               /\ slow' = slow \ {t}
               /\ UNCHANGED <<status, process>>
      BY <2>1, <3>3 DEF ReadRequest, TypeOK
    <3> QED  BY <2>1, <3>1, <3>2, <3>3 DEF ReadRequest
  <2>2. CASE RouteOptions(t) \/ RouteSimple(t) \/ RouteMissing(t) \/ Computed(t)
    <3>1. \E code \in {200, 204, 404, 500} : Answer(t, code)
      BY <2>2 DEF RouteOptions, RouteSimple, RouteMissing, Computed
    <3>2. UNCHANGED <<running_, accepting, routes_, main, process, stats_>>
      BY <2>2 DEF RouteOptions, RouteSimple, RouteMissing, Computed
    <3> QED  BY <3>1, <3>2, AnswerTypes DEF TypeOK
  <2>3. CASE RouteJob(t)
    BY <2>3 DEF RouteJob, TypeOK
  <2>4. CASE HandlerThrows(t)
    BY <2>4 DEF HandlerThrows, Terminate, TypeOK
  <2>5. CASE Compute(t)
    BY <2>5 DEF Compute, httpVars, TypeOK
  <2>6. CASE Send(t)
    BY <2>6 DEF Send, TypeOK
  <2>7. CASE CountRequest(t)
    <3>1. stats_'.total \in Nat /\ stats_'.total = stats_'.successful + stats_'.failed
      BY <2>7 DEF CountRequest, TypeOK
    <3>2. stats_' \in [total : Nat, successful : Nat, failed : Nat]
      BY <2>7 DEF CountRequest, TypeOK
    <3> QED  BY <2>7, <3>1, <3>2 DEF CountRequest, TypeOK
  <2> QED  BY <1>4, <2>1, <2>2, <2>3, <2>4, <2>5, <2>6, <2>7 DEF Handler
<1>5. CASE UNCHANGED vars
  BY <1>5 DEF vars, httpVars, TypeOK
<1> QED  BY <1>1, <1>2, <1>3, <1>4, <1>5 DEF Next

LEMMA StartStep == ASSUME ServerInv, [Next]_vars PROVE StartInv'
<1> TypeOK /\ StartInv
  BY DEF ServerInv
<1>1. CASE Main
  <2>1. CASE AddRoute
    <3>1. routes_ \in Nat /\ routes_ < 8 /\ routes_' = routes_ + 1
      BY <2>1, TableLength DEF AddRoute, StartInv, TypeOK
    <3> QED  BY <2>1, <3>1, TableLength DEF AddRoute, StartInv
  <2>2. CASE StartFails \/ Start \/ Stop
    BY <2>2, TableLength DEF StartFails, Start, Stop, StartInv
  <2>3. CASE JoinAccept \/ Destroy \/ Exit
    BY <2>3 DEF JoinAccept, Destroy, Exit, StartInv
  <2> QED  BY <1>1, <2>1, <2>2, <2>3 DEF Main
<1>2. CASE AcceptTop \/ Accept
  BY <1>2 DEF AcceptTop, Accept, StartInv
<1>3. ASSUME NEW t \in Threads, Connect(t) \/ Crash(t) PROVE StartInv'
  BY <1>3 DEF Connect, Crash, StartInv
<1>4. ASSUME NEW t \in Threads, Handler(t) PROVE StartInv'
  <2>1. pc[t] # "away" /\ UNCHANGED <<accepting, routes_, main>>
    BY <1>4 DEF Handler, ReadRequest, RouteOptions, RouteSimple, RouteJob, RouteMissing, HandlerThrows, Compute,
                Computed, Send, CountRequest, httpVars
  <2>2. process' = process \/ process' = "dead"
    BY <1>4 DEF Handler, ReadRequest, RouteOptions, RouteSimple, RouteJob, RouteMissing, HandlerThrows, Compute,
                Computed, Send, CountRequest, httpVars, Terminate
  <2> QED  BY <2>1, <2>2 DEF StartInv
<1>5. CASE UNCHANGED vars
  BY <1>5 DEF vars, httpVars, StartInv
<1> QED  BY <1>1, <1>2, <1>3, <1>4, <1>5 DEF Next

LEMMA ServerInvariant == Spec => []ServerInv
<1>1. ServerInv /\ [Next]_vars => ServerInv'
  BY ServerTypeStep, StartStep DEF ServerInv
<1> QED  BY <1>1, ServerStart, PTL DEF Spec

(* The server's types; every request that was counted succeeded or failed  *)
(* (http_server.cpp:198-208).                                              *)
THEOREM TypeCorrect == Spec => []TypeOK
<1>1. ServerInv => TypeOK
  BY DEF ServerInv
<1> QED  BY <1>1, ServerInvariant, PTL

(* stop joins the accept thread, so no connection becomes a handler after  *)
(* it (http_server.cpp:122-130 and :90).                                   *)
THEOREM NoHandlerAfterStopTheorem == Spec => NoHandlerAfterStop
<1> DEFINE A == \A t \in Threads : pc'[t] \in Handled /\ pc[t] \notin Handled => main \notin {"stopped", "destroyed"}
<1>1. ASSUME ServerInv, [Next]_vars PROVE A
  <2> SUFFICES ASSUME NEW t \in Threads, pc'[t] \in Handled, pc[t] \notin Handled, main \in {"stopped", "destroyed"}
               PROVE  FALSE
    OBVIOUS
  <2> TypeOK /\ accepting = "ended"
    BY <1>1 DEF ServerInv, StartInv
  <2>1. CASE Main
    BY <2>1 DEF Main, StartFails, Start, AddRoute, Stop, JoinAccept, Destroy, Exit
  <2>2. CASE AcceptTop \/ Accept
    BY <2>2 DEF AcceptTop, Accept
  <2>3. ASSUME NEW u \in Threads, Connect(u) \/ Crash(u) PROVE FALSE
    BY <2>3 DEF Connect, Crash
  <2>4. ASSUME NEW u \in Threads, Handler(u) PROVE FALSE
    <3>1. pc[u] \in Handled
      BY <2>4 DEF Handler, ReadRequest, RouteOptions, RouteSimple, RouteJob, RouteMissing, HandlerThrows, Compute,
                  Computed, Send, CountRequest, Handled
    <3>2. u # t
      BY <3>1
    <3>3. pc'[t] = pc[t]
      BY <2>4, <3>2 DEF Handler, ReadRequest, RouteOptions, RouteSimple, RouteJob, RouteMissing, HandlerThrows,
             Compute, Computed, Send, CountRequest, Answer, Terminate, httpVars, TypeOK
    <3> QED  BY <3>3
  <2>5. CASE UNCHANGED vars
    BY <2>5 DEF vars, httpVars
  <2> QED  BY <1>1, <2>1, <2>2, <2>3, <2>4, <2>5 DEF Next
<1>2. ServerInv /\ [Next]_vars => [A]_vars
  BY <1>1
<1> QED  BY <1>2, ServerInvariant, PTL DEF Spec, NoHandlerAfterStop

(* Once start has returned, a request for a route of the table finds it.   *)
LEMMA AllRoutesFound ==
    ASSUME ServerInv, process = "alive", main \notin {"start", "adding"}, NEW t \in Threads, request[t] \in Routed
    PROVE  Found(t)
<1>1. routes_ = Len(RouteTable)
  BY DEF ServerInv, StartInv
<1>2. PICK i \in 1..8 : RouteTable[i] = request[t]
  BY DEF Routed, RouteTable
<1> QED  BY <1>1, <1>2, TableLength DEF Found, Added

(* Only a handler that looked while start was adding the routes answers    *)
(* 404 to a request for one of them (http_server.cpp:79-117 and :263-278). *)
THEOREM RefusedOnlyAtStartTheorem == Spec => RefusedOnlyAtStart
<1> DEFINE A == \A t \in Threads :
               (pc[t] = "routing" /\ pc'[t] = "sending" /\ request[t] \in Routed /\ status'[t] = 404)
                   => main = "adding"
<1>1. ASSUME ServerInv, [Next]_vars PROVE A
  <2> SUFFICES ASSUME NEW t \in Threads, pc[t] = "routing", pc'[t] = "sending", request[t] \in Routed,
                      status'[t] = 404
               PROVE  main = "adding"
    OBVIOUS
  <2> TypeOK /\ main # "start"
    BY <1>1 DEF ServerInv, StartInv
  <2>1. CASE Main
    BY <2>1 DEF Main, StartFails, Start, AddRoute, Stop, JoinAccept, Destroy, Exit
  <2>2. CASE AcceptTop \/ Accept
    BY <2>2 DEF AcceptTop, Accept, TypeOK
  <2>3. ASSUME NEW u \in Threads, Connect(u) \/ Crash(u) PROVE main = "adding"
    BY <2>3 DEF Connect, Crash, TypeOK
  <2>4. ASSUME NEW u \in Threads, Handler(u) PROVE main = "adding"
    <3>1. CASE u # t
      <4>1. pc'[t] = pc[t]
        BY <2>4, <3>1 DEF Handler, ReadRequest, RouteOptions, RouteSimple, RouteJob, RouteMissing, HandlerThrows,
               Compute, Computed, Send, CountRequest, Answer, Terminate, httpVars, TypeOK
      <4> QED  BY <4>1
    <3>2. CASE u = t
      <4>1. CASE RouteOptions(t) \/ RouteSimple(t)
        BY <4>1 DEF RouteOptions, RouteSimple, Answer, TypeOK
      <4>2. CASE RouteMissing(t)
        <5>1. process = "alive" /\ (~Found(t) \/ Growing)
          BY <1>1, <2>4, <3>2, <4>2 DEF RouteMissing, Next, Crash, vars, httpVars, Answer, TypeOK
        <5> QED  BY <1>1, <5>1, AllRoutesFound DEF Growing
      <4>3. CASE ReadRequest(t) \/ RouteJob(t) \/ HandlerThrows(t) \/ Compute(t) \/ Computed(t) \/ Send(t)
                 \/ CountRequest(t)
        BY <4>3 DEF ReadRequest, RouteJob, HandlerThrows, Compute, Computed, Send, CountRequest, Terminate,
                    httpVars, TypeOK
      <4> QED  BY <2>4, <3>2, <4>1, <4>2, <4>3 DEF Handler
    <3> QED  BY <3>1, <3>2
  <2>5. CASE UNCHANGED vars
    BY <2>5 DEF vars, httpVars
  <2> QED  BY <1>1, <2>1, <2>2, <2>3, <2>4, <2>5 DEF Next
<1>2. ServerInv /\ [Next]_vars => [A]_vars
  BY <1>1
<1> QED  BY <1>2, ServerInvariant, PTL DEF Spec, RefusedOnlyAtStart

=============================================================================

---------------------------- MODULE MCAlgorithms ----------------------------
(* ClosureWorklist and StoredTime for TLC, in one run.  They share no        *)
(* variable: a behaviour is one of theirs, and the other part stays idle.    *)
EXTENDS ClosureWorklist, StoredTime

VARIABLE part
allVars == <<part, vars, scheduleVars>>

ClosureIdle ==
    /\ produced = {} /\ read = {} /\ relates = {} /\ legacy = {}
    /\ seed = [records |-> {}, jobs |-> {}]
    /\ records = {} /\ jobs = {} /\ newRecords = {} /\ newJobs = {}
    /\ stage = "done"

ScheduleIdle ==
    /\ clock = 0 /\ migrated = FALSE
    /\ row = [j \in ScheduledJobs |-> Absent] /\ instant = [j \in ScheduledJobs |-> Never]
    /\ leased = [job |-> {}, due |-> {}]

EitherInit ==
    \/ part = "closure" /\ Init /\ ScheduleIdle
    \/ part = "schedule" /\ ScheduleInit /\ ClosureIdle

ClosureStep == part = "closure" /\ Next /\ UNCHANGED <<part, scheduleVars>>
ScheduleStep == part = "schedule" /\ ScheduleNext /\ UNCHANGED <<part, vars>>

EitherSpec == EitherInit /\ [][ClosureStep \/ ScheduleStep]_allVars /\ WF_allVars(ClosureStep)
=============================================================================

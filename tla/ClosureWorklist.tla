--------------------------- MODULE ClosureWorklist ---------------------------
(***************************************************************************)
(* forgettingClosure of governance_cleanup.go as the worklist algorithm it *)
(* is: seeds, passes of expandForgettingClosure until one adds nothing,    *)
(* the widening to legacy Records, and passes again.  The rows it queries  *)
(* do not change meanwhile (one transaction), and are arbitrary: three     *)
(* relations between the Records and jobs of a partition, and the seeds    *)
(* that the forgotten receipt gives.                                       *)
(***************************************************************************)
CONSTANTS Records, Jobs

VARIABLES
    produced,      \* <<job, record>>: semantic_revisions.job_id
    read,          \* <<job, record>>: steward_read_set
    relates,       \* <<record, record>>: fact_json.related_record_id
    legacy,        \* Records in governance_legacy_revisions
    seed,          \* Records and jobs attributed to the receipt directly
    records, jobs,       \* the closure so far
    newRecords, newJobs, \* the worklists of the next pass
    stage

rows == <<produced, read, relates, legacy, seed>>
work == <<records, jobs, newRecords, newJobs, stage>>
vars == <<rows, work>>

(* The closure stays within the partition; what is on a worklist is in it.  *)
TypeOK ==
    /\ produced \in SUBSET (Jobs \X Records) /\ read \in SUBSET (Jobs \X Records)
    /\ relates \in SUBSET (Records \X Records) /\ legacy \in SUBSET Records
    /\ seed \in [records : SUBSET Records, jobs : SUBSET Jobs]
    /\ records \in SUBSET Records /\ jobs \in SUBSET Jobs
    /\ newRecords \in SUBSET records /\ newJobs \in SUBSET jobs
    /\ stage \in {"expand", "widened", "done"}

ProducedBy(J) == {x \in Records : \E j \in J : <<j, x>> \in produced}
ReadersOf(X) == {j \in Jobs : \E x \in X : <<j, x>> \in read}
ReferrersOf(X) == {y \in Records : \E x \in X : <<y, x>> \in relates}

Init ==
    /\ produced \in SUBSET (Jobs \X Records)
    /\ read \in SUBSET (Jobs \X Records)
    /\ relates \in SUBSET (Records \X Records)
    /\ legacy \in SUBSET Records
    /\ seed \in [records : SUBSET Records, jobs : SUBSET Jobs]
    /\ records = seed.records /\ newRecords = seed.records
    /\ jobs = seed.jobs /\ newJobs = seed.jobs
    /\ stage = "expand"

(* Mutants: related facts are not followed; attributed Records come back.   *)
PassReadsOnly ==
    /\ stage # "done" /\ (newRecords # {} \/ newJobs # {})
    /\ newRecords' = ProducedBy(newJobs) \ records
    /\ newJobs' = ReadersOf(newRecords) \ jobs
    /\ records' = records \union newRecords'
    /\ jobs' = jobs \union newJobs'
    /\ UNCHANGED <<rows, stage>>
PassRepeats ==
    /\ stage # "done" /\ (newRecords # {} \/ newJobs # {})
    /\ newRecords' = ProducedBy(newJobs) \union ReferrersOf(newRecords)
    /\ newJobs' = ReadersOf(newRecords) \ jobs
    /\ records' = records \union newRecords'
    /\ jobs' = jobs \union newJobs'
    /\ UNCHANGED <<rows, stage>>

(* One pass: only what is not yet attributed goes on the next worklists. *)
Pass ==
    /\ stage # "done" /\ (newRecords # {} \/ newJobs # {})
    /\ newRecords' = (ProducedBy(newJobs) \union ReferrersOf(newRecords)) \ records
    /\ newJobs' = ReadersOf(newRecords) \ jobs
    /\ records' = records \union newRecords'
    /\ jobs' = jobs \union newJobs'
    /\ UNCHANGED <<rows, stage>>

(* Mutant: an empty closure is widened too. *)
WidenAlways ==
    /\ stage = "expand" /\ newRecords = {} /\ newJobs = {}
    /\ newRecords' = legacy \ records
    /\ records' = records \union newRecords'
    /\ stage' = "widened"
    /\ UNCHANGED <<rows, jobs, newJobs>>

(* widenUnattributedClosure: nothing is widened from an empty closure. *)
Widen ==
    /\ stage = "expand" /\ newRecords = {} /\ newJobs = {}
    /\ newRecords' = IF records = {} THEN {} ELSE legacy \ records
    /\ records' = records \union newRecords'
    /\ stage' = "widened"
    /\ UNCHANGED <<rows, jobs, newJobs>>

Return ==
    /\ stage = "widened" /\ newRecords = {} /\ newJobs = {}
    /\ stage' = "done"
    /\ UNCHANGED <<rows, records, jobs, newRecords, newJobs>>

Next == Pass \/ Widen \/ Return

Spec == Init /\ [][Next]_vars
FairSpec == Spec /\ WF_vars(Next)

-----------------------------------------------------------------------------
(* X and J hold the receipt's seeds and everything derived from themselves. *)
Closed(X, J) ==
    /\ seed.records \subseteq X /\ seed.jobs \subseteq J
    /\ ProducedBy(J) \subseteq X /\ ReferrersOf(X) \subseteq X /\ ReadersOf(X) \subseteq J

(* The legacy Records too, once anything is attributed. *)
Wide(X) == X # {} => legacy \subseteq X

(* What forgettingClosure returns is closed under every dependency edge:    *)
(* no Record derived from the receipt escapes the barrier, although each    *)
(* pass looks only at what the pass before it added.                        *)
NothingEscapes == stage = "done" => Closed(records, jobs) /\ Wide(records)

(* It is also the least such pair: at no time is a Record or a job          *)
(* attributed that every sound answer could leave alone, so deletion        *)
(* erases no unrelated memory.                                              *)
NothingExtra ==
    \A X \in SUBSET Records, J \in SUBSET Jobs :
        Closed(X, J) /\ Wide(X) => records \subseteq X /\ jobs \subseteq J

(* The loop has no iteration cap and needs none: it returns.                *)
Returns == <>(stage = "done")
=============================================================================

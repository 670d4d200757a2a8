-------------------------- MODULE StewardJobsProofs --------------------------
(***************************************************************************)
(* Proofs, for any receipts, workers, proposals, retry ceiling and lease   *)
(* length, that the Steward queue keeps its safety invariants.             *)
(***************************************************************************)
EXTENDS StewardJobs, TLAPS

(* What each receipt's rows satisfy together.  A lease token is the number  *)
(* of the attempt it was issued for, and it is kept by a completed job.     *)
RowOK(r) ==
    /\ receipt[r] = "absent" => job[r].state = "none" /\ processing[r] = "none"
    /\ receipt[r] = "deleted" => ~Open(job[r]) /\ processing[r] = "none"
    /\ receipt[r] \in {"live", "corrected"} =>
          /\ job[r].state = "none" => processing[r] = "accepted"
          /\ job[r].state = "pending" => processing[r] = "accepted"
          /\ job[r].state = "leased" => processing[r] = "processing"
          /\ job[r].state = "completed" => processing[r] = "organized"
          /\ job[r].state = "failed" => processing[r] = "failed"
    /\ job[r].state = "pending" => job[r].attempts < MaxAttempts
    /\ job[r].state \in {"leased", "completed"} =>
          job[r].token = job[r].attempts /\ job[r].attempts >= 1
    /\ job[r].state = "completed" =>
          /\ job[r].digest \in Proposals
          /\ [r |-> r, tok |-> job[r].attempts, p |-> job[r].digest] \in effects
    /\ r \in cleanup => receipt[r] = "deleted"

(* A lease <<r, tok>> that was issued once. *)
IssuedLease(r, tok) ==
    /\ r \in Receipts /\ tok \in 1..MaxAttempts
    /\ receipt[r] # "absent"
    /\ job[r].state # "none" => tok <= job[r].attempts

WorkerOK(w) ==
    /\ worker[w].phase # "idle" => IssuedLease(worker[w].r, worker[w].tok)
    /\ worker[w].phase = "applying" => worker[w].p \in Proposals

(* Attempts that ReportStewardFailure read lie between the lease's own      *)
(* attempt and the present one.                                             *)
MessageOK(m) ==
    /\ IssuedLease(m.r, m.tok)
    /\ m.op = "apply" => m.p \in Proposals
    /\ m.op = "failtx" /\ job[m.r].state # "none" =>
          m.tok <= m.seen /\ m.seen <= job[m.r].attempts

(* An applied proposal belongs to a completed job, or to a job that was     *)
(* removed with its receipt.                                                *)
EffectOK(e) ==
    \/ /\ job[e.r].state = "completed"
       /\ job[e.r].attempts = e.tok /\ job[e.r].digest = e.p
    \/ job[e.r].state = "none" /\ receipt[e.r] = "deleted"

(* What was applied once left its effect. *)
CountsOK == \A r \in Receipts :
    /\ applications[r] \in {0, 1}
    /\ applications[r] = 1 => \E e \in effects : e.r = r

IInv ==
    /\ TypeOK
    /\ \A r \in Receipts : RowOK(r)
    /\ \A w \in Workers : WorkerOK(w)
    /\ \A m \in net : MessageOK(m)
    /\ \A e \in effects : EffectOK(e)
    /\ CountsOK
    /\ AckedIsApplied

(* What no step does to a receipt's rows: bring back a receipt or a job,    *)
(* lower its attempts, or reopen a completed job.                           *)
Forward(r) ==
    /\ receipt[r] # "absent" => receipt'[r] # "absent"
    /\ receipt[r] = "deleted" => receipt'[r] = "deleted"
    /\ receipt[r] # "absent" /\ job'[r].state # "none" =>
          job[r].state # "none" /\ job[r].attempts <= job'[r].attempts
    /\ job[r].state = "completed" =>
          \/ /\ job'[r].state = "completed"
             /\ job'[r].attempts = job[r].attempts /\ job'[r].digest = job[r].digest
          \/ job'[r].state = "none" /\ receipt'[r] = "deleted"

LEMMA RowTypes ==
    /\ NoJob \in JobRow /\ NewJob \in JobRow
    /\ \A j \in JobRow : Failed(j) \in JobRow /\ Later(j) \in JobRow
    /\ \A j \in JobRow, n \in Nat : Requeued(j, n) \in JobRow
    /\ \A j \in JobRow, p \in Proposals : Completed(j, p) \in JobRow
    /\ \A j \in JobRow : j.attempts < MaxAttempts => Leased(j) \in JobRow
  BY BoundsAssumption DEF JobRow, NoJob, NewJob, Failed, Requeued, Later, Countdown,
     Completed, Leased, JobStates

LEMMA RowFields ==
    /\ NoJob.state = "none" /\ NewJob.state = "pending" /\ NewJob.attempts = 0
    /\ Idle.phase = "idle"
    /\ \A j : /\ Failed(j).state = "failed" /\ Failed(j).attempts = j.attempts
             /\ Failed(j).digest = j.digest
    /\ \A j, n : Requeued(j, n).state = "pending" /\ Requeued(j, n).attempts = j.attempts
    /\ \A j : Later(j).state = j.state /\ Later(j).attempts = j.attempts
             /\ Later(j).token = j.token /\ Later(j).digest = j.digest
    /\ \A j, p : /\ Completed(j, p).state = "completed" /\ Completed(j, p).token = j.token
                /\ Completed(j, p).attempts = j.attempts /\ Completed(j, p).digest = p
    /\ \A j : /\ Leased(j).state = "leased" /\ Leased(j).attempts = j.attempts + 1
             /\ Leased(j).token = j.attempts + 1
  BY DEF NoJob, NewJob, Idle, Failed, Requeued, Later, Completed, Leased

(* The same, one row at a time. *)
LEMMA NewFields == NewJob.state = "pending" /\ NewJob.attempts = 0
  BY Zenon DEF NewJob

LEMMA FailedFields == ASSUME NEW j
    PROVE  /\ Failed(j).state = "failed" /\ Failed(j).attempts = j.attempts
           /\ Failed(j).digest = j.digest
  BY Zenon DEF Failed

LEMMA RequeuedFields == ASSUME NEW j, NEW n
    PROVE  Requeued(j, n).state = "pending" /\ Requeued(j, n).attempts = j.attempts
  BY Zenon DEF Requeued

LEMMA CompletedFields == ASSUME NEW j, NEW p
    PROVE  /\ Completed(j, p).state = "completed" /\ Completed(j, p).token = j.token
           /\ Completed(j, p).attempts = j.attempts /\ Completed(j, p).digest = p
  BY Zenon DEF Completed

LEMMA LeasedFields == ASSUME NEW j
    PROVE  /\ Leased(j).state = "leased" /\ Leased(j).attempts = j.attempts + 1
           /\ Leased(j).token = j.attempts + 1
  BY Zenon DEF Leased

LEMMA RowsOf ==
    ASSUME IInv, NEW x \in Receipts
    PROVE  /\ RowOK(x) /\ job[x] \in JobRow /\ job[x].attempts \in 0..MaxAttempts
           /\ receipt[x] \in {"absent", "live", "corrected", "deleted"}
  BY DEF IInv, TypeOK, JobRow

LEMMA RetryDelayType == \A n \in Nat : StewardRetryDelay(n) \in Nat
<1> SUFFICES ASSUME NEW n \in Nat PROVE StewardRetryDelay(n) \in Nat
  OBVIOUS
<1> DEFINE shift == IF n < 1 THEN 0 ELSE IF n > 12 THEN 11 ELSE n - 1
<1>1. shift + 1 \in 1..12
  OBVIOUS
<1>2. \A i \in 1..12 : <<1, 2, 4, 8, 16, 32, 64, 128, 256, 512, 1024, 2048>>[i] \in Nat
  OBVIOUS
<1> QED BY <1>1, <1>2 DEF StewardRetryDelay

(* Rows that stay and rows that move on are rows that move forward. *)
LEMMA StayForward ==
    ASSUME IInv, NEW x \in Receipts, job'[x] = job[x], receipt'[x] = receipt[x]
    PROVE  Forward(x)
<1>1. job[x].attempts \in Nat
  BY RowsOf, BoundsAssumption
<1> QED BY <1>1 DEF Forward

LEMMA MoveForward ==
    ASSUME IInv, NEW x \in Receipts, job[x].state \in {"pending", "leased"},
           receipt'[x] = receipt[x], job'[x].attempts = job[x].attempts
    PROVE  Forward(x)
<1>1. job[x].attempts \in Nat
  BY RowsOf, BoundsAssumption
<1> QED BY <1>1 DEF Forward

(* Leases, messages and effects on record stay good when rows only move     *)
(* forward.                                                                 *)
LEMMA ForwardKeeps ==
    ASSUME IInv, TypeOK', \A r \in Receipts : Forward(r)
    PROVE  /\ \A r \in Receipts, tok \in 1..MaxAttempts :
                 IssuedLease(r, tok) => IssuedLease(r, tok)'
           /\ \A m \in net : MessageOK(m)'
           /\ \A e \in effects : EffectOK(e)'
<1>1. \A r \in Receipts, tok \in 1..MaxAttempts :
         IssuedLease(r, tok) => IssuedLease(r, tok)'
  BY DEF IInv, TypeOK, JobRow, Forward, IssuedLease
<1>2. ASSUME NEW m \in net PROVE MessageOK(m)'
  <2>1. m \in Message /\ MessageOK(m)
    BY DEF IInv, TypeOK
  <2>2. IssuedLease(m.r, m.tok)'
    BY <1>1, <2>1 DEF MessageOK, Message
  <2> QED BY <2>1, <2>2 DEF MessageOK, Forward, Message, IInv, TypeOK, JobRow, IssuedLease
<1>3. ASSUME NEW e \in effects PROVE EffectOK(e)'
  <2>1. e \in Effect /\ EffectOK(e)
    BY DEF IInv, TypeOK
  <2> QED BY <2>1 DEF EffectOK, Forward, Effect
<1> QED BY <1>1, <1>2, <1>3

(* It suffices to look at the workers, messages and effects a step changes. *)
LEMMA StepKeeps ==
    ASSUME IInv, TypeOK', \A r \in Receipts : RowOK(r)' /\ Forward(r),
           \A w \in Workers : worker'[w] = worker[w] \/ WorkerOK(w)',
           \A m \in net' : m \in net \/ MessageOK(m)',
           \A e \in effects' : e \in effects \/ EffectOK(e)',
           CountsOK', AckedIsApplied'
    PROVE  IInv'
<1>1. \A w \in Workers : WorkerOK(w)'
  <2> SUFFICES ASSUME NEW w \in Workers, worker'[w] = worker[w] PROVE WorkerOK(w)'
    OBVIOUS
  <2>1. WorkerOK(w)
    BY DEF IInv
  <2>2. worker[w].phase # "idle" => IssuedLease(worker[w].r, worker[w].tok)'
    BY <2>1, ForwardKeeps DEF WorkerOK, IssuedLease
  <2> QED BY <2>1, <2>2 DEF WorkerOK, IssuedLease
<1>2. (\A m \in net : MessageOK(m))' /\ (\A e \in effects : EffectOK(e))'
  BY ForwardKeeps
<1> QED BY <1>1, <1>2 DEF IInv

(* Steps of the owner, of time and of a claim that leases nothing. *)
LEMMA RowStepKeeps ==
    ASSUME IInv, TypeOK', \A r \in Receipts : RowOK(r)' /\ Forward(r),
           UNCHANGED <<worker, net, applications, effects, acked>>
    PROVE  IInv'
<1>1. CountsOK' /\ AckedIsApplied'
  BY DEF IInv, CountsOK, AckedIsApplied
<1> QED BY <1>1, StepKeeps

(* Steps that leave the stored rows alone. *)
LEMMA SameRows ==
    ASSUME IInv, UNCHANGED <<receipt, job, processing, cleanup, applications, effects>>
    PROVE  \A r \in Receipts : RowOK(r)' /\ Forward(r)
  BY DEF IInv, TypeOK, JobRow, RowOK, Forward, Open

LEMMA CancelKeeps ==
    ASSUME IInv, NEW C \in SUBSET Receipts
    PROVE  /\ CancelJobs(C) \in [Receipts -> JobRow]
           /\ CancelProcessing(C) \in [Receipts -> ProcessingStates]
  BY RowTypes DEF IInv, TypeOK, CancelJobs, CancelProcessing, ProcessingStates

LEMMA RememberKeeps == ASSUME IInv, NEW r \in Receipts, Remember(r) PROVE IInv'
<1>1. TypeOK'
  BY RowTypes DEF IInv, TypeOK, Remember, Enqueue, ProcessingStates
<1>2. ASSUME NEW x \in Receipts PROVE RowOK(x)' /\ Forward(x)
  <2>1. job'[x] = job[x] \/ (x = r /\ job'[x] = NewJob)
    BY DEF IInv, TypeOK, Remember, Enqueue
  <2>2. /\ receipt'[x] = IF x = r THEN "live" ELSE receipt[x]
        /\ processing'[x] = IF x = r THEN "accepted" ELSE processing[x]
        /\ receipt[r] = "absent" /\ cleanup' = cleanup /\ effects' = effects
    BY DEF IInv, TypeOK, Remember
  <2>3. RowOK(x) /\ job[x].attempts \in 0..MaxAttempts
    BY RowsOf
  <2>4. RowOK(x)'
    <3>1. x = r => x \notin cleanup
      BY <2>2, <2>3 DEF RowOK
    <3>2. CASE x = r
      BY <2>1, <2>2, <2>3, <3>1, <3>2, BoundsAssumption, RowFields DEF RowOK, Open
    <3>3. CASE x # r
      BY <2>1, <2>2, <2>3, <3>3 DEF RowOK, Open
    <3> QED BY <3>2, <3>3
  <2>5. Forward(x)
    <3>1. CASE x = r
      BY <2>1, <2>2, <2>3, <3>1 DEF RowOK, Forward
    <3>2. CASE x # r
      BY <2>1, <2>2, <3>2, StayForward, Zenon
    <3> QED BY <3>1, <3>2
  <2> QED BY <2>4, <2>5
<1> QED BY <1>1, <1>2, RowStepKeeps DEF Remember

LEMMA BindKeeps == ASSUME IInv, BindStewardProfile PROVE IInv'
<1>1. TypeOK'
  BY DEF IInv, TypeOK, BindStewardProfile
<1>2. \A x \in Receipts : RowOK(x)' /\ Forward(x)
  BY DEF IInv, TypeOK, BindStewardProfile, JobRow, RowOK, Forward, Open
<1> QED BY <1>1, <1>2, RowStepKeeps DEF BindStewardProfile

LEMMA DisableKeeps == ASSUME IInv, DisableSteward PROVE IInv'
<1>1. TypeOK'
  BY CancelKeeps, Zenon DEF IInv, TypeOK, DisableSteward
<1>2. \A x \in Receipts : RowOK(x)' /\ Forward(x)
  BY DEF IInv, TypeOK, DisableSteward, CancelJobs, CancelProcessing, Failed, JobRow, RowOK, Forward, Open
<1> QED BY <1>1, <1>2, RowStepKeeps DEF DisableSteward

LEMMA CorrectKeeps ==
    ASSUME IInv, NEW r \in Receipts, NEW s \in Receipts, NEW C \in SUBSET Receipts,
           CorrectReceipt(r, s, C)
    PROVE  IInv'
<1>1. C \union {r} \in SUBSET Receipts
  OBVIOUS
<1>2. TypeOK'
  BY <1>1, CancelKeeps, RowTypes
     DEF IInv, TypeOK, CorrectReceipt, Enqueue, ProcessingStates
<1>3. ASSUME NEW x \in Receipts PROVE RowOK(x)' /\ Forward(x)
  <2>1. \/ x = s /\ job'[x] = NewJob
        \/ job'[x] = IF x \in C \union {r} /\ Open(job[x]) THEN Failed(job[x]) ELSE job[x]
    BY DEF CorrectReceipt, Enqueue, CancelJobs
  <2>2. /\ receipt'[x] = IF x = s THEN "live" ELSE IF x = r THEN "corrected" ELSE receipt[x]
        /\ processing'[x] = IF x = s THEN "accepted" ELSE CancelProcessing(C \union {r})[x]
        /\ receipt[r] = "live" /\ receipt[s] = "absent"
        /\ cleanup' = cleanup /\ effects' = effects
    BY DEF IInv, TypeOK, CorrectReceipt, CancelProcessing
  <2>3. RowOK(x) /\ job[x].attempts \in 0..MaxAttempts
    BY RowsOf
  <2>4. RowOK(x)'
    <3>1. x = s => x \notin cleanup
      BY <2>2, <2>3 DEF RowOK
    <3>2. CASE x = s
      <4>1. /\ receipt'[x] = "live" /\ processing'[x] = "accepted"
            /\ x \notin cleanup'
        BY <2>2, <3>1, <3>2
      <4>2. job[x].state = "none"
        BY <2>2, <2>3, <3>2 DEF RowOK
      <4>3. \/ job'[x].state = "none"
            \/ job'[x].state = "pending" /\ job'[x].attempts = 0
        BY <2>1, <4>2, NewFields, Zenon DEF Open
      <4> QED BY <4>1, <4>3, BoundsAssumption DEF RowOK, Open
    <3>3. CASE x # s
      BY <2>1, <2>2, <2>3, <3>3, RowFields, ZenonT(40) DEF CancelProcessing, RowOK, Open
    <3> QED BY <3>2, <3>3
  <2>5. Forward(x)
    <3>1. CASE receipt[x] = "absent"
      BY <2>2, <2>3, <3>1 DEF RowOK, Forward
    <3>2. CASE receipt[x] # "absent"
      <4>1. job'[x].attempts = job[x].attempts /\ (job'[x] = job[x] \/ Open(job[x]))
        BY <2>1, <2>2, <3>2, FailedFields, Zenon
      <4>2. receipt[x] # "deleted" \/ receipt'[x] = "deleted"
        BY <2>2, <3>2
      <4>3. receipt'[x] # "absent"
        BY <2>2, <3>2
      <4> QED BY <2>3, <3>2, <4>1, <4>2, <4>3 DEF Forward, Open
    <3> QED BY <3>1, <3>2
  <2> QED BY <2>4, <2>5
<1> QED BY <1>2, <1>3, RowStepKeeps DEF CorrectReceipt

LEMMA DeleteKeeps ==
    ASSUME IInv, NEW r \in Receipts, NEW C \in SUBSET Receipts, DeleteReceipt(r, C)
    PROVE  IInv'
<1>1. C \union {r} \in SUBSET Receipts
  OBVIOUS
<1>2. TypeOK'
  BY <1>1, CancelKeeps DEF IInv, TypeOK, DeleteReceipt, ProcessingStates
<1>3. \A x \in Receipts : RowOK(x)' /\ Forward(x)
  BY DEF IInv, TypeOK, DeleteReceipt, CancelJobs, CancelProcessing, Failed,
     JobRow, RowOK, Forward, Open
<1> QED BY <1>2, <1>3, RowStepKeeps DEF DeleteReceipt

LEMMA CleanupKeeps ==
    ASSUME IInv, NEW r \in Receipts, NEW anchored \in BOOLEAN,
           NEW C \in SUBSET Receipts, CleanupBarrier(r, anchored, C)
    PROVE  IInv'
<1>1. TypeOK'
  BY CancelKeeps, RowTypes DEF IInv, TypeOK, CleanupBarrier
<1>2. ASSUME NEW x \in Receipts PROVE RowOK(x)' /\ Forward(x)
  <2>1. \/ x = r /\ job'[x] = NoJob
        \/ job'[x] = IF x \in C /\ Open(job[x]) THEN Failed(job[x]) ELSE job[x]
    BY DEF CleanupBarrier, CancelJobs
  <2>2. /\ r \in cleanup /\ cleanup' = cleanup \ {r} /\ effects' = effects
        /\ receipt' = receipt /\ processing' = CancelProcessing(C)
    BY DEF CleanupBarrier
  <2>3. RowOK(x) /\ job[x].attempts \in 0..MaxAttempts
    BY RowsOf
  <2>4. RowOK(x)'
    BY <2>1, <2>2, <2>3, RowFields, ZenonT(40) DEF CancelProcessing, RowOK, Open
  <2>5. Forward(x)
    BY <2>1, <2>2, <2>3, RowFields DEF RowOK, Forward, Open
  <2> QED BY <2>4, <2>5
<1> QED BY <1>1, <1>2, RowStepKeeps DEF CleanupBarrier

(* The housekeeping of a claim moves each job forward.  A job it requeues is *)
(* below the ceiling, because an expired lease at the ceiling is exhausted. *)
LEMMA ReclaimKeeps ==
    ASSUME IInv, NEW x \in Receipts, UNCHANGED <<receipt, cleanup, applications, effects>>,
           job'[x] = Reclaimed(x), processing'[x] = ReclaimedProcessing(x)
    PROVE  RowOK(x)' /\ Forward(x)
<1>1. /\ RowOK(x) /\ job[x] \in JobRow /\ job[x].attempts \in 0..MaxAttempts
      /\ receipt[x] \in {"absent", "live", "corrected", "deleted"}
  BY RowsOf
<1>2. CASE Exhausted(job[x]) \/ (Open(job[x]) /\ Forgotten(x))
  <2>1. job'[x] = Failed(job[x]) /\ Open(job[x])
    BY <1>2 DEF Reclaimed, Exhausted, Expired, Due, Open
  <2>2. processing'[x] = IF processing[x] = "none" THEN "none" ELSE "failed"
    BY <2>1, FailedFields, Zenon DEF ReclaimedProcessing
  <2>3. RowOK(x)'
    BY <1>1, <2>1, <2>2, FailedFields, Zenon DEF RowOK, Open
  <2>4. job'[x].attempts = job[x].attempts /\ job[x].state \in {"pending", "leased"}
    BY <2>1, FailedFields, Zenon DEF Open
  <2> QED BY <2>3, <2>4, MoveForward, Zenon
<1>3. CASE ~Exhausted(job[x]) /\ ~(Open(job[x]) /\ Forgotten(x)) /\ Expired(job[x])
  <2>1. /\ job'[x] = Requeued(job[x], 0) /\ job[x].state = "leased"
        /\ job[x].attempts < MaxAttempts
    <3>1. job'[x] = Requeued(job[x], 0) /\ job[x].state = "leased"
      BY <1>3, Zenon DEF Reclaimed, Expired
    <3>2. ~(job[x].attempts >= MaxAttempts)
      BY <1>3, Zenon DEF Exhausted
    <3> QED BY <1>1, <3>1, <3>2, BoundsAssumption
  <2>2. processing'[x] = IF processing[x] = "none" THEN "none" ELSE "accepted"
    <3>1. Reclaimed(x).state = "pending"
      BY <2>1, RequeuedFields
    <3> QED BY <3>1 DEF ReclaimedProcessing
  <2>3. /\ job'[x].state = "pending" /\ job'[x].attempts = job[x].attempts
    <3>1. Requeued(job[x], 0).state = "pending" /\ Requeued(job[x], 0).attempts = job[x].attempts
      BY RequeuedFields
    <3> QED BY <2>1, <3>1, Zenon
  <2>4. RowOK(x)'
    BY <1>1, <2>1, <2>2, <2>3 DEF RowOK, Open
  <2>5. Forward(x)
    BY <2>1, <2>3, MoveForward, Zenon
  <2> QED BY <2>4, <2>5
<1>4. CASE ~Exhausted(job[x]) /\ ~(Open(job[x]) /\ Forgotten(x)) /\ ~Expired(job[x])
  <2>1. job'[x] = job[x]
    BY <1>4 DEF Reclaimed
  <2>2. processing'[x] = processing[x]
    BY <1>1, <2>1 DEF ReclaimedProcessing, RowOK, Open
  <2>3. RowOK(x)'
    BY <1>1, <2>1, <2>2 DEF RowOK, Open
  <2> QED BY <1>1, <2>1, <2>3 DEF Forward
<1> QED BY <1>2, <1>3, <1>4

LEMMA ReclaimedType == ASSUME IInv, NEW x \in Receipts
    PROVE  Reclaimed(x) \in JobRow /\ ReclaimedProcessing(x) \in ProcessingStates
  BY RowTypes DEF IInv, TypeOK, Reclaimed, ReclaimedProcessing, ProcessingStates

LEMMA ClaimReclaimsKeeps == ASSUME IInv, NEW w \in Workers, ClaimReclaims(w) PROVE IInv'
<1>1. TypeOK'
  BY ReclaimedType DEF IInv, TypeOK, ClaimReclaims
<1>2. \A x \in Receipts : RowOK(x)' /\ Forward(x)
  BY ReclaimKeeps DEF ClaimReclaims
<1> QED BY <1>1, <1>2, RowStepKeeps DEF ClaimReclaims

(* The job a claim selects is live and below the ceiling. *)
LEMMA CandidateOK == ASSUME IInv, NEW r \in Candidates
    PROVE  /\ r \in Receipts /\ receipt[r] \in {"live", "corrected"}
           /\ job[r].state \in {"pending", "leased"} /\ r \notin cleanup
           /\ Reclaimed(r).attempts = job[r].attempts
           /\ job[r].attempts \in Nat /\ job[r].attempts < MaxAttempts
           /\ Leased(Reclaimed(r)) \in JobRow /\ Failed(Leased(Reclaimed(r))) \in JobRow
<1>1. /\ r \in Receipts /\ receipt[r] # "deleted" /\ Reclaimed(r).state = "pending"
      /\ Reclaimed(r).attempts < MaxAttempts
  BY DEF Candidates, Due, Forgotten
<1>2. /\ RowOK(r) /\ job[r].attempts \in 0..MaxAttempts
      /\ receipt[r] \in {"absent", "live", "corrected", "deleted"}
  BY <1>1, RowsOf
<1>3. job[r].state \in {"pending", "leased"} /\ Reclaimed(r).attempts = job[r].attempts
  BY <1>1, RowFields DEF Reclaimed, Expired
<1>4. receipt[r] \in {"live", "corrected"} /\ r \notin cleanup
  BY <1>1, <1>2, <1>3 DEF RowOK
<1>5. Leased(Reclaimed(r)) \in JobRow /\ Failed(Leased(Reclaimed(r))) \in JobRow
  BY <1>1, RowTypes, ReclaimedType
<1> QED BY <1>1, <1>2, <1>3, <1>4, <1>5, BoundsAssumption

(* A claim that stores row j for the selected job. *)
LEMMA StoreClaimKeeps ==
    ASSUME IInv, NEW r \in Candidates, NEW j \in JobRow, NEW p \in ProcessingStates,
           StoreClaim(r, j, p), j.attempts = job[r].attempts + 1,
           \/ j.state = "leased" /\ j.token = j.attempts /\ p = "processing"
           \/ j.state = "failed" /\ p = "failed"
    PROVE  /\ job' \in [Receipts -> JobRow] /\ processing' \in [Receipts -> ProcessingStates]
           /\ \A x \in Receipts : RowOK(x)' /\ Forward(x)
<1>1. /\ r \in Receipts /\ receipt[r] \in {"live", "corrected"} /\ r \notin cleanup
      /\ job[r].state \in {"pending", "leased"} /\ job[r].attempts \in Nat
  BY CandidateOK
<1>2. job' \in [Receipts -> JobRow] /\ processing' \in [Receipts -> ProcessingStates]
  BY ReclaimedType DEF StoreClaim
<1>3. ASSUME NEW x \in Receipts PROVE RowOK(x)' /\ Forward(x)
  <2>1. CASE x # r
    BY <2>1, ReclaimKeeps DEF StoreClaim
  <2>2. CASE x = r
    <3>1. /\ job'[x] = j /\ processing'[x] = p /\ receipt' = receipt
          /\ cleanup' = cleanup /\ effects' = effects
      BY <2>2 DEF StoreClaim
    <3>2. RowOK(x)'
      BY <1>1, <2>2, <3>1 DEF RowOK, Open
    <3>3. Forward(x)
      BY <1>1, <2>2, <3>1 DEF Forward
    <3> QED BY <3>2, <3>3
  <2> QED BY <2>1, <2>2
<1> QED BY <1>2, <1>3

LEMMA ClaimLeasesKeeps ==
    ASSUME IInv, NEW w \in Workers, NEW r \in Receipts, NEW delivered \in BOOLEAN,
           ClaimLeases(w, r, delivered)
    PROVE  IInv'
<1> DEFINE j == Leased(Reclaimed(r))
<1>1. /\ r \in Candidates /\ StoreClaim(r, j, "processing")
      /\ UNCHANGED <<receipt, bound, cleanup, net, applications, effects, acked>>
  BY DEF ClaimLeases, StoreClaim
<1>2. /\ j \in JobRow /\ j.attempts = job[r].attempts + 1 /\ j.token = j.attempts
      /\ j.state = "leased"
  <2>1. j \in JobRow /\ Reclaimed(r).attempts = job[r].attempts
    BY <1>1, CandidateOK, Zenon
  <2>2. /\ j.state = "leased" /\ j.attempts = Reclaimed(r).attempts + 1
        /\ j.token = Reclaimed(r).attempts + 1
    BY LeasedFields, Zenon
  <2> HIDE DEF j
  <2> QED BY <2>1, <2>2
<1>3. /\ job' \in [Receipts -> JobRow] /\ processing' \in [Receipts -> ProcessingStates]
      /\ \A x \in Receipts : RowOK(x)' /\ Forward(x)
  <2> HIDE DEF j
  <2> QED BY <1>1, <1>2, StoreClaimKeeps DEF ProcessingStates
<1>4. /\ receipt[r] # "absent" /\ job'[r] = j /\ job[r].attempts + 1 \in 1..MaxAttempts
  BY <1>1, CandidateOK, BoundsAssumption DEF StoreClaim
<1> DEFINE g == [phase |-> "generating", r |-> r, tok |-> job[r].attempts + 1,
                 p |-> None, n |-> 0]
<1>5. worker' = worker \/ worker' = [worker EXCEPT ![w] = g]
  BY DEF ClaimLeases
<1>6. TypeOK'
  <2>1. g \in Runner
    <3>1. PICK tok \in 1..MaxAttempts : tok = job[r].attempts + 1
      BY <1>4, Zenon
    <3> QED BY <3>1 DEF Runner
  <2> QED BY <1>1, <1>3, <1>5, <2>1 DEF IInv, TypeOK
<1>7. ASSUME NEW v \in Workers PROVE worker'[v] = worker[v] \/ WorkerOK(v)'
  <2>1. SUFFICES ASSUME worker'[v] = g PROVE WorkerOK(v)'
    BY <1>5 DEF IInv, TypeOK
  <2>2. receipt'[r] # "absent" /\ job[r].attempts + 1 <= job'[r].attempts
    <3> HIDE DEF j
    <3> QED BY <1>1, <1>2, <1>4
  <2>3. g.phase = "generating" /\ g.r = r /\ g.tok = job[r].attempts + 1
    OBVIOUS
  <2>4. /\ worker'[v].phase = "generating" /\ worker'[v].r = r
        /\ worker'[v].tok = job[r].attempts + 1
    <3> HIDE DEF g
    <3> QED BY <2>1, <2>3
  <2> QED BY <1>4, <2>2, <2>4 DEF WorkerOK, IssuedLease
<1>8. CountsOK' /\ AckedIsApplied'
  BY <1>1 DEF IInv, CountsOK, AckedIsApplied
<1> QED BY <1>1, <1>3, <1>6, <1>7, <1>8, StepKeeps

LEMMA ClaimOversizedKeeps ==
    ASSUME IInv, NEW w \in Workers, NEW r \in Receipts, ClaimOversized(w, r) PROVE IInv'
<1> DEFINE j == Failed(Leased(Reclaimed(r)))
<1>1. /\ r \in Candidates /\ StoreClaim(r, j, "failed")
      /\ UNCHANGED <<receipt, bound, cleanup, worker, net, applications, effects, acked>>
  BY DEF ClaimOversized, StoreClaim
<1>2. j \in JobRow /\ j.attempts = job[r].attempts + 1 /\ j.state = "failed"
  <2>1. j \in JobRow /\ Reclaimed(r).attempts = job[r].attempts
    BY <1>1, CandidateOK, Zenon
  <2>2. j.state = "failed" /\ j.attempts = Leased(Reclaimed(r)).attempts
    BY FailedFields, Zenon
  <2>3. Leased(Reclaimed(r)).attempts = Reclaimed(r).attempts + 1
    BY LeasedFields, Zenon
  <2> HIDE DEF j
  <2> QED BY <2>1, <2>2, <2>3, Zenon
<1>3. /\ job' \in [Receipts -> JobRow] /\ processing' \in [Receipts -> ProcessingStates]
      /\ \A x \in Receipts : RowOK(x)' /\ Forward(x)
  <2> HIDE DEF j
  <2> QED BY <1>1, <1>2, StoreClaimKeeps DEF ProcessingStates
<1>4. TypeOK'
  BY <1>1, <1>3 DEF IInv, TypeOK
<1> QED BY <1>1, <1>3, <1>4, RowStepKeeps

LEMMA TickKeeps == ASSUME IInv, Tick PROVE IInv'
<1>1. TypeOK'
  BY RowTypes DEF IInv, TypeOK, Tick
<1>2. ASSUME NEW x \in Receipts PROVE RowOK(x)' /\ Forward(x)
  <2>1. /\ job'[x].state = job[x].state /\ job'[x].attempts = job[x].attempts
        /\ job'[x].token = job[x].token /\ job'[x].digest = job[x].digest
    <3>1. job'[x] = Later(job[x])
      BY DEF Tick
    <3> QED BY <3>1 DEF Later
  <2>2. RowOK(x) /\ job[x].attempts \in Nat
    BY RowsOf, BoundsAssumption
  <2>3. UNCHANGED <<receipt, processing, cleanup, applications, effects>>
    BY DEF Tick
  <2>4. RowOK(x)'
    BY <2>1, <2>2, <2>3, Zenon DEF RowOK, Open
  <2> QED BY <2>1, <2>2, <2>3, <2>4 DEF Forward
<1> QED BY <1>1, <1>2, RowStepKeeps DEF Tick

-----------------------------------------------------------------------------
(* The worker loop *)

LEMMA IdleType == Idle \in Runner
  BY BoundsAssumption DEF Idle, Runner

LEMMA WaitingOK ==
    ASSUME IInv, NEW w \in Workers, worker[w].phase # "idle",
           NEW phase \in {"applying", "failing"}, NEW p \in Proposals \union {None},
           NEW n \in 0..2
    PROVE  LET s == Waiting(w, phase, p, n) IN
           /\ s \in Runner
           /\ s.phase = phase /\ s.r = worker[w].r /\ s.tok = worker[w].tok /\ s.p = p
<1>1. worker[w] \in Runner
  BY Zenon DEF IInv, TypeOK
<1>2. worker[w].r \in Receipts \union {None} /\ worker[w].tok \in 0..MaxAttempts
  BY <1>1 DEF Runner
<1> QED BY <1>2 DEF Waiting, Runner

(* What a worker may send: about the lease it holds, and in an Apply a      *)
(* proposal.                                                                *)
Sends(w, m) ==
    \/ \E p \in Proposals, n \in {1, 2} : m = ApplyMsg(w, p, n)
    \/ \E retryable \in BOOLEAN : m = FailMsg(w, retryable)

LEMMA SentOK ==
    ASSUME IInv, NEW w \in Workers, worker[w].phase # "idle", NEW m, Sends(w, m)
    PROVE  m \in Message /\ MessageOK(m)
<1>1. IssuedLease(worker[w].r, worker[w].tok)
  BY DEF IInv, WorkerOK
<1>2. m \in Message /\ m.r = worker[w].r /\ m.tok = worker[w].tok
  <2>0. PICK x \in Receipts, tok \in 1..MaxAttempts : x = worker[w].r /\ tok = worker[w].tok
    BY <1>1, Zenon DEF IssuedLease
  <2>1. \A p \in Proposals, n \in {1, 2} :
           ApplyMsg(w, p, n) \in Message /\ ApplyMsg(w, p, n).r = worker[w].r
                                         /\ ApplyMsg(w, p, n).tok = worker[w].tok
    BY <2>0, BoundsAssumption DEF ApplyMsg, Message
  <2>2. \A b \in BOOLEAN : FailMsg(w, b) \in Message /\ FailMsg(w, b).r = worker[w].r
                                                     /\ FailMsg(w, b).tok = worker[w].tok
    BY <2>0, BoundsAssumption DEF FailMsg, Message
  <2> QED BY <2>1, <2>2 DEF Sends
<1>3. m.op # "failtx" /\ (m.op = "apply" => m.p \in Proposals)
  BY DEF Sends, ApplyMsg, FailMsg
<1> QED BY <1>1, <1>2, <1>3, Zenon DEF MessageOK

(* A worker moves to state s, some requests arrive or disappear. *)
LEMMA WorkerMoveKeeps ==
    ASSUME IInv, NEW w \in Workers, NEW s \in Runner,
           worker' = worker \/ worker' = [worker EXCEPT ![w] = s],
           \/ s.phase = "idle"
           \/ /\ worker[w].phase # "idle" /\ s.r = worker[w].r /\ s.tok = worker[w].tok
              /\ s.phase = "applying" => s.p \in Proposals,
           \A m \in net' : m \in net \/ (m \in Message /\ MessageOK(m)),
           UNCHANGED <<receipt, bound, job, processing, cleanup, applications, effects>>,
           acked' \in SUBSET effects
    PROVE  IInv'
<1>1. TypeOK'
  BY DEF IInv, TypeOK
<1>2. \A r \in Receipts : RowOK(r)' /\ Forward(r)
  BY SameRows
<1>3. ASSUME NEW v \in Workers PROVE worker'[v] = worker[v] \/ WorkerOK(v)'
  <2>1. SUFFICES ASSUME worker'[v] = s, v = w PROVE WorkerOK(v)'
    BY DEF IInv, TypeOK
  <2>2. WorkerOK(w)
    BY DEF IInv
  <2> QED BY <2>1, <2>2 DEF WorkerOK, IssuedLease
<1>4. \A m \in net' : m \in net \/ MessageOK(m)'
  BY DEF MessageOK, IssuedLease
<1>5. CountsOK' /\ AckedIsApplied'
  BY DEF IInv, CountsOK, AckedIsApplied
<1> QED BY <1>1, <1>2, <1>3, <1>4, <1>5, StepKeeps

LEMMA GenerateKeeps ==
    ASSUME IInv, NEW w \in Workers, NEW p \in Proposals, Generate(w, p) PROVE IInv'
<1> DEFINE s == Waiting(w, "applying", p, 1)
<1>1. worker[w].phase # "idle"
  BY DEF Generate
<1>2. /\ s \in Runner /\ s.r = worker[w].r /\ s.tok = worker[w].tok /\ s.p \in Proposals
  BY <1>1, WaitingOK
<1>3. \A m \in net' : m \in net \/ (m \in Message /\ MessageOK(m))
  BY <1>1, SentOK DEF Generate, Sends
<1>4. acked' \in SUBSET effects
  BY DEF Generate, IInv, AckedIsApplied
<1> HIDE DEF s
<1> QED BY <1>1, <1>2, <1>3, <1>4, WorkerMoveKeeps, Zenon DEF Generate, s

LEMMA GenerateFailsKeeps ==
    ASSUME IInv, NEW w \in Workers, NEW retryable \in BOOLEAN, GenerateFails(w, retryable)
    PROVE  IInv'
<1> DEFINE s == Waiting(w, "failing", None, 0)
<1>1. worker[w].phase # "idle"
  BY DEF GenerateFails
<1>2. /\ s \in Runner /\ s.r = worker[w].r /\ s.tok = worker[w].tok /\ s.phase = "failing"
  BY <1>1, WaitingOK
<1>3. \A m \in net' : m \in net \/ (m \in Message /\ MessageOK(m))
  BY <1>1, SentOK DEF GenerateFails, Sends
<1>4. acked' \in SUBSET effects
  BY DEF GenerateFails, IInv, AckedIsApplied
<1> HIDE DEF s
<1> QED BY <1>1, <1>2, <1>3, <1>4, WorkerMoveKeeps, Zenon DEF GenerateFails, s

LEMMA UnansweredKeeps == ASSUME IInv, NEW w \in Workers, Unanswered(w) PROVE IInv'
<1> DEFINE s == Waiting(w, "applying", worker[w].p, 2)
<1>1. worker[w].phase # "idle" /\ acked' \in SUBSET effects
  BY DEF Unanswered, IInv, AckedIsApplied
<1>2. CASE worker[w].phase = "applying" /\ worker[w].n = 1
  <2>1. worker[w].p \in Proposals
    BY <1>2, Zenon DEF IInv, WorkerOK
  <2>2. /\ s \in Runner /\ s.r = worker[w].r /\ s.tok = worker[w].tok /\ s.p \in Proposals
    BY <1>1, <2>1, WaitingOK
  <2>3. \A m \in net' : m \in net \/ (m \in Message /\ MessageOK(m))
    BY <1>1, <1>2, <2>1, SentOK DEF Unanswered, Sends
  <2> HIDE DEF s
  <2> QED BY <1>1, <1>2, <2>2, <2>3, WorkerMoveKeeps DEF Unanswered, s
<1>3. CASE ~(worker[w].phase = "applying" /\ worker[w].n = 1)
  BY <1>1, <1>3, IdleType, RowFields, WorkerMoveKeeps, Zenon DEF Unanswered
<1> QED BY <1>2, <1>3

LEMMA CrashKeeps == ASSUME IInv, NEW w \in Workers, WorkerCrash(w) PROVE IInv'
<1>1. acked' \in SUBSET effects
  BY DEF WorkerCrash, IInv, AckedIsApplied
<1> QED BY <1>1, IdleType, RowFields, WorkerMoveKeeps, Zenon DEF WorkerCrash

LEMMA DropKeeps == ASSUME IInv, NEW m \in net, Drop(m) PROVE IInv'
<1>1. acked' \in SUBSET effects /\ m.from \in Workers
  BY DEF Drop, IInv, AckedIsApplied, TypeOK, Message
<1> QED BY <1>1, IdleType, RowFields, WorkerMoveKeeps, Zenon DEF Drop

-----------------------------------------------------------------------------
(* Apply and Fail on the appliance *)

LEMMA MessageFacts ==
    ASSUME IInv, NEW m \in net
    PROVE  /\ m \in Message /\ MessageOK(m) /\ m.r \in Receipts /\ m.from \in Workers
           /\ m.tok \in 1..MaxAttempts /\ m.seen \in 0..MaxAttempts
           /\ m.op = "apply" => EffectOf(m) \in Effect
           /\ EffectOf(m).r = m.r /\ EffectOf(m).tok = m.tok /\ EffectOf(m).p = m.p
<1>1. m \in Message /\ MessageOK(m)
  BY DEF IInv, TypeOK
<1> QED BY <1>1, Zenon DEF Message, EffectOf, Effect, MessageOK

(* An effect on a job that is still leased would have completed it. *)
LEMMA LeasedHasNoEffect ==
    ASSUME IInv, NEW r \in Receipts, job[r].state = "leased", NEW e \in effects
    PROVE  e.r # r
  BY DEF IInv, EffectOK

LEMMA ApplyCommitsKeeps ==
    ASSUME IInv, NEW m \in net, m.op = "apply", ApplyCommits(m) PROVE IInv'
<1> DEFINE r == m.r
           j == Completed(job[m.r], m.p)
           e == EffectOf(m)
<1>1. /\ r \in Receipts /\ m.from \in Workers /\ e \in Effect /\ m.p \in Proposals
      /\ e.r = r /\ e.tok = m.tok /\ e.p = m.p
  BY MessageFacts DEF MessageOK
<1>2. /\ job[r].state = "leased" /\ job[r].token = m.tok /\ receipt[r] # "deleted"
      /\ job' = [job EXCEPT ![r] = j] /\ processing' = [processing EXCEPT ![r] = "organized"]
      /\ applications' = [applications EXCEPT ![r] = @ + 1] /\ effects' = effects \union {e}
      /\ UNCHANGED <<receipt, bound, cleanup>>
  BY DEF ApplyCommits, HoldsLease, Forgotten
<1>3. /\ RowOK(r) /\ job[r].attempts \in 0..MaxAttempts /\ job[r] \in JobRow
      /\ receipt[r] \in {"absent", "live", "corrected", "deleted"}
  BY <1>1, RowsOf, Zenon
<1>4. /\ receipt[r] \in {"live", "corrected"} /\ r \notin cleanup
      /\ job[r].attempts = m.tok /\ m.tok >= 1
  BY <1>2, <1>3, Zenon DEF RowOK
<1>5. /\ j \in JobRow /\ j.state = "completed" /\ j.attempts = m.tok /\ j.token = m.tok
      /\ j.digest = m.p
  <2>1. Completed(job[m.r], m.p) \in JobRow
    BY <1>1, <1>3, RowTypes, Zenon
  <2>2. /\ j.state = "completed" /\ j.attempts = job[m.r].attempts
        /\ j.token = job[m.r].token /\ j.digest = m.p
    BY CompletedFields
  <2> QED BY <1>2, <1>4, <2>1, <2>2, Zenon
<1>6. /\ worker' = worker \/ worker' = [worker EXCEPT ![m.from] = Idle]
      /\ acked' \subseteq acked \union {e} /\ net' \subseteq net
  BY DEF ApplyCommits, ReplyOk
<1>7. e = [r |-> r, tok |-> m.tok, p |-> m.p]
  BY DEF EffectOf
<1> HIDE DEF r, j, e
<1>8. TypeOK'
  <2>1. acked' \in SUBSET Effect /\ effects' \in SUBSET Effect /\ net' \in SUBSET Message
    BY <1>1, <1>2, <1>6, Zenon DEF IInv, TypeOK
  <2>2. worker' \in [Workers -> Runner]
    BY <1>6, IdleType DEF IInv, TypeOK
  <2>3. applications' \in [Receipts -> Nat]
    BY <1>1, <1>2 DEF IInv, TypeOK
  <2> QED BY <1>1, <1>2, <1>5, <2>1, <2>2, <2>3, Zenon DEF IInv, TypeOK, ProcessingStates
<1>9. ASSUME NEW x \in Receipts PROVE RowOK(x)' /\ Forward(x)
  <2>1. CASE x = r
    <3>1. /\ job'[x] = j /\ processing'[x] = "organized" /\ receipt'[x] = receipt[x]
          /\ x \notin cleanup' /\ e \in effects'
      BY <1>1, <1>2, <1>4, <2>1, Zenon DEF IInv, TypeOK
    <3>2. RowOK(x)'
      BY <1>1, <1>4, <1>5, <1>7, <2>1, <3>1, Zenon DEF RowOK, Open
    <3>3. Forward(x)
      <4>1. job[x].state = "leased" /\ job'[x].attempts = job[x].attempts
        BY <1>2, <1>4, <1>5, <2>1, <3>1, Zenon
      <4> QED BY <3>1, <4>1, MoveForward, Zenon
    <3> QED BY <3>2, <3>3
  <2>2. CASE x # r
    <3>1. /\ job'[x] = job[x] /\ processing'[x] = processing[x] /\ receipt'[x] = receipt[x]
          /\ cleanup' = cleanup /\ effects \subseteq effects'
      BY <1>2, <2>2, Zenon DEF IInv, TypeOK
    <3>2. RowOK(x) /\ job[x].attempts \in 0..MaxAttempts
      BY RowsOf, Zenon
    <3>3. RowOK(x)'
      BY <3>1, <3>2, Zenon DEF RowOK, Open
    <3>4. Forward(x)
      BY <3>1, StayForward, Zenon
    <3> QED BY <3>3, <3>4
  <2> QED BY <2>1, <2>2
<1>10. \A v \in Workers : worker'[v] = worker[v] \/ WorkerOK(v)'
  BY <1>1, <1>6, RowFields, Zenon DEF IInv, TypeOK, WorkerOK
<1>11. \A f \in effects' : f \in effects \/ EffectOK(f)'
  <2> SUFFICES ASSUME NEW f, f = e PROVE EffectOK(f)'
    BY <1>2
  <2> QED BY <1>1, <1>2, <1>5, Zenon DEF EffectOK, IInv, TypeOK
<1>12. CountsOK'
  <2> SUFFICES ASSUME NEW x \in Receipts
               PROVE  /\ applications'[x] \in {0, 1}
                      /\ applications'[x] = 1 => \E f \in effects' : f.r = x
    BY Zenon DEF CountsOK
  <2>1. CASE x = r
    <3>1. applications[r] = 0
      BY <1>1, <1>2, LeasedHasNoEffect DEF IInv, CountsOK
    <3>2. applications'[r] = 1
      BY <1>1, <1>2, <3>1 DEF IInv, TypeOK
    <3> QED BY <1>1, <1>2, <2>1, <3>2, Zenon
  <2>2. CASE x # r
    <3>1. applications'[x] = applications[x]
      BY <1>2, <2>2, Zenon DEF IInv, TypeOK
    <3> QED BY <1>2, <3>1, Zenon DEF IInv, CountsOK
  <2> QED BY <2>1, <2>2
<1>13. AckedIsApplied'
  BY <1>2, <1>6 DEF IInv, AckedIsApplied
<1> QED BY <1>6, <1>8, <1>9, <1>10, <1>11, <1>12, <1>13, StepKeeps

LEMMA ReplyRefusedKeeps ==
    ASSUME IInv, NEW m \in net, NEW retryable \in BOOLEAN, ReplyRefused(m, retryable),
           UNCHANGED <<receipt, bound, job, processing, cleanup, applications, effects>>, m.op = "apply"
    PROVE  IInv'
<1> DEFINE s == Waiting(m.from, "failing", None, 0)
<1>1. m.from \in Workers /\ acked' \in SUBSET effects
  BY MessageFacts, Zenon DEF ReplyRefused, IInv, AckedIsApplied
<1>2. CASE Awaits(m)
  <2>1. worker[m.from].phase # "idle"
    BY <1>2 DEF Awaits
  <2>2. /\ s \in Runner /\ s.r = worker[m.from].r /\ s.tok = worker[m.from].tok
        /\ s.phase = "failing"
    <3>1. "failing" \in {"applying", "failing"} /\ None \in Proposals \union {None} /\ 0 \in 0..2
      OBVIOUS
    <3> QED BY <1>1, <2>1, <3>1, WaitingOK
  <2>3. \A x \in net' : x \in net \/ (x \in Message /\ MessageOK(x))
    BY <1>1, <1>2, <2>1, SentOK DEF ReplyRefused, Sends
  <2>4. worker' = [worker EXCEPT ![m.from] = s]
    BY <1>2 DEF ReplyRefused
  <2> HIDE DEF s
  <2> QED BY <1>1, <2>1, <2>2, <2>3, <2>4, WorkerMoveKeeps, Zenon
<1>3. CASE ~Awaits(m)
  <2>1. worker' = worker /\ net' \subseteq net
    BY <1>3 DEF ReplyRefused
  <2> QED BY <1>1, <2>1, IdleType, RowFields, WorkerMoveKeeps, Zenon
<1> QED BY <1>2, <1>3

(* A replayed success is about the proposal the completed job stored. *)
LEMMA ApplyReplaysKeeps ==
    ASSUME IInv, NEW m \in net, m.op = "apply", ApplyReplays(m) PROVE IInv'
<1>1. m.r \in Receipts /\ m.from \in Workers
  BY MessageFacts
<1>2. job[m.r].state = "completed" /\ job[m.r].token = m.tok /\ job[m.r].digest = m.p
  BY DEF ApplyReplays, Replays
<1>3. EffectOf(m) \in effects
  BY <1>1, <1>2, RowsOf, Zenon DEF RowOK, EffectOf
<1>4. /\ worker' = worker \/ worker' = [worker EXCEPT ![m.from] = Idle]
      /\ acked' \subseteq acked \union {EffectOf(m)} /\ net' \subseteq net
      /\ UNCHANGED <<receipt, bound, job, processing, cleanup, applications, effects>>
  BY DEF ApplyReplays, ReplyOk
<1>5. acked' \in SUBSET effects
  BY <1>3, <1>4 DEF IInv, AckedIsApplied
<1> QED BY <1>1, <1>4, <1>5, IdleType, RowFields, WorkerMoveKeeps, Zenon

LEMMA ApplyKeeps == ASSUME IInv, NEW m \in net, ApplyStewardProposal(m) PROVE IInv'
<1>1. m.op = "apply"
  BY DEF ApplyStewardProposal
<1>2. CASE ApplyCommits(m)
  BY <1>1, <1>2, ApplyCommitsKeeps
<1>3. ASSUME NEW retryable \in BOOLEAN, ApplyRejects(m, retryable) PROVE IInv'
  BY <1>1, <1>3, ReplyRefusedKeeps DEF ApplyRejects
<1>4. CASE ApplyReplays(m)
  BY <1>1, <1>4, ApplyReplaysKeeps
<1>5. CASE ApplyLosesLease(m)
  BY <1>1, <1>5, ReplyRefusedKeeps, Zenon DEF ApplyLosesLease
<1> QED BY <1>2, <1>3, <1>4, <1>5 DEF ApplyStewardProposal

(* The unlocked read: attempts only grow, so the value read is a bound. *)
LEMMA ReportKeeps == ASSUME IInv, NEW m \in net, ReportStewardFailure(m) PROVE IInv'
<1> DEFINE q == [op |-> "failtx", from |-> m.from, r |-> m.r, tok |-> m.tok,
                 p |-> m.p, n |-> m.n, retryable |-> m.retryable,
                 seen |-> job[m.r].attempts]
<1>1. /\ m \in Message /\ MessageOK(m) /\ m.r \in Receipts /\ m.from \in Workers
      /\ acked' \in SUBSET effects
  BY MessageFacts, Zenon DEF ReportStewardFailure, IInv, AckedIsApplied
<1>2. job[m.r].attempts \in 0..MaxAttempts
  BY <1>1, RowsOf
<1>3. /\ worker' = worker \/ worker' = [worker EXCEPT ![m.from] = Idle]
      /\ \A x \in net' : x \in net \/ (x = q /\ job[m.r].state # "none")
      /\ UNCHANGED <<receipt, bound, job, processing, cleanup, applications, effects>>
  BY DEF ReportStewardFailure, ReplyFail
<1>4. q \in Message /\ q.r = m.r /\ q.tok = m.tok /\ q.seen = job[m.r].attempts
      /\ q.op = "failtx"
  BY <1>1, <1>2, Zenon DEF Message
<1> HIDE DEF q
<1>5. job[m.r].state # "none" => MessageOK(q)
  <2> SUFFICES ASSUME job[m.r].state # "none" PROVE MessageOK(q)
    OBVIOUS
  <2>1. IssuedLease(m.r, m.tok)
    BY <1>1, Zenon DEF MessageOK
  <2>2. m.tok <= job[m.r].attempts /\ job[m.r].attempts <= job[m.r].attempts
    BY <1>2, <2>1 DEF IssuedLease
  <2>3. q.op # "apply"
    BY <1>4
  <2> QED BY <1>4, <2>1, <2>2, <2>3, Zenon DEF MessageOK
<1>6. \A x \in net' : x \in net \/ (x \in Message /\ MessageOK(x))
  BY <1>3, <1>4, <1>5, Zenon
<1> QED BY <1>1, <1>3, <1>6, IdleType, RowFields, WorkerMoveKeeps, Zenon

(* A live lease is the job's last attempt, so the attempts that were read   *)
(* are the attempts that count.                                             *)
LEMMA FailKeeps == ASSUME IInv, NEW m \in net, FailStewardJob(m) PROVE IInv'
<1>1. /\ m \in Message /\ MessageOK(m) /\ m.r \in Receipts /\ m.from \in Workers
      /\ m.tok \in 1..MaxAttempts /\ m.seen \in 0..MaxAttempts /\ m.op = "failtx"
  BY MessageFacts, Zenon DEF FailStewardJob
<1>2. /\ worker' = worker \/ worker' = [worker EXCEPT ![m.from] = Idle]
      /\ net' \subseteq net
      /\ UNCHANGED <<receipt, bound, cleanup, applications, effects, acked>>
  BY DEF FailStewardJob, ReplyFail
<1>3. CASE ~HoldsLease(m.r, m.tok)
  <2>1. UNCHANGED <<job, processing>> /\ acked' \in SUBSET effects
    BY <1>3 DEF FailStewardJob, IInv, AckedIsApplied
  <2> QED BY <1>1, <1>2, <2>1, IdleType, RowFields, WorkerMoveKeeps, Zenon
<1>4. CASE HoldsLease(m.r, m.tok)
  <2>1. /\ RowOK(m.r) /\ job[m.r].attempts \in 0..MaxAttempts /\ job[m.r] \in JobRow
        /\ receipt[m.r] \in {"absent", "live", "corrected", "deleted"}
        /\ job[m.r].state = "leased" /\ job[m.r].token = m.tok
    BY <1>1, <1>4, RowsOf DEF HoldsLease
  <2>2. /\ job[m.r].attempts = m.seen /\ receipt[m.r] \in {"live", "corrected"}
        /\ m.r \notin cleanup
    <3>1. /\ job[m.r].attempts = m.tok /\ receipt[m.r] \in {"live", "corrected"}
          /\ m.r \notin cleanup
      BY <2>1, Zenon DEF RowOK, Open
    <3>2. m.tok <= m.seen /\ m.seen <= job[m.r].attempts
      BY <1>1, <2>1 DEF MessageOK
    <3> QED BY <1>1, <3>1, <3>2
  <2>3. PICK j \in JobRow, p \in ProcessingStates :
           /\ job' = [job EXCEPT ![m.r] = j] /\ processing' = [processing EXCEPT ![m.r] = p]
           /\ j.attempts = job[m.r].attempts
           /\ \/ j.state = "failed" /\ p = "failed"
              \/ j.state = "pending" /\ p = "accepted" /\ j.attempts < MaxAttempts
    <3>1. CASE Terminal(m)
      <4>1. /\ Failed(job[m.r]) \in JobRow /\ Failed(job[m.r]).state = "failed"
            /\ Failed(job[m.r]).attempts = job[m.r].attempts
        BY <2>1, RowTypes, RowFields, Zenon
      <4> QED BY <1>4, <3>1, <4>1 DEF FailStewardJob, ProcessingStates
    <3>2. CASE ~Terminal(m)
      <4> DEFINE k == Requeued(job[m.r], StewardRetryDelay(m.seen))
      <4>1. k \in JobRow /\ k.state = "pending" /\ k.attempts = job[m.r].attempts
        <5>1. StewardRetryDelay(m.seen) \in Nat
          BY <1>1, RetryDelayType, BoundsAssumption
        <5>2. k \in JobRow
          BY <2>1, <5>1, RowTypes
        <5> QED BY <5>2, RequeuedFields, Zenon
      <4>2. job[m.r].attempts < MaxAttempts
        BY <1>1, <2>2, <3>2, BoundsAssumption DEF Terminal
      <4> QED BY <1>4, <3>2, <4>1, <4>2 DEF FailStewardJob, ProcessingStates
    <3> QED BY <3>1, <3>2, Zenon
  <2>4. TypeOK'
    BY <1>1, <1>2, <2>3, IdleType DEF IInv, TypeOK
  <2>5. ASSUME NEW x \in Receipts PROVE RowOK(x)' /\ Forward(x)
    <3>1. /\ RowOK(x) /\ job[x].attempts \in 0..MaxAttempts
      BY RowsOf
    <3>2. CASE x = m.r
      <4>1. job'[x] = j /\ processing'[x] = p /\ receipt'[x] = receipt[x] /\ x \notin cleanup'
        BY <1>2, <2>2, <2>3, <3>2, Zenon DEF IInv, TypeOK
      <4>2. RowOK(x)'
        BY <2>2, <2>3, <3>2, <4>1, Zenon DEF RowOK, Open
      <4>3. Forward(x)
        BY <2>1, <2>3, <3>2, <4>1, MoveForward, Zenon
      <4> QED BY <4>2, <4>3
    <3>3. CASE x # m.r
      <4>1. /\ job'[x] = job[x] /\ processing'[x] = processing[x]
            /\ UNCHANGED <<receipt, cleanup, applications, effects>>
        BY <1>2, <2>3, <3>3 DEF IInv, TypeOK
      <4>2. RowOK(x)'
        BY <3>1, <4>1, Zenon DEF RowOK, Open
      <4>3. Forward(x)
        BY <4>1, StayForward, Zenon
      <4> QED BY <4>2, <4>3
    <3> QED BY <3>2, <3>3
  <2>6. \A v \in Workers : worker'[v] = worker[v] \/ WorkerOK(v)'
    BY <1>1, <1>2, RowFields, Zenon DEF IInv, TypeOK, WorkerOK
  <2>7. CountsOK' /\ AckedIsApplied'
    BY <1>2 DEF IInv, CountsOK, AckedIsApplied
  <2> QED BY <1>2, <2>4, <2>5, <2>6, <2>7, StepKeeps
<1> QED BY <1>3, <1>4

-----------------------------------------------------------------------------
(* The theorems *)

LEMMA InitOK == Init => IInv
<1> SUFFICES ASSUME Init PROVE IInv
  OBVIOUS
<1>1. TypeOK
  BY RowTypes, IdleType, Zenon DEF Init, TypeOK, ProcessingStates
<1>2. \A r \in Receipts : RowOK(r)
  BY RowFields, Zenon DEF Init, RowOK, Open
<1>3. \A w \in Workers : WorkerOK(w)
  BY RowFields, Zenon DEF Init, WorkerOK
<1> QED BY <1>1, <1>2, <1>3 DEF Init, IInv, CountsOK, AckedIsApplied

LEMMA NextOK == IInv /\ [Next]_vars => IInv'
<1> SUFFICES ASSUME IInv, [Next]_vars PROVE IInv'
  OBVIOUS
<1>1. CASE Governance
  BY <1>1, RememberKeeps, BindKeeps, DisableKeeps, CorrectKeeps, DeleteKeeps, CleanupKeeps
     DEF Governance
<1>2. ASSUME NEW w \in Workers, Claim(w) PROVE IInv'
  BY <1>2, ClaimLeasesKeeps, ClaimOversizedKeeps, ClaimReclaimsKeeps DEF Claim
<1>3. ASSUME NEW w \in Workers, WorkerStep(w) PROVE IInv'
  BY <1>3, GenerateKeeps, GenerateFailsKeeps, UnansweredKeeps DEF WorkerStep
<1>4. ASSUME NEW w \in Workers, WorkerCrash(w) PROVE IInv'
  BY <1>4, CrashKeeps
<1>5. ASSUME NEW m \in net, Deliver(m) PROVE IInv'
  BY <1>5, ApplyKeeps, ReportKeeps, FailKeeps DEF Deliver
<1>6. ASSUME NEW m \in net, Drop(m) PROVE IInv'
  BY <1>6, DropKeeps
<1>7. CASE Tick
  BY <1>7, TickKeeps
<1>8. CASE UNCHANGED vars
  <2>1. TypeOK'
    BY <1>8 DEF vars, IInv, TypeOK
  <2>2. \A r \in Receipts : RowOK(r)' /\ Forward(r)
    BY <1>8, SameRows DEF vars
  <2> QED BY <1>8, <2>1, <2>2, RowStepKeeps DEF vars
<1> QED BY <1>1, <1>2, <1>3, <1>4, <1>5, <1>6, <1>7, <1>8 DEF Next

(* The inductive invariant holds in every reachable state of the queue. *)
THEOREM Invariance == Spec => []IInv
  BY InitOK, NextOK, PTL DEF Spec

(* Rows, messages and history keep their shape, and no job is claimed more  *)
(* often than maxStewardAttempts.                                           *)
THEOREM TypeCorrect == Spec => []TypeOK
<1>1. IInv => TypeOK
  BY DEF IInv
<1> QED BY <1>1, Invariance, PTL

(* The receipt status always says what the job is doing, and a deletion     *)
(* settles both.                                                            *)
THEOREM StatusCorrect == Spec => []StatusMirrorsJob
<1>1. IInv => StatusMirrorsJob
  BY Zenon DEF IInv, TypeOK, JobRow, JobStates, RowOK, StatusMirrorsJob
<1> QED BY <1>1, Invariance, PTL

(* The operations of a proposal are carried out at most once for a job,     *)
(* whatever is retried with identical input, late or repeated, and whoever  *)
(* holds which lease.                                                       *)
THEOREM ExactlyOnce == Spec => []AppliedOnce
<1>1. IInv => AppliedOnce
  BY DEF IInv, CountsOK, AppliedOnce
<1> QED BY <1>1, Invariance, PTL

(* A job is completed only under its last lease. *)
THEOREM LastLeaseCompletes == Spec => []CompletedByLastLease
<1>1. IInv => CompletedByLastLease
  BY Zenon DEF IInv, RowOK, CompletedByLastLease
<1> QED BY <1>1, Invariance, PTL

(* A worker is told success only about a proposal that took effect. *)
THEOREM AcksAreTrue == Spec => []AckedIsApplied
<1>1. IInv => AckedIsApplied
  BY DEF IInv
<1> QED BY <1>1, Invariance, PTL

(* No job waits for an attempt it may not be given, although Fail acts on   *)
(* attempts that were read before the lock was taken.                       *)
THEOREM CeilingHolds == Spec => []PendingBelowCeiling
<1>1. IInv => PendingBelowCeiling
  BY Zenon DEF IInv, RowOK, PendingBelowCeiling
<1> QED BY <1>1, Invariance, PTL

-----------------------------------------------------------------------------
(* The queue implements Settlement *)

(* What a step may do to the rows of receipt r, besides completing its job. *)
Onward(r) ==
    /\ receipt[r] = "absent" =>
          \/ receipt'[r] = "absent"
          \/ receipt'[r] = "live" /\ job'[r].state \in {"none", "pending"}
    /\ receipt[r] # "absent" => receipt'[r] # "absent"
    /\ receipt[r] = "deleted" => receipt'[r] = "deleted"
    /\ receipt[r] # "deleted" /\ receipt'[r] # "deleted" =>
          /\ job[r].state = "failed" => job'[r].state = "failed"
          /\ job[r].state = "completed" =>
                job'[r].state = "completed" /\ job'[r].digest = job[r].digest

CompletesNone == \A r \in Receipts : job'[r].state = "completed" => job[r].state = "completed"

LEMMA GovernanceOnward ==
    ASSUME IInv, Governance PROVE CompletesNone /\ \A r \in Receipts : Onward(r)
<1> USE DEF Onward, CompletesNone
<1>1. ASSUME NEW r \in Receipts, Remember(r)
      PROVE  CompletesNone /\ \A x \in Receipts : Onward(x)
  BY <1>1, RowFields, RowsOf, Zenon DEF Remember, Enqueue, IInv, TypeOK, RowOK
<1>2. CASE BindStewardProfile
  BY <1>2, Zenon DEF BindStewardProfile
<1>3. CASE DisableSteward
  BY <1>3, RowFields, Zenon DEF DisableSteward, CancelJobs, Open
<1>4. ASSUME NEW r \in Receipts, NEW s \in Receipts, NEW C \in SUBSET Receipts,
             CorrectReceipt(r, s, C)
      PROVE  CompletesNone /\ \A x \in Receipts : Onward(x)
  <2> SUFFICES ASSUME NEW x \in Receipts
               PROVE  Onward(x) /\ (job'[x].state = "completed" => job[x].state = "completed")
    BY Zenon
  <2>1. \/ x = s /\ job'[x] = NewJob
        \/ job'[x] = IF x \in C \union {r} /\ Open(job[x]) THEN Failed(job[x]) ELSE job[x]
    BY <1>4, Zenon DEF CorrectReceipt, Enqueue, CancelJobs
  <2>2. /\ receipt'[x] = IF x = s THEN "live" ELSE IF x = r THEN "corrected" ELSE receipt[x]
        /\ receipt[r] = "live" /\ receipt[s] = "absent"
    BY <1>4, Zenon DEF IInv, TypeOK, CorrectReceipt
  <2>3. RowOK(x)
    BY RowsOf
  <2> QED BY <2>1, <2>2, <2>3, RowFields, Zenon DEF Open, RowOK
<1>5. ASSUME NEW r \in Receipts, NEW C \in SUBSET Receipts, DeleteReceipt(r, C)
      PROVE  CompletesNone /\ \A x \in Receipts : Onward(x)
  BY <1>5, RowFields, Zenon DEF DeleteReceipt, CancelJobs, Open, IInv, TypeOK
<1>6. ASSUME NEW r \in Receipts, NEW anchored \in BOOLEAN, NEW C \in SUBSET Receipts,
             CleanupBarrier(r, anchored, C)
      PROVE  CompletesNone /\ \A x \in Receipts : Onward(x)
  <2> SUFFICES ASSUME NEW x \in Receipts
               PROVE  Onward(x) /\ (job'[x].state = "completed" => job[x].state = "completed")
    BY Zenon
  <2>1. \/ x = r /\ job'[x] = NoJob
        \/ job'[x] = IF x \in C /\ Open(job[x]) THEN Failed(job[x]) ELSE job[x]
    BY <1>6, Zenon DEF CleanupBarrier, CancelJobs
  <2>2. receipt' = receipt /\ r \in cleanup
    BY <1>6 DEF CleanupBarrier
  <2>3. RowOK(x)
    BY RowsOf
  <2> QED BY <2>1, <2>2, <2>3, RowFields, Zenon DEF Open, RowOK
<1> QED BY <1>1, <1>2, <1>3, <1>4, <1>5, <1>6, Zenon DEF Governance

(* A claim touches no settled job. *)
LEMMA ReclaimedOnward ==
    ASSUME IInv, NEW x \in Receipts
    PROVE  /\ job[x].state \in {"failed", "completed", "none"} => Reclaimed(x) = job[x]
           /\ Reclaimed(x).state = "completed" => job[x].state = "completed"
  BY RowFields, Zenon DEF Reclaimed, Exhausted, Expired, Due, Open

LEMMA ClaimOnward ==
    ASSUME IInv, NEW w \in Workers, Claim(w)
    PROVE  CompletesNone /\ \A r \in Receipts : Onward(r)
<1> USE DEF Onward, CompletesNone
<1>1. ASSUME NEW r \in Candidates, NEW j, NEW p, StoreClaim(r, j, p), j.state \in {"leased", "failed"}
      PROVE  CompletesNone /\ \A x \in Receipts : Onward(x)
  BY <1>1, ReclaimedOnward, CandidateOK, Zenon DEF StoreClaim
<1>2. ASSUME NEW r \in Receipts, NEW delivered \in BOOLEAN, ClaimLeases(w, r, delivered)
      PROVE  CompletesNone /\ \A x \in Receipts : Onward(x)
  BY <1>1, <1>2, RowFields, Zenon DEF ClaimLeases
<1>3. ASSUME NEW r \in Receipts, ClaimOversized(w, r)
      PROVE  CompletesNone /\ \A x \in Receipts : Onward(x)
  BY <1>1, <1>3, RowFields, Zenon DEF ClaimOversized
<1>4. CASE ClaimReclaims(w)
  BY <1>4, ReclaimedOnward, Zenon DEF ClaimReclaims
<1> QED BY <1>2, <1>3, <1>4, Zenon DEF Claim

LEMMA RestOnward ==
    ASSUME IInv, receipt' = receipt, job' = job
    PROVE  CompletesNone /\ \A r \in Receipts : Onward(r)
  BY DEF Onward, CompletesNone

LEMMA FailOnward ==
    ASSUME IInv, NEW m \in net, FailStewardJob(m)
    PROVE  CompletesNone /\ \A r \in Receipts : Onward(r)
<1>1. m.r \in Receipts /\ receipt' = receipt
  BY MessageFacts, Zenon DEF FailStewardJob
<1>2. CASE ~HoldsLease(m.r, m.tok)
  BY <1>1, <1>2, RestOnward DEF FailStewardJob
<1>3. CASE HoldsLease(m.r, m.tok)
  <2>1. PICK j : job' = [job EXCEPT ![m.r] = j] /\ j.state \in {"failed", "pending"}
    <3>1. \/ job' = [job EXCEPT ![m.r] = Failed(job[m.r])]
          \/ job' = [job EXCEPT ![m.r] = Requeued(job[m.r], StewardRetryDelay(m.seen))]
      BY <1>3, Zenon DEF FailStewardJob
    <3>2. Failed(job[m.r]).state = "failed"
      BY FailedFields, Zenon
    <3>3. Requeued(job[m.r], StewardRetryDelay(m.seen)).state = "pending"
      BY RequeuedFields, Zenon
    <3> QED BY <3>1, <3>2, <3>3
  <2>2. job[m.r].state = "leased"
    BY <1>3 DEF HoldsLease
  <2> QED BY <1>1, <2>1, <2>2, RowsOf, Zenon DEF Onward, CompletesNone, IInv, TypeOK, RowOK, Open
<1> QED BY <1>2, <1>3

(* A proposal that takes effect leaves the rows of every other receipt. *)
LEMMA ApplyOnward ==
    ASSUME IInv, NEW m \in net, m.op = "apply", ApplyCommits(m)
    PROVE  /\ \A r \in Receipts : Onward(r)
           /\ \A s \in Receipts : s # m.r =>
                 job'[s] = job[s] /\ processing'[s] = processing[s] /\ receipt'[s] = receipt[s]
<1>1. /\ m.r \in Receipts /\ receipt' = receipt /\ job[m.r].state = "leased"
      /\ job' = [job EXCEPT ![m.r] = Completed(job[m.r], m.p)]
      /\ processing' = [processing EXCEPT ![m.r] = "organized"]
  BY MessageFacts, Zenon DEF ApplyCommits, HoldsLease
<1> QED BY <1>1, RowsOf, Zenon DEF Onward, IInv, TypeOK, RowOK, Open

LEMMA StepOnward ==
    ASSUME IInv, [Next]_vars
    PROVE  /\ \A r \in Receipts : Onward(r)
           /\ \/ CompletesNone
              \/ \E r \in Receipts : \A s \in Receipts : s # r =>
                    job'[s] = job[s] /\ processing'[s] = processing[s] /\ receipt'[s] = receipt[s]
<1>1. CASE Governance
  BY <1>1, GovernanceOnward, Zenon
<1>2. ASSUME NEW w \in Workers, Claim(w)
      PROVE  CompletesNone /\ \A r \in Receipts : Onward(r)
  BY <1>2, ClaimOnward
<1>3. ASSUME NEW w \in Workers, WorkerStep(w) \/ WorkerCrash(w)
      PROVE  receipt' = receipt /\ job' = job
  BY <1>3 DEF WorkerStep, Generate, GenerateFails, Unanswered, WorkerCrash
<1>4. ASSUME NEW m \in net, ApplyStewardProposal(m), ~ApplyCommits(m)
      PROVE  receipt' = receipt /\ job' = job
  BY <1>4, Zenon DEF ApplyStewardProposal, ApplyRejects, ApplyReplays, ApplyLosesLease
<1>5. ASSUME NEW m \in net, ReportStewardFailure(m) \/ Drop(m)
      PROVE  receipt' = receipt /\ job' = job
  BY <1>5 DEF ReportStewardFailure, Drop
<1>6. ASSUME NEW m \in net, FailStewardJob(m)
      PROVE  CompletesNone /\ \A r \in Receipts : Onward(r)
  BY <1>6, FailOnward
<1>7. CASE Tick
  BY <1>7, RowFields, Zenon DEF Tick, Onward, CompletesNone
<1>8. CASE UNCHANGED vars
  BY <1>8, RestOnward DEF vars
<1>9. ASSUME NEW m \in net, m.op = "apply", ApplyCommits(m)
      PROVE  /\ \A r \in Receipts : Onward(r)
             /\ \E r \in Receipts : \A s \in Receipts : s # r =>
                   job'[s] = job[s] /\ processing'[s] = processing[s] /\ receipt'[s] = receipt[s]
  BY <1>9, ApplyOnward, MessageFacts
<1> QED
  BY <1>1, <1>2, <1>3, <1>4, <1>5, <1>6, <1>7, <1>8, <1>9, RestOnward, Zenon
     DEF Next, Deliver, ApplyStewardProposal

(* What the rows of a receipt say of its verdict. *)
RowVerdict(r) ==
    /\ receipt[r] \in {"absent", "live", "corrected", "deleted"}
    /\ job[r].state \in JobStates
    /\ receipt[r] = "absent" => Verdict(r) = "absent"
    /\ receipt[r] = "deleted" => Verdict(r) = "forgotten"
    /\ receipt[r] \in {"live", "corrected"} =>
          /\ job[r].state \in {"none", "pending", "leased"} => Verdict(r) = "open"
          /\ job[r].state = "completed" =>
                Verdict(r) = job[r].digest /\ job[r].digest \in Proposals
          /\ job[r].state = "failed" => Verdict(r) = "failed"
    /\ Verdict(r) \in Promise!Verdicts

LEMMA VerdictOfRow == IInv => \A r \in Receipts : RowVerdict(r)
<1> SUFFICES ASSUME IInv, NEW r \in Receipts PROVE RowVerdict(r)
  OBVIOUS
<1>1. /\ RowOK(r) /\ job[r] \in JobRow
      /\ receipt[r] \in {"absent", "live", "corrected", "deleted"}
  BY RowsOf
<1>2. job[r].state \in JobStates
  BY <1>1 DEF JobRow
<1> QED BY <1>1, <1>2 DEF RowVerdict, RowOK, Verdict, JobStates, Promise!Verdicts

(* The verdict of one receipt moves as Settlement allows, and to a proposal *)
(* only if the step completes a job.                                        *)
LEMMA VerdictMoves ==
    ASSUME NEW r \in Receipts, RowVerdict(r), RowVerdict(r)', Onward(r),
           Verdict(r)' # Verdict(r)
    PROVE  /\ Promise!Move(Verdict(r), Verdict(r)')
           /\ Verdict(r) = "open" /\ Verdict(r)' \in Proposals =>
                 job'[r].state = "completed" /\ job[r].state # "completed"
<1>1. CASE receipt[r] = "absent"
  BY <1>1, ProposalsAssumption, Zenon DEF RowVerdict, Onward, Promise!Move
<1>2. CASE receipt[r] = "deleted"
  BY <1>2, Zenon DEF RowVerdict, Onward
<1>3. CASE receipt[r] \in {"live", "corrected"} /\ receipt'[r] = "deleted"
  BY <1>3, ProposalsAssumption, Zenon DEF RowVerdict, Promise!Move, JobStates
<1>4. CASE receipt[r] \in {"live", "corrected"} /\ receipt'[r] \in {"live", "corrected"}
  BY <1>4, ProposalsAssumption, Zenon DEF RowVerdict, Onward, Promise!Move, JobStates
<1> QED BY <1>1, <1>2, <1>3, <1>4, Zenon DEF RowVerdict, Onward

LEMMA PromiseInit == Init => Promise!Init
  BY DEF Init, Promise!Init, Verdict

LEMMA PromiseNext ==
    IInv /\ IInv' /\ [Next]_vars => [Promise!Next]_([r \in Receipts |-> Verdict(r)])
<1> SUFFICES ASSUME IInv, IInv', [Next]_vars PROVE Promise!Next
  OBVIOUS
<1>1. \A r \in Receipts : RowVerdict(r)
  BY VerdictOfRow
<1>2. (\A r \in Receipts : RowVerdict(r))'
  BY VerdictOfRow, PTL
<1>3. \A r \in Receipts : Onward(r)
  BY StepOnward
<1>4. \A r \in Receipts : Verdict(r)' \in Promise!Verdicts
  BY <1>2 DEF RowVerdict, Promise!Verdicts
<1>5. \A r \in Receipts : Verdict(r)' # Verdict(r) => Promise!Move(Verdict(r), Verdict(r)')
  BY <1>1, <1>2, <1>3, VerdictMoves
<1>6. ASSUME NEW r \in Receipts, NEW s \in Receipts, Verdict(r) = "open",
             Verdict(r)' \in Proposals, Verdict(s)' # Verdict(s)
      PROVE  r = s
  <2>1. Verdict(r)' # Verdict(r)
    BY <1>6, ProposalsAssumption
  <2>2. job'[r].state = "completed" /\ job[r].state # "completed"
    BY <1>1, <1>2, <1>3, <1>6, <2>1, VerdictMoves, Zenon
  <2>3. PICK x \in Receipts : \A y \in Receipts : y # x =>
           job'[y] = job[y] /\ processing'[y] = processing[y] /\ receipt'[y] = receipt[y]
    BY <2>2, StepOnward DEF CompletesNone
  <2>4. r = x
    BY <2>2, <2>3
  <2>5. s = x
    BY <1>6, <2>3 DEF Verdict
  <2> QED BY <2>4, <2>5
<1> QED BY <1>4, <1>5, <1>6 DEF Promise!Next

(* The queue keeps the owner's promise: a verdict is reached once, by one   *)
(* proposal at a time, and only a deletion ends it.                         *)
THEOREM PromiseKept == Spec => KeepsPromise
  BY Invariance, PromiseInit, PromiseNext, PTL DEF Spec, KeepsPromise, Promise!Spec
=============================================================================

---------------------------- MODULE StewardJobs ----------------------------
(***************************************************************************)
(* The durable Steward job queue of one Space: internal/appliance/         *)
(* steward_jobs.go, steward.go and steward_profile.go on the appliance     *)
(* side, the governance cancellations of governance.go and                 *)
(* governance_processing.go, and the Runner loop of                        *)
(* sdk/go/memory/stewardworker/client.go on the worker side.               *)
(*                                                                         *)
(* Every handler is one SQLite transaction begun IMMEDIATE, so it is one   *)
(* action.  What interleaves is everything around it: workers that hold a  *)
(* lease while a model runs, requests that are late, lost or repeated,     *)
(* leases that run out, and the owner correcting, deleting or disabling.   *)
(*                                                                         *)
(* A job is identified by its receipt (job_id is a digest of receipt_id).  *)
(* Schedule fields are countdowns: lease_expires_at <= now is lease = 0,   *)
(* available_at <= now is delay = 0, and Tick lets one second pass.        *)
(* A lease token is random and fresh at each claim; each claim of a job    *)
(* also raises its attempts, so the attempt number stands for the token    *)
(* and 0 for the empty token digest.                                       *)
(***************************************************************************)
EXTENDS Integers, FiniteSets

CONSTANTS
    Receipts,      \* receipt identities
    Workers,       \* worker processes
    Proposals,     \* canonical proposals a model may return
    MaxAttempts,   \* maxStewardAttempts
    LeaseTicks,    \* lease duration in seconds
    None           \* no receipt, no proposal

ASSUME BoundsAssumption == MaxAttempts \in Nat \ {0} /\ LeaseTicks \in Nat \ {0}
ASSUME NoneAssumption == None \notin Receipts /\ None \notin Proposals
(* A proposal is no verdict of another kind. *)
ASSUME ProposalsAssumption ==
    \A p \in Proposals : p \notin {"absent", "open", "failed", "forgotten"}

VARIABLES
    receipt,       \* receipts, receipt_corrections and receipt_tombstones
    bound,         \* the Space has a row in space_steward_bindings
    job,           \* steward_jobs
    processing,    \* receipt_processing.state, "none" without a row
    cleanup,       \* receipts whose deletion barrier is pending
    worker,        \* the control state of every Runner
    net,           \* requests sent and not yet handled
    applications,  \* history: how often a proposal was applied for the receipt
    effects,       \* history: the proposals that were applied
    acked          \* history: proposals a worker was told were applied

vars == <<receipt, bound, job, processing, cleanup, worker, net, applications, effects, acked>>

JobStates == {"none", "pending", "leased", "completed", "failed"}
ProcessingStates == {"none", "accepted", "processing", "organized", "failed"}

JobRow == [state : JobStates, attempts : 0..MaxAttempts, token : 0..MaxAttempts,
           lease : 0..LeaseTicks, delay : Nat, digest : Proposals \union {None}]
NoJob == [state |-> "none", attempts |-> 0, token |-> 0,
          lease |-> 0, delay |-> 0, digest |-> None]
Runner == [phase : {"idle", "generating", "applying", "failing"},
           r : Receipts \union {None}, tok : 0..MaxAttempts,
           p : Proposals \union {None}, n : 0..2]
Idle == [phase |-> "idle", r |-> None, tok |-> 0, p |-> None, n |-> 0]

Message == [op : {"apply", "fail", "failtx"}, from : Workers, r : Receipts,
            tok : 1..MaxAttempts, p : Proposals \union {None}, n : 0..2,
            retryable : BOOLEAN, seen : 0..MaxAttempts]
Effect == [r : Receipts, tok : 1..MaxAttempts, p : Proposals]

(***************************************************************************)
(* Shapes of the stored state: the rows hold what the schema allows, no    *)
(* job is claimed more often than maxStewardAttempts, and history and      *)
(* messages speak of real leases.                                          *)
(***************************************************************************)
TypeOK ==
    /\ receipt \in [Receipts -> {"absent", "live", "corrected", "deleted"}]
    /\ bound \in BOOLEAN
    /\ job \in [Receipts -> JobRow]
    /\ processing \in [Receipts -> ProcessingStates]
    /\ cleanup \in SUBSET Receipts
    /\ worker \in [Workers -> Runner]
    /\ net \in SUBSET Message
    /\ applications \in [Receipts -> Nat]
    /\ effects \in SUBSET Effect
    /\ acked \in SUBSET Effect

Init ==
    /\ receipt = [r \in Receipts |-> "absent"]
    /\ bound = FALSE
    /\ job = [r \in Receipts |-> NoJob]
    /\ processing = [r \in Receipts |-> "none"]
    /\ cleanup = {}
    /\ worker = [w \in Workers |-> Idle]
    /\ net = {}
    /\ applications = [r \in Receipts |-> 0]
    /\ effects = {}
    /\ acked = {}

-----------------------------------------------------------------------------
(* Accepting receipts and binding the Space *)

NewJob == [state |-> "pending", attempts |-> 0, token |-> 0,
           lease |-> 0, delay |-> 0, digest |-> None]

(* Insert receipt r: processing starts accepted, and a job is queued in the *)
(* same transaction when a profile is bound.                                *)
Enqueue(r, jobs) == IF bound THEN [jobs EXCEPT ![r] = NewJob] ELSE jobs

Remember(r) ==
    /\ receipt[r] = "absent"
    /\ receipt' = [receipt EXCEPT ![r] = "live"]
    /\ processing' = [processing EXCEPT ![r] = "accepted"]
    /\ job' = Enqueue(r, job)
    /\ UNCHANGED <<bound, cleanup, worker, net, applications, effects, acked>>

BindStewardProfile ==
    /\ ~bound
    /\ bound' = TRUE
    /\ UNCHANGED <<receipt, job, processing, cleanup, worker, net, applications, effects, acked>>

-----------------------------------------------------------------------------
(* Cancelling jobs: both state machines settle in the same transaction *)

Open(j) == j.state \in {"pending", "leased"}

(* available_at of a settled job is never read again. *)
Failed(j) == [state |-> "failed", attempts |-> j.attempts, token |-> 0,
              lease |-> 0, delay |-> 0, digest |-> j.digest]

(* Back in the queue, to be leased again after delay seconds. *)
Requeued(j, delay) == [state |-> "pending", attempts |-> j.attempts, token |-> 0,
                       lease |-> 0, delay |-> delay, digest |-> j.digest]

CancelJobs(C) ==
    [r \in Receipts |-> IF r \in C /\ Open(job[r]) THEN Failed(job[r]) ELSE job[r]]

(* Mutant: receipt_processing is not settled with the job. *)
CancelProcessingForgotten(C) == processing

CancelProcessing(C) ==
    [r \in Receipts |->
        IF r \in C /\ Open(job[r]) /\ processing[r] \in {"accepted", "processing"}
        THEN "failed" ELSE processing[r]]

DisableSteward ==
    /\ bound' = FALSE
    /\ job' = CancelJobs(Receipts)
    /\ processing' = CancelProcessing(Receipts)
    /\ UNCHANGED <<receipt, cleanup, worker, net, applications, effects, acked>>

(* Correct r by the new receipt s.  C stands for the jobs of the forgetting *)
(* closure, which module Forgetting computes.                               *)
CorrectReceipt(r, s, C) ==
    /\ receipt[r] = "live"
    /\ receipt[s] = "absent"
    /\ receipt' = [receipt EXCEPT ![r] = "corrected", ![s] = "live"]
    /\ job' = Enqueue(s, CancelJobs(C \union {r}))
    /\ processing' = [CancelProcessing(C \union {r}) EXCEPT ![s] = "accepted"]
    /\ UNCHANGED <<bound, cleanup, worker, net, applications, effects, acked>>

(* Mutant: only the jobs of other receipts are cancelled. *)
DeleteReceiptKeepsOwnJob(r, C) ==
    /\ receipt[r] \in {"live", "corrected"}
    /\ receipt' = [receipt EXCEPT ![r] = "deleted"]
    /\ job' = CancelJobs(C \ {r})
    /\ processing' = [CancelProcessing(C) EXCEPT ![r] = "none"]
    /\ cleanup' = cleanup \union {r}
    /\ UNCHANGED <<bound, worker, net, applications, effects, acked>>

(* The barrier transaction of a deletion. *)
DeleteReceipt(r, C) ==
    /\ receipt[r] \in {"live", "corrected"}
    /\ receipt' = [receipt EXCEPT ![r] = "deleted"]
    /\ job' = CancelJobs(C \union {r})
    /\ processing' = [CancelProcessing(C \union {r}) EXCEPT ![r] = "none"]
    /\ cleanup' = cleanup \union {r}
    /\ UNCHANGED <<bound, worker, net, applications, effects, acked>>

(* The cleansing transaction: it removes the job unless a Revision still    *)
(* names it, which only a completed job can have, and settles the open jobs *)
(* C that read a forgotten Record.                                          *)
CleanupBarrier(r, anchored, C) ==
    /\ r \in cleanup
    /\ anchored => job[r].state = "completed"
    /\ job' = IF anchored THEN CancelJobs(C)
                          ELSE [CancelJobs(C) EXCEPT ![r] = NoJob]
    /\ processing' = CancelProcessing(C)
    /\ cleanup' = cleanup \ {r}
    /\ UNCHANGED <<receipt, bound, worker, net, applications, effects, acked>>

-----------------------------------------------------------------------------
(* Claim *)

(* Mutant: the reclaim takes failed jobs too. *)
ExpiredOrFailed(j) == j.state \in {"leased", "failed"} /\ j.lease = 0

Expired(j) == j.state = "leased" /\ j.lease = 0
Due(j) == j.state = "pending" /\ j.delay = 0
Forgotten(r) == receipt[r] = "deleted"

(* Mutant: the test overlooks expired leases. *)
AvailableDueOnly == \E r \in Receipts : ~Forgotten(r) /\ Due(job[r])

(* The unlocked-read test that precedes the claim transaction. *)
Available == \E r \in Receipts : ~Forgotten(r) /\ (Due(job[r]) \/ Expired(job[r]))

Exhausted(j) == j.attempts >= MaxAttempts /\ (Expired(j) \/ Due(j))

(* Housekeeping at the head of the claim transaction, for one job. *)
Reclaimed(r) ==
    LET j == job[r] IN
    IF Exhausted(j) \/ (Open(j) /\ Forgotten(r)) THEN Failed(j)
    ELSE IF Expired(j) THEN Requeued(j, 0)
    ELSE j

ReclaimedProcessing(r) ==
    IF processing[r] = "none" THEN "none"
    ELSE IF Open(job[r]) /\ Reclaimed(r).state = "failed" THEN "failed"
    ELSE IF Reclaimed(r).state = "pending" THEN "accepted"
    ELSE processing[r]

(* created_at is compared as trimmed text, whose order is not the order of  *)
(* time (module StoredTime): any due job may be the first.                  *)
Candidates ==
    {r \in Receipts : Due(Reclaimed(r)) /\ Reclaimed(r).attempts < MaxAttempts
                                        /\ ~Forgotten(r)}

Leased(j) == [state |-> "leased", attempts |-> j.attempts + 1, token |-> j.attempts + 1,
              lease |-> LeaseTicks, delay |-> j.delay, digest |-> j.digest]

StoreClaim(r, j, p) ==
    /\ job' = [x \in Receipts |-> IF x = r THEN j ELSE Reclaimed(x)]
    /\ processing' = [x \in Receipts |-> IF x = r THEN p ELSE ReclaimedProcessing(x)]
    /\ UNCHANGED <<receipt, bound, cleanup, net, applications, effects, acked>>

(* The response reaches the worker, or it is lost and the lease is orphaned. *)
ClaimLeases(w, r, delivered) ==
    /\ r \in Candidates
    /\ StoreClaim(r, Leased(Reclaimed(r)), "processing")
    /\ worker' = IF delivered
                 THEN [worker EXCEPT ![w] = [phase |-> "generating", r |-> r,
                                tok |-> job[r].attempts + 1, p |-> None, n |-> 0]]
                 ELSE worker

(* The request for r cannot be cut down to the profile's input budget. *)
ClaimOversized(w, r) ==
    /\ r \in Candidates
    /\ StoreClaim(r, Failed(Leased(Reclaimed(r))), "failed")
    /\ UNCHANGED worker

(* Nothing to lease: the housekeeping alone is committed. *)
ClaimReclaims(w) ==
    /\ Candidates = {}
    /\ job' = [x \in Receipts |-> Reclaimed(x)]
    /\ processing' = [x \in Receipts |-> ReclaimedProcessing(x)]
    /\ UNCHANGED <<receipt, bound, cleanup, worker, net, applications, effects, acked>>

Claim(w) ==
    /\ worker[w].phase = "idle"
    /\ Available
    /\ \/ \E r \in Receipts, delivered \in BOOLEAN : ClaimLeases(w, r, delivered)
       \/ \E r \in Receipts : ClaimOversized(w, r)
       \/ ClaimReclaims(w)

-----------------------------------------------------------------------------
(* The worker loop *)

ApplyMsg(w, p, n) ==
    [op |-> "apply", from |-> w, r |-> worker[w].r, tok |-> worker[w].tok,
     p |-> p, n |-> n, retryable |-> FALSE, seen |-> 0]
FailMsg(w, retryable) ==
    [op |-> "fail", from |-> w, r |-> worker[w].r, tok |-> worker[w].tok,
     p |-> None, n |-> 0, retryable |-> retryable, seen |-> 0]

(* The worker, having sent request n for its lease, waits for the reply. *)
Waiting(w, phase, p, n) ==
    [phase |-> phase, r |-> worker[w].r, tok |-> worker[w].tok, p |-> p, n |-> n]

(* The model answered with a proposal that parses. *)
Generate(w, p) ==
    /\ worker[w].phase = "generating"
    /\ worker' = [worker EXCEPT ![w] = Waiting(w, "applying", p, 1)]
    /\ net' = net \union {ApplyMsg(w, p, 1)}
    /\ UNCHANGED <<receipt, bound, job, processing, cleanup, applications, effects, acked>>

(* The model failed (retryable or not), or its output cannot be used. *)
GenerateFails(w, retryable) ==
    /\ worker[w].phase = "generating"
    /\ worker' = [worker EXCEPT ![w] = Waiting(w, "failing", None, 0)]
    /\ net' = net \union {FailMsg(w, retryable)}
    /\ UNCHANGED <<receipt, bound, job, processing, cleanup, applications, effects, acked>>

(* No reply: an unknown Apply outcome is retried once with identical input; *)
(* a second one, or a lost Fail, is left to lease expiry.                   *)
Unanswered(w) ==
    /\ worker[w].phase \in {"applying", "failing"}
    /\ IF worker[w].phase = "applying" /\ worker[w].n = 1
       THEN /\ worker' = [worker EXCEPT ![w] = Waiting(w, "applying", worker[w].p, 2)]
            /\ net' = net \union {ApplyMsg(w, worker[w].p, 2)}
       ELSE /\ worker' = [worker EXCEPT ![w] = Idle]
            /\ UNCHANGED net
    /\ UNCHANGED <<receipt, bound, job, processing, cleanup, applications, effects, acked>>

(* The worker process stops and starts over. *)
WorkerCrash(w) ==
    /\ worker[w].phase # "idle"
    /\ worker' = [worker EXCEPT ![w] = Idle]
    /\ UNCHANGED <<receipt, bound, job, processing, cleanup, net, applications, effects, acked>>

(* A request is lost, or its transaction rolls back. *)
Drop(m) ==
    /\ net' = net \ {m}
    /\ UNCHANGED <<receipt, bound, job, processing, cleanup, worker, applications, effects, acked>>

-----------------------------------------------------------------------------
(* ApplyStewardProposal *)

(* Mutants: the lease that completed a job may apply again; any live lease  *)
(* will do.                                                                 *)
HoldsLeaseAgain(r, tok) ==
    /\ job[r].token = tok
    /\ job[r].state = "completed" \/ (job[r].state = "leased" /\ job[r].lease > 0)
HoldsLeaseAnyToken(r, tok) == job[r].state = "leased" /\ job[r].lease > 0

(* The caller holds the current, unexpired lease. *)
HoldsLease(r, tok) ==
    job[r].state = "leased" /\ job[r].token = tok /\ job[r].lease > 0

(* The worker still waits for this very request. *)
Awaits(m) ==
    LET s == worker[m.from] IN
    /\ s.r = m.r /\ s.tok = m.tok
    /\ IF m.op = "apply" THEN s.phase = "applying" /\ s.n = m.n ELSE s.phase = "failing"

EffectOf(m) == [r |-> m.r, tok |-> m.tok, p |-> m.p]

(* The Runner on the reply to Apply: done on success, Fail otherwise.  A    *)
(* lost lease is reported with the same Conflict code as a stale context.   *)
ReplyOk(m) ==
    /\ worker' = IF Awaits(m) THEN [worker EXCEPT ![m.from] = Idle] ELSE worker
    /\ acked' = IF Awaits(m) THEN acked \union {EffectOf(m)} ELSE acked
    /\ net' = net \ {m}

ReplyRefused(m, retryable) ==
    /\ worker' = IF Awaits(m) THEN [worker EXCEPT ![m.from] =
                                                       Waiting(m.from, "failing", None, 0)]
                              ELSE worker
    /\ net' = (net \ {m}) \union
              (IF Awaits(m) THEN {FailMsg(m.from, retryable)} ELSE {})
    /\ UNCHANGED acked

Completed(j, p) == [state |-> "completed", attempts |-> j.attempts, token |-> j.token,
                    lease |-> 0, delay |-> 0, digest |-> p]

ApplyCommits(m) ==
    /\ HoldsLease(m.r, m.tok) /\ ~Forgotten(m.r)
    /\ job' = [job EXCEPT ![m.r] = Completed(job[m.r], m.p)]
    /\ processing' = [processing EXCEPT ![m.r] = "organized"]
    /\ applications' = [applications EXCEPT ![m.r] = @ + 1]
    /\ effects' = effects \union {EffectOf(m)}
    /\ ReplyOk(m)
    /\ UNCHANGED <<receipt, bound, cleanup>>

(* The lease is good but the read set drifted (retryable) or the proposal   *)
(* is invalid; module Forgetting says when.                                 *)
ApplyRejects(m, retryable) ==
    /\ HoldsLease(m.r, m.tok)
    /\ ReplyRefused(m, retryable)
    /\ UNCHANGED <<receipt, bound, job, processing, cleanup, applications, effects>>

(* Mutant: a completed job answers anyone. *)
ReplaysAnyone(m) == job[m.r].state = "completed"

(* A completed job answers the same lease and proposal with its result. *)
Replays(m) == job[m.r].state = "completed" /\ job[m.r].token = m.tok
                                           /\ job[m.r].digest = m.p

ApplyReplays(m) ==
    /\ Replays(m)
    /\ ReplyOk(m)
    /\ UNCHANGED <<receipt, bound, job, processing, cleanup, applications, effects>>

ApplyLosesLease(m) ==
    /\ ~Replays(m)
    /\ ~HoldsLease(m.r, m.tok) \/ Forgotten(m.r)
    /\ ReplyRefused(m, TRUE)
    /\ UNCHANGED <<receipt, bound, job, processing, cleanup, applications, effects>>

ApplyStewardProposal(m) ==
    /\ m.op = "apply"
    /\ \/ ApplyCommits(m)
       \/ \E retryable \in BOOLEAN : ApplyRejects(m, retryable)
       \/ ApplyReplays(m)
       \/ ApplyLosesLease(m)

-----------------------------------------------------------------------------
(* ReportStewardFailure: attempts are read first, outside the lock and the  *)
(* transaction in which FailStewardJob then acts on them.                   *)

ReplyFail(m) ==
    worker' = IF Awaits(m) THEN [worker EXCEPT ![m.from] = Idle] ELSE worker

ReportStewardFailure(m) ==
    /\ m.op = "fail"
    /\ IF job[m.r].state = "none"
       THEN ReplyFail(m) /\ net' = net \ {m}
       ELSE /\ net' = (net \ {m}) \union
                      {[op |-> "failtx", from |-> m.from, r |-> m.r, tok |-> m.tok,
                        p |-> m.p, n |-> m.n, retryable |-> m.retryable,
                        seen |-> job[m.r].attempts]}
            /\ UNCHANGED worker
    /\ UNCHANGED <<receipt, bound, job, processing, cleanup, applications, effects, acked>>

(* Mutant: off by one at the ceiling. *)
TerminalLate(m) == ~m.retryable \/ m.seen > MaxAttempts

Terminal(m) == ~m.retryable \/ m.seen >= MaxAttempts

(* One second, doubled for each earlier attempt, with the shift capped. *)
StewardRetryDelay(attempts) ==
    LET shift == IF attempts < 1 THEN 0 ELSE IF attempts > 12 THEN 11 ELSE attempts - 1
    IN  <<1, 2, 4, 8, 16, 32, 64, 128, 256, 512, 1024, 2048>>[shift + 1]

FailStewardJob(m) ==
    /\ m.op = "failtx"
    /\ IF ~HoldsLease(m.r, m.tok) THEN UNCHANGED <<job, processing>>
       ELSE IF Terminal(m)
       THEN /\ job' = [job EXCEPT ![m.r] = Failed(job[m.r])]
            /\ processing' = [processing EXCEPT ![m.r] = "failed"]
       ELSE /\ job' = [job EXCEPT ![m.r] = Requeued(job[m.r], StewardRetryDelay(m.seen))]
            /\ processing' = [processing EXCEPT ![m.r] = "accepted"]
    /\ ReplyFail(m)
    /\ net' = net \ {m}
    /\ UNCHANGED <<receipt, bound, cleanup, applications, effects, acked>>

-----------------------------------------------------------------------------
Countdown(n) == IF n > 0 THEN n - 1 ELSE 0

Later(j) == [state |-> j.state, attempts |-> j.attempts, token |-> j.token,
             lease |-> Countdown(j.lease), delay |-> Countdown(j.delay),
             digest |-> j.digest]

(* One second passes for the leases and the retry delays that still count. *)
Tick ==
    /\ \E r \in Receipts : job[r].lease > 0 \/ job[r].delay > 0
    /\ job' = [r \in Receipts |-> Later(job[r])]
    /\ UNCHANGED <<receipt, bound, processing, cleanup, worker, net, applications, effects, acked>>

Governance ==
    \/ \E r \in Receipts : Remember(r)
    \/ BindStewardProfile
    \/ DisableSteward
    \/ \E r, s \in Receipts, C \in SUBSET Receipts : CorrectReceipt(r, s, C)
    \/ \E r \in Receipts, C \in SUBSET Receipts : DeleteReceipt(r, C)
    \/ \E r \in Receipts, anchored \in BOOLEAN, C \in SUBSET Receipts :
          CleanupBarrier(r, anchored, C)

WorkerStep(w) ==
    \/ \E p \in Proposals : Generate(w, p)
    \/ \E retryable \in BOOLEAN : GenerateFails(w, retryable)
    \/ Unanswered(w)

Deliver(m) == ApplyStewardProposal(m) \/ ReportStewardFailure(m) \/ FailStewardJob(m)

Next ==
    \/ Governance
    \/ \E w \in Workers : Claim(w) \/ WorkerStep(w) \/ WorkerCrash(w)
    \/ \E m \in net : Deliver(m) \/ Drop(m)
    \/ Tick

Spec == Init /\ [][Next]_vars

(***************************************************************************)
(* Time passes, and worker w keeps polling: its model call returns, and    *)
(* its requests are answered or fail.  Nothing is asked of the other       *)
(* workers, of the network, or of the owner.                               *)
(***************************************************************************)
AnsweredStep(w) == WorkerStep(w) \/ \E m \in net : m.from = w /\ Awaits(m) /\ Deliver(m)

Fairness(w) == WF_vars(Tick) /\ WF_vars(Claim(w)) /\ WF_vars(AnsweredStep(w))

-----------------------------------------------------------------------------
(* The receipt status an owner polls (GetReceiptStatus) always says what    *)
(* the job is doing: claim, retry, expiry, apply, disable, correction and   *)
(* deletion each move both rows together.  A deletion settles both: nothing *)
(* is left that a claim could hand to a worker.                             *)
StatusMirrorsJob ==
    \A r \in Receipts :
        /\ receipt[r] \in {"live", "corrected"} =>
              processing[r] = CASE job[r].state = "none" -> "accepted"
                                [] job[r].state = "pending" -> "accepted"
                                [] job[r].state = "leased" -> "processing"
                                [] job[r].state = "completed" -> "organized"
                                [] job[r].state = "failed" -> "failed"
        /\ receipt[r] = "deleted" => ~Open(job[r]) /\ processing[r] = "none"

(* However often Apply is retried, delayed or repeated, with identical input *)
(* under one lease or by workers holding successive leases, the operations   *)
(* of a proposal are carried out at most once for a job.                     *)
AppliedOnce == \A r \in Receipts : applications[r] <= 1

(* A proposal takes effect only under the last lease the job was given, and *)
(* the stored digest and token are those of that proposal.                  *)
CompletedByLastLease ==
    \A r \in Receipts : job[r].state = "completed" =>
        /\ job[r].token = job[r].attempts
        /\ [r |-> r, tok |-> job[r].attempts, p |-> job[r].digest] \in effects

(* A worker is told success only for the very proposal that took effect.    *)
AckedIsApplied == acked \subseteq effects

(* The retry ceiling holds although ReportStewardFailure decides on a value *)
(* of attempts it read before taking the lock: no job waits for a lease     *)
(* it may not be given.                                                     *)
PendingBelowCeiling ==
    \A r \in Receipts : job[r].state = "pending" => job[r].attempts < MaxAttempts

(* What GetReceiptStatus lets the owner of r conclude. *)
Verdict(r) ==
    CASE receipt[r] = "absent" -> "absent"
      [] receipt[r] = "deleted" -> "forgotten"
      [] processing[r] \in {"accepted", "processing"} -> "open"
      [] processing[r] = "organized" -> job[r].digest
      [] OTHER -> "failed"

(* The queue implements the owner's promise: whatever is retried, expired,  *)
(* cancelled or delayed, a reported verdict is reached once and is final.   *)
Promise == INSTANCE Settlement WITH verdict <- [r \in Receipts |-> Verdict(r)]
KeepsPromise == Promise!Spec

(* Every queued job is settled in the end, with one live worker, whatever   *)
(* the others and the network do: leases expire and attempts run out.       *)
JobsSettle == \A r \in Receipts : Open(job[r]) ~> ~Open(job[r])
=============================================================================

----------------------------- MODULE Forgetting -----------------------------
(***************************************************************************)
(* Governed forgetting in one Space and LabelSet: governance.go,           *)
(* governance_cleanup.go, and the parts of steward.go, steward_context.go, *)
(* steward_jobs.go and facts_lifecycle.go that derive Records from         *)
(* receipts and from other Records.                                        *)
(*                                                                         *)
(* Deleting a receipt takes two transactions.  The first computes which    *)
(* Records and jobs derive from the receipt, names them under a durable    *)
(* barrier, invalidates them and cancels their jobs.  The second erases    *)
(* their contents; a crash may come between, and Open resumes it.          *)
(*                                                                         *)
(* Text is abstracted to where it comes from: the receipts whose contents  *)
(* a Revision may repeat are its history field taint.  What a worker was   *)
(* shown is the history variable shown.  No action reads either.           *)
(***************************************************************************)
EXTENDS Integers, Sequences, FiniteSets

CONSTANTS
    Receipts, Records,
    MaxAttempts,       \* maxStewardAttempts
    MaxRevisions,      \* bound: Revisions of one Record
    MaxContext,        \* MaxContextRecords of the profile
    MaxOps,            \* MaxProposalOps
    MaxCrashes,        \* bound: crashes of the appliance
    MaxLegacy,         \* bound: receipts organized before read sets were kept
    None

ASSUME ForgettingAssumption ==
    /\ {MaxAttempts, MaxRevisions, MaxContext, MaxOps, MaxCrashes, MaxLegacy} \subseteq Nat
    /\ None \notin Receipts \union Records

VARIABLES
    receipt,     \* receipts, receipt_corrections and receipt_tombstones
    sourced,     \* receipts with an unsuppressed host Source
    job,         \* steward_jobs, by receipt
    shown,       \* history: <<record, revision>> the current lease was shown
    readSet,     \* steward_read_set: [job, attempt, record, revision, receipt]
    status,      \* semantic_records.status, "absent" without a row
    revs,        \* semantic_revisions with their semantic_evidence:
                 \*   [job, evidence, payload, fact, related], and the
                 \*   history taint: the receipts its text stems from
    legacy,      \* Records in governance_legacy_revisions
    barriers,    \* forgetting_barriers, with forgetting_barrier_records:
                 \*   [kind, receipt, records, status]
    phase,       \* of the appliance process
    handlers,    \* barriers whose request handler still has to clean up
    crashes

vars == <<receipt, sourced, job, shown, readSet, status, revs, barriers,
          phase, handlers, crashes, legacy>>

Adoption == {"none", "pending", "confirmed", "denied"}   \* "none": no fact_json

Deleted == {r \in Receipts : receipt[r] = "deleted"}
Stale == {r \in Receipts : receipt[r] \in {"deleted", "corrected"}}
HeadOf(x) == revs[x][Len(revs[x])]

(* A legacy Revision cites its job's receipt and perhaps others; its text   *)
(* may stem from any receipt a Record of the partition then cited.          *)
LegacyRevision(j, E, taint) ==
    [job |-> j, evidence |-> E, payload |-> TRUE, fact |-> "none", related |-> None,
     taint |-> taint]

(* The store is new, or an older version has organized receipts L.          *)
Init ==
    /\ \E L \in SUBSET Receipts :
          /\ Cardinality(L) <= MaxLegacy
          /\ legacy \in SUBSET Records /\ (legacy = {} <=> L = {})
          /\ receipt = [r \in Receipts |-> IF r \in L THEN "live" ELSE "absent"]
          /\ job = [r \in Receipts |-> IF r \in L THEN [state |-> "completed", attempts |-> 1]
                                       ELSE [state |-> "none", attempts |-> 0]]
          /\ \E by \in [legacy -> L], ev \in [legacy -> SUBSET L] :
                LET known == UNION {ev[x] : x \in legacy} IN
                /\ \A x \in legacy : by[x] \in ev[x]
                /\ revs = [x \in Records |-> IF x \in legacy
                                             THEN <<LegacyRevision(by[x], ev[x], known)>> ELSE <<>>]
    /\ sourced = {}
    /\ shown = [r \in Receipts |-> {}]
    /\ readSet = {}
    /\ status = [x \in Records |-> IF x \in legacy THEN "active" ELSE "absent"]
    /\ barriers = <<>>
    /\ phase = "serving"
    /\ handlers = {}
    /\ crashes = 0

-----------------------------------------------------------------------------
(* Accepting evidence *)

Open(j) == j.state \in {"pending", "leased"}
Queued == [state |-> "pending", attempts |-> 0]

(* Remember, or SubmitEvidence without mutations (which stores a Source):   *)
(* the receipt is queued for the Steward.  The Space has a profile bound.   *)
Accept(r, hostSource) ==
    /\ phase = "serving" /\ receipt[r] = "absent"
    /\ receipt' = [receipt EXCEPT ![r] = "live"]
    /\ sourced' = IF hostSource THEN sourced \union {r} ELSE sourced
    /\ job' = [job EXCEPT ![r] = Queued]
    /\ UNCHANGED <<shown, readSet, status, revs, barriers, phase, handlers, crashes, legacy>>

FactRevision(adoption, E, related, taint) ==
    [job |-> None, evidence |-> E, payload |-> TRUE, fact |-> adoption,
     related |-> related, taint |-> taint]

(* SubmitEvidence with a mutation that appends Revision v to Record x.      *)
SubmitFact(r, x, v) ==
    /\ phase = "serving" /\ receipt[r] = "absent" /\ Len(revs[x]) < MaxRevisions
    /\ receipt' = [receipt EXCEPT ![r] = "live"]
    /\ sourced' = sourced \union {r}
    /\ revs' = [revs EXCEPT ![x] = Append(@, v)]
    /\ status' = [status EXCEPT ![x] = IF v.fact = "denied" THEN "invalidated" ELSE "active"]
    /\ UNCHANGED <<job, shown, readSet, barriers, phase, handlers, crashes, legacy>>

(* The Source's role decides whether a new fact is pending or confirmed;    *)
(* every later edit needs the confirmation role.                            *)
EstablishFact(r, x, adoption) ==
    /\ status[x] = "absent" /\ adoption \in {"pending", "confirmed"}
    /\ SubmitFact(r, x, FactRevision(adoption, {r}, None, {r}))

(* An exception to fact y is a Record of its own that names y. *)
ExceptFact(r, x, y) ==
    /\ status[x] = "absent"
    /\ status[y] = "active" /\ HeadOf(y).fact = "confirmed" /\ HeadOf(y).related = None
    /\ SubmitFact(r, x, FactRevision("confirmed", {r}, y, {r} \union HeadOf(y).taint))

(* A confirmation repeats the text and keeps the evidence of the pending    *)
(* Revision it confirms.                                                    *)
ConfirmFact(r, x) ==
    /\ status[x] = "active" /\ HeadOf(x).fact = "pending" /\ HeadOf(x).related = None
    /\ SubmitFact(r, x, FactRevision("confirmed", {r} \union HeadOf(x).evidence, None,
                                     {r} \union HeadOf(x).taint))

(* A change or correction (confirmed) or a denial brings its own text. *)
ReviseFact(r, x, adoption) ==
    /\ status[x] = "active" /\ HeadOf(x).fact # "none" /\ adoption \in {"confirmed", "denied"}
    /\ SubmitFact(r, x, FactRevision(adoption, {r}, HeadOf(x).related, {r}))

-----------------------------------------------------------------------------
(* The Steward reads Records and derives new ones *)

(* Rows persistStewardReadSet writes: one per evidence of a Record shown. *)
Dependencies(r, attempt, X) ==
    UNION {{[job |-> r, attempt |-> attempt, record |-> x, revision |-> Len(revs[x]),
             receipt |-> e] : e \in HeadOf(x).evidence} : x \in X}

Claimable(r) == Open(job[r]) /\ job[r].attempts < MaxAttempts /\ receipt[r] # "deleted"

(* readStewardContextRecords: same subject, relevance, recency and the      *)
(* input budget select some of the active heads.                            *)
ContextRecords == {X \in SUBSET Records : /\ Cardinality(X) <= MaxContext
                                          /\ \A x \in X : status[x] = "active"}

(* A due job, or one whose lease ran out, is leased and shown the heads X. *)
Claim(r, X) ==
    /\ phase = "serving" /\ Claimable(r) /\ X \in ContextRecords
    /\ job' = [job EXCEPT ![r] = [state |-> "leased", attempts |-> job[r].attempts + 1]]
    /\ shown' = [shown EXCEPT ![r] = {<<x, Len(revs[x])>> : x \in X}]
    /\ readSet' = readSet \union Dependencies(r, job[r].attempts + 1, X)
    /\ UNCHANGED <<receipt, sourced, status, revs, barriers, phase, handlers, crashes, legacy>>

(* A failed attempt, retried while attempts are left. *)
Release(r, newState) ==
    /\ phase = "serving" /\ job[r].state = "leased"
    /\ newState = "pending" => job[r].attempts < MaxAttempts
    /\ job' = [job EXCEPT ![r] = [state |-> newState, attempts |-> job[r].attempts]]
    /\ UNCHANGED <<receipt, sourced, shown, readSet, status, revs, barriers,
                   phase, handlers, crashes, legacy>>

(* The receipts whose contents the holder of r's lease has in hand. *)
Context(r) == {r} \union UNION {revs[s[1]][s[2]].taint : s \in shown[r]}

CurrentReads(r) == {d \in readSet : d.job = r /\ d.attempt = job[r].attempts}

(* validateStewardEvidenceReceipt *)
Usable(e) == receipt[e] = "live"

(* revalidateStewardReadSet: every dependency of the attempt is unchanged. *)
Revalidated(r) ==
    \A d \in CurrentReads(r) :
        /\ status[d.record] = "active" /\ Len(revs[d.record]) = d.revision
        /\ Usable(d.receipt)

(* validateStewardEvidence: cited are the job's receipt and receipts read. *)
Citable(r) == {e \in {r} \union {d.receipt : d \in CurrentReads(r)} : Usable(e)}

(* ADD creates a Record, pending as a fact if the host gave a Source; MERGE *)
(* and SUPERSEDE advance an active head that is not a structured fact.      *)
Target(x) == status[x] = "absent" \/ (status[x] = "active" /\ HeadOf(x).fact = "none")

StewardRevision(r, x, E) ==
    [job |-> r, evidence |-> E, payload |-> TRUE,
     fact |-> IF status[x] = "absent" /\ r \in sourced THEN "pending" ELSE "none",
     related |-> None,
     taint |-> Context(r)]

(* One bounded batch: ev gives each target Record its evidence; the empty   *)
(* batch is IGNORE.                                                         *)
ApplyStewardProposal(r, ev) ==
    /\ phase = "serving" /\ job[r].state = "leased" /\ receipt[r] # "deleted"
    /\ Revalidated(r)
    /\ Cardinality(DOMAIN ev) <= MaxOps
    /\ \A x \in DOMAIN ev : /\ r \in ev[x] /\ ev[x] \subseteq Citable(r)
                            /\ Target(x) /\ Len(revs[x]) < MaxRevisions
    /\ revs' = [x \in Records |-> IF x \in DOMAIN ev
                                  THEN Append(revs[x], StewardRevision(r, x, ev[x]))
                                  ELSE revs[x]]
    /\ status' = [x \in Records |-> IF x \in DOMAIN ev THEN "active" ELSE status[x]]
    /\ job' = [job EXCEPT ![r] = [state |-> "completed", attempts |-> job[r].attempts]]
    /\ UNCHANGED <<receipt, sourced, shown, readSet, barriers, phase, handlers, crashes, legacy>>

-----------------------------------------------------------------------------
(* The forgetting closure *)

RevisionsOf(x) == {revs[x][i] : i \in DOMAIN revs[x]}
Citing(r) == {x \in Records : \E v \in RevisionsOf(x) : r \in v.evidence}
(* Mutant: only the current Revision counts as produced. *)
ProducedHeads(J) == {x \in Records : revs[x] # <<>> /\ HeadOf(x).job \in J}

Produced(J) == {x \in Records : \E v \in RevisionsOf(x) : v.job \in J}
Referrers(X) == {x \in Records : \E v \in RevisionsOf(x) : v.related \in X}
Readers(X) == {d.job : d \in {d \in readSet : d.record \in X}}
ReadersOfReceipt(r) == {d.job : d \in {d \in readSet : d.receipt = r}}

(* expandForgettingClosure stops when a pass adds nothing (module           *)
(* ClosureWorklist); what it has then is the least pair closed this way.    *)
Closed(X, J) == Produced(J) \subseteq X /\ Referrers(X) \subseteq X /\ Readers(X) \subseteq J

ClosedFrom(X0, J0) ==
    {c \in (SUBSET Records) \X (SUBSET Receipts) :
        X0 \subseteq c[1] /\ J0 \subseteq c[2] /\ Closed(c[1], c[2])}

Expand(X0, J0) ==
    LET C == ClosedFrom(X0, J0)
    IN  [records |-> {x \in Records : \A c \in C : x \in c[1]},
         jobs |-> {r \in Receipts : \A c \in C : r \in c[2]}]

(* Mutant: legacy Records are attributed by evidence alone. *)
WidenedNever(X) == X

(* widenUnattributedClosure: once anything is attributed, so is every       *)
(* legacy Record of the partition.                                          *)
Widened(X) == IF X = {} THEN {} ELSE X \union legacy

ForgettingClosure(r) ==
    LET c == Expand(Citing(r), {r} \union ReadersOfReceipt(r))
    IN  Expand(Widened(c.records), c.jobs)

-----------------------------------------------------------------------------
(* Correction and deletion: the barrier transaction *)

(* Mutant: a lease in a worker's hands is left alone. *)
CancelledPending(J) == [r \in Receipts |-> IF r \in J /\ job[r].state = "pending"
                                           THEN [state |-> "failed", attempts |-> job[r].attempts]
                                           ELSE job[r]]

Cancelled(J) == [r \in Receipts |-> IF r \in J /\ Open(job[r])
                                    THEN [state |-> "failed", attempts |-> job[r].attempts]
                                    ELSE job[r]]

Invalidated(X) == [x \in Records |-> IF x \in X /\ status[x] = "active"
                                     THEN "invalidated" ELSE status[x]]

RaiseBarrier(kind, r, c) ==
    /\ barriers' = Append(barriers, [kind |-> kind, receipt |-> r, records |-> c.records,
                                     status |-> "pending"])
    /\ handlers' = handlers \union {Len(barriers) + 1}
    /\ status' = Invalidated(c.records)
    /\ sourced' = sourced \ {r}

CorrectReceipt(r, s) ==
    /\ phase = "serving" /\ receipt[r] = "live" /\ receipt[s] = "absent"
    /\ LET c == ForgettingClosure(r) IN
       /\ RaiseBarrier("corrected", r, c)
       /\ job' = [Cancelled(c.jobs) EXCEPT ![s] = Queued]
    /\ receipt' = [receipt EXCEPT ![r] = "corrected", ![s] = "live"]
    /\ UNCHANGED <<shown, readSet, revs, phase, crashes, legacy>>

(* Mutant: the jobs that read what is forgotten are left to the cleansing. *)
DeleteReceiptOwnJob(r) ==
    /\ phase = "serving" /\ receipt[r] \in {"live", "corrected"}
    /\ RaiseBarrier("deleted", r, ForgettingClosure(r))
    /\ receipt' = [receipt EXCEPT ![r] = "deleted"]
    /\ job' = Cancelled({r})
    /\ UNCHANGED <<shown, readSet, revs, phase, crashes, legacy>>

DeleteReceipt(r) ==
    /\ phase = "serving" /\ receipt[r] \in {"live", "corrected"}
    /\ LET c == ForgettingClosure(r) IN
       /\ RaiseBarrier("deleted", r, c)
       /\ job' = Cancelled(c.jobs)
    /\ receipt' = [receipt EXCEPT ![r] = "deleted"]
    /\ UNCHANGED <<shown, readSet, revs, phase, crashes, legacy>>

-----------------------------------------------------------------------------
(* The cleansing transaction *)

Cleared(v) == [job |-> v.job, evidence |-> v.evidence, payload |-> FALSE,
               fact |-> "none", related |-> None, taint |-> v.taint]

(* Jobs the cleansing settles: those that read a Record the barrier names. *)
Unsettled(b) == {r \in Receipts : Open(job[r]) /\ (r = b.receipt \/ r \in Readers(b.records))}

(* Mutant: only the Revisions that cite the receipt are erased. *)
CleanseCitingRevisions(b) ==
    /\ revs' = [x \in Records |-> IF x \in b.records
                                  THEN [i \in DOMAIN revs[x] |->
                                           IF b.receipt \in revs[x][i].evidence
                                           THEN Cleared(revs[x][i]) ELSE revs[x][i]]
                                  ELSE revs[x]]
    /\ job' = Cancelled(Unsettled(b))

CleanseDerivedHistory(b) ==
    /\ revs' = [x \in Records |-> IF x \in b.records
                                  THEN [i \in DOMAIN revs[x] |-> Cleared(revs[x][i])]
                                  ELSE revs[x]]
    /\ job' = IF Produced({b.receipt}) = {}
              THEN [Cancelled(Unsettled(b)) EXCEPT
                        ![b.receipt] = [state |-> "none", attempts |-> 0]]
              ELSE Cancelled(Unsettled(b))

(* Mutant: a correction erases too. *)
CleanupAnyBarrier(i) ==
    /\ IF barriers[i].status = "pending"
       THEN CleanseDerivedHistory(barriers[i])
       ELSE UNCHANGED <<revs, job>>
    /\ barriers' = [barriers EXCEPT ![i].status = "cleaned"]

CleanupForgettingBarrier(i) ==
    /\ IF barriers[i].status = "pending" /\ barriers[i].kind = "deleted"
       THEN CleanseDerivedHistory(barriers[i])
       ELSE UNCHANGED <<revs, job>>
    /\ barriers' = [barriers EXCEPT ![i].status = "cleaned"]

(* The request handler runs it, or its error is dropped.  *)
HandlerCleans(i) ==
    /\ phase = "serving" /\ i \in handlers
    /\ CleanupForgettingBarrier(i)
    /\ handlers' = handlers \ {i}
    /\ UNCHANGED <<receipt, sourced, shown, readSet, status, phase, crashes, legacy>>

HandlerFails(i) ==
    /\ phase = "serving" /\ i \in handlers
    /\ handlers' = handlers \ {i}
    /\ UNCHANGED <<receipt, sourced, job, shown, readSet, status, revs, barriers,
                   phase, crashes, legacy>>

Crash ==
    /\ phase # "down" /\ crashes < MaxCrashes
    /\ phase' = "down" /\ handlers' = {} /\ crashes' = crashes + 1
    /\ UNCHANGED <<receipt, sourced, job, shown, readSet, status, revs, barriers, legacy>>

Pending == {i \in DOMAIN barriers : barriers[i].status = "pending"}

OpenStore ==
    /\ phase = "down"
    /\ phase' = "recovering"
    /\ UNCHANGED <<receipt, sourced, job, shown, readSet, status, revs, barriers,
                   handlers, crashes, legacy>>

(* Mutant: recovery overlooks corrections. *)
RecoverDeletions ==
    /\ phase = "recovering"
    /\ \E i \in Pending : /\ barriers[i].kind = "deleted"
                          /\ CleanupForgettingBarrier(i)
    /\ UNCHANGED <<receipt, sourced, shown, readSet, status, phase, handlers, crashes, legacy>>

(* RecoverGovernanceCleanup takes the pending barriers in sequence order. *)
RecoverNext ==
    /\ phase = "recovering"
    /\ \E i \in Pending :
          /\ \A k \in Pending : i <= k
          /\ CleanupForgettingBarrier(i)
    /\ UNCHANGED <<receipt, sourced, shown, readSet, status, phase, handlers, crashes, legacy>>

Serve ==
    /\ phase = "recovering" /\ Pending = {}
    /\ phase' = "serving"
    /\ UNCHANGED <<receipt, sourced, job, shown, readSet, status, revs, barriers,
                   handlers, crashes, legacy>>

(* CleanupStatus, and the state a repeated DeleteReceipt reports: of all    *)
(* barriers of the receipt together.                                        *)
CleanupState(r) ==
    LET own == {i \in DOMAIN barriers : barriers[i].receipt = r}
    IN  IF own = {} THEN "none"
        ELSE IF own \intersect Pending # {} THEN "pending" ELSE "completed"

-----------------------------------------------------------------------------
(* Reads *)

(* readRecordGovernanceState: the deletion barriers that name x. *)
Naming(x) == {i \in DOMAIN barriers : barriers[i].kind = "deleted" /\ x \in barriers[i].records}

GovernanceRecordState(x) ==
    IF Naming(x) \intersect Pending # {} THEN "forgetting"
    ELSE IF Naming(x) # {} THEN "forgotten"
    ELSE status[x]

BlankForgottenRevision(x, v) == IF Naming(x) # {} THEN Cleared(v) ELSE v

(* What TraceRecord returns of x; GetSemanticRecord returns the last one. *)
TraceRecord(x) == {BlankForgottenRevision(x, v) : v \in RevisionsOf(x)}

-----------------------------------------------------------------------------
Evidence(r) ==
    \/ \E hostSource \in BOOLEAN : Accept(r, hostSource)
    \/ \E x \in Records : \/ ConfirmFact(r, x)
                          \/ \E a \in Adoption : EstablishFact(r, x, a) \/ ReviseFact(r, x, a)
                          \/ \E y \in Records : ExceptFact(r, x, y)

StewardStep(r) ==
    \/ \E X \in SUBSET Records : Claim(r, X)
    \/ \E newState \in {"pending", "failed"} : Release(r, newState)
    \/ \E T \in SUBSET Records : \E ev \in [T -> SUBSET Citable(r)] :
          ApplyStewardProposal(r, ev)

Govern(r) == DeleteReceipt(r) \/ \E s \in Receipts : CorrectReceipt(r, s)

Restart == OpenStore \/ RecoverNext \/ Serve

Next ==
    \/ \E r \in Receipts : Evidence(r) \/ StewardStep(r) \/ Govern(r)
    \/ \E i \in handlers : HandlerCleans(i) \/ HandlerFails(i)
    \/ Crash
    \/ Restart

Spec == Init /\ [][Next]_vars

(* The supervisor restarts the appliance, and Open runs on. *)
FairSpec == Spec /\ WF_vars(Restart)

-----------------------------------------------------------------------------
(* From the moment a deletion commits, no read returns text that may repeat *)
(* the deleted receipt, however many jobs, Records, exceptions and          *)
(* confirmations it passed through.  The reads rely on the barrier, which   *)
(* must name every such Record, or on the cleansing.                        *)
ForgottenNeverServed ==
    \A x \in Records : \A v \in TraceRecord(x) :
        v.payload => v.taint \intersect Deleted = {}

(* No active Record, the only kind recalled or shown to a worker, has a     *)
(* Revision that stems from a deleted or corrected receipt.                 *)
ActiveIsFresh ==
    \A x \in Records : status[x] = "active" =>
        \A v \in RevisionsOf(x) : v.taint \intersect Stale = {}

(* No lease outlives what it was shown: when a receipt is deleted or        *)
(* corrected, every worker holding its contents loses its lease.            *)
LeaseIsFresh ==
    \A r \in Receipts : job[r].state = "leased" => Context(r) \intersect Stale = {}

(* Once CleanupStatus calls the cleanup of a deleted receipt complete, no   *)
(* stored text stems from the receipt; and a Record that TraceRecord calls  *)
(* forgotten has no contents left in any Revision, although several         *)
(* barriers may name it and be cleansed in any order: it never gains a      *)
(* Revision after the first.                                                *)
CompletedIsGone ==
    /\ \A r \in Deleted : CleanupState(r) = "completed" =>
          \A x \in Records : \A v \in RevisionsOf(x) : r \in v.taint => ~v.payload
    /\ \A x \in Records : GovernanceRecordState(x) = "forgotten" =>
          \A v \in RevisionsOf(x) : ~v.payload

(* The barrier already settled every job that the cleansing looks for, and  *)
(* no later claim reads a Record the barrier names, so a crash between the  *)
(* two transactions leaves no worker deriving from it.                      *)
NothingLeftToSettle ==
    \A i \in Pending : barriers[i].kind = "deleted" => Unsettled(barriers[i]) = {}

Erasure(v, w) == w = Cleared(v)

(* History is append-only: a stored Revision never disappears and never     *)
(* changes, except that a Record under a deletion barrier may be erased.    *)
OnlyDeletionErases ==
    [][\A x \in Records : \A i \in DOMAIN revs[x] :
          /\ i \in DOMAIN revs'[x]
          /\ \/ revs'[x][i] = revs[x][i]
             \/ Naming(x) # {} /\ Erasure(revs[x][i], revs'[x][i])]_vars

(* A cleanup interrupted by a crash is finished by the next Open that       *)
(* completes, and the appliance serves again.                               *)
RecoveryFinishes == phase = "down" ~> phase = "serving" /\ Pending = {}
=============================================================================

------------------------------- MODULE Facts -------------------------------
(***************************************************************************)
(* Structured facts of one Space, LabelSet, subject and key: the lifecycle *)
(* edits of facts_lifecycle.go, the timeline and the reads of              *)
(* facts_read.go, with what the Steward and governance do to fact Records. *)
(*                                                                         *)
(* A Record is a sequence of Revisions, each an interval with the adoption *)
(* and the transition that wrote it; texts are told apart by the Revision  *)
(* they stand in.  No edit depends on the time at which it is made, so     *)
(* time is a parameter of the reads.  A submission carries one mutation,   *)
(* and names the revision it edits: a stale one changes nothing.           *)
(***************************************************************************)
EXTENDS Integers, Sequences, FiniteSets, FiniteSetsExt

CONSTANTS
    ConditionSets,   \* sets of exact conditions a fact may carry
    Contexts,        \* sets of conditions that hold for a reader
    Intervals,       \* <<valid_from, valid_until>> that hosts submit
    MaxTime,         \* bound: instants are 1..MaxTime
    MaxRecords,      \* bound: fact Records
    MaxSequence,     \* bound: rows of memory_changes
    Unknown          \* a time that is not given

Instants == 1..MaxTime
Times == Instants \union {Unknown}

ASSUME FactsAssumption ==
    /\ Unknown \notin Int /\ {MaxTime, MaxRecords, MaxSequence} \subseteq Nat
    /\ \A C \in ConditionSets \union Contexts : IsFiniteSet(C)
    /\ \A i \in Intervals : i \in Times \X Times /\ (Unknown \in {i[1], i[2]} \/ i[1] < i[2])

VARIABLES
    facts,      \* semantic_records with their semantic_revisions, by creation
    sequence    \* the last sequence of memory_changes

factsVars == <<facts, sequence>>

Roles == {"user_quote", "confirmation", "observation", "inference"}
Transitions == {"establish", "change", "exception", "correct", "confirm", "deny"}
Mutations(T, X) == [transition : T, target : X, conditions : ConditionSets, interval : Intervals]

FactsInit == facts = <<>> /\ sequence = 0

FactHead(x) == facts[x].revs[Len(facts[x].revs)]
Active == {x \in DOMAIN facts : facts[x].status = "active"}
Base(x) == facts[x].related = 0
Known(t) == t # Unknown

-----------------------------------------------------------------------------
(* The timeline of a Record *)

(* A correction or confirmation takes the place of the Revision before it,  *)
(* so only the last of such a chain has an interval of its own.             *)
Effective(revs) ==
    {i \in DOMAIN revs : i = Len(revs) \/ revs[i + 1].transition \notin {"correct", "confirm"}}

(* Mutant: the next onset replaces the end even of an interval that ended.  *)
CutReplaces(until, onset) == IF Known(onset) THEN onset ELSE until
Cut(until, onset) ==
    IF Known(onset) /\ (~Known(until) \/ onset < until) THEN onset ELSE until

HistoricalState(revs, i) ==
    IF revs[Len(revs)].transition = "deny" THEN "denied"
    ELSE IF i < Len(revs) /\ revs[i + 1].transition = "correct" THEN "corrected"
    ELSE IF i \in Effective(revs) /\ i < Len(revs) THEN "changed" ELSE "current"

(* factTimeline: each effective interval ends where the next begins, and a  *)
(* denial denies every Revision. *)
FactTimeline(revs) ==
    [i \in DOMAIN revs |->
        LET later == {j \in Effective(revs) : j > i} IN
        [adoption |-> IF HistoricalState(revs, i) = "denied" THEN "denied" ELSE revs[i].adoption,
         from |-> revs[i].from,
         until |-> IF i \in Effective(revs) /\ later # {}
                   THEN Cut(revs[i].until, revs[Min(later)].from) ELSE revs[i].until,
         state |-> HistoricalState(revs, i)]]

-----------------------------------------------------------------------------
(* ReadFacts *)

Adopted(e) == e.state # "corrected" /\ e.adoption = "confirmed"

Covers(e, t) == ~(Known(e.from) /\ e.from > t) /\ ~(Known(e.until) /\ e.until <= t)

(* Entries of Record x that a reader at t, or asking about t, may adopt. *)
InForce(x, t, asOf) ==
    LET h == FactTimeline(facts[x].revs)
    IN  {i \in DOMAIN h : Adopted(h[i]) /\ Covers(h[i], t) /\ (asOf => Known(h[i].from))}

Matching(context) == {x \in Active : facts[x].conditions \subseteq context}

(* The last such entry of each matching Record. *)
Candidates(context, t, asOf) ==
    {<<x, Max(InForce(x, t, asOf))>> : x \in {y \in Matching(context) : InForce(y, t, asOf) # {}}}

(* An exception hides its base; the most specific fact left is the answer,  *)
(* unless there are several. *)
Overridden(C) == {facts[c[1]].related : c \in C}
MostSpecific(C) ==
    {c \in C : \A d \in C : Cardinality(facts[d[1]].conditions) <= Cardinality(facts[c[1]].conditions)}

ReadFacts(context, t, asOf) ==
    LET C == Candidates(context, t, asOf)
        best == MostSpecific({c \in C : c[1] \notin Overridden(C)})
    IN  IF Cardinality(best) = 1 THEN best ELSE {}

(* Where an adopted entry of Record x begins or ends. *)
BoundariesOf(x) ==
    LET h == FactTimeline(facts[x].revs)
    IN  UNION {{h[i].from, h[i].until} : i \in {k \in DOMAIN h : Adopted(h[k])}}

Boundaries(context) == (UNION {BoundariesOf(x) : x \in Matching(context)}) \ {Unknown}

(* RefreshAt of a read without AsOf: the next boundary after t, or MaxTime+1. *)
(* Mutant: only onsets are awaited. *)
RefreshAtOnsets(context, t) ==
    Min({MaxTime + 1} \union
        {b \in UNION {{facts[x].revs[i].from : i \in DOMAIN facts[x].revs} : x \in Matching(context)}
            \ {Unknown} : b > t})
RefreshAt(context, t) == Min({MaxTime + 1} \union {b \in Boundaries(context) : b > t})

-----------------------------------------------------------------------------
(* applyFactMutation *)

AdoptionOf(role, transition) ==
    IF transition = "deny" THEN "denied"
    ELSE IF role \in {"confirmation", "observation"} THEN "confirmed" ELSE "pending"

(* Validate of the request. *)
ValidRequest(role, m) ==
    /\ m.transition = "establish" <=> m.target = 0
    /\ m.transition # "establish" => role = "confirmation"
    /\ m.transition = "change" => Known(m.interval[1])
    /\ m.transition = "exception" => Known(m.interval[1]) /\ Known(m.interval[2])

TargetIsCurrent(m) ==
    m.target # 0 => m.target \in Active /\ facts[m.target].conditions = m.conditions

ConfirmsPending(m) == m.transition = "confirm" => FactHead(m.target).adoption = "pending"

FollowsOnset(m) ==
    m.transition \in {"change", "exception"} =>
        LET prior == FactHead(m.target) IN
        /\ prior.adoption = "confirmed"
        /\ Known(prior.from) =>
              IF m.transition = "change" THEN m.interval[1] > prior.from ELSE m.interval[1] >= prior.from

(* Mutant: a correction may move an onset anywhere. *)
KeepsOrderNever(m) == TRUE
(* The correction of a change stays after the onset of what was changed. *)
KeepsOrder(m) ==
    m.transition = "correct" /\ Base(m.target) =>
        LET h == FactTimeline(facts[m.target].revs)
            changed == {i \in DOMAIN h : h[i].state = "changed"}
        IN  changed # {} =>
                /\ Known(m.interval[1])
                /\ Known(h[Max(changed)].from) => m.interval[1] > h[Max(changed)].from

(* An exception is only corrected or denied, and stays finite. *)
ExceptionStays(m) ==
    m.target # 0 /\ ~Base(m.target) =>
        m.transition \in {"correct", "deny"} /\ Known(m.interval[1]) /\ Known(m.interval[2])

EstablishIsFree(m) ==
    m.transition = "establish" =>
        ~\E x \in Active : Base(x) /\ facts[x].conditions = m.conditions

(* The Record that an exception, or the correction of one, belongs to. *)
RelatedOf(m) ==
    IF m.transition = "exception" THEN m.target
    ELSE IF m.target = 0 THEN 0 ELSE facts[m.target].related

(* Mutant: only a change is checked against other confirmed facts. *)
ConfirmedConflictOfChange(role, m) ==
    /\ m.transition = "change"
    /\ \E x \in Active \ {m.target} :
          FactHead(x).adoption = "confirmed" /\ Base(x) /\ facts[x].conditions = m.conditions
ConfirmedFactConflict(role, m) ==
    /\ AdoptionOf(role, m.transition) = "confirmed" /\ RelatedOf(m) = 0
    /\ m.transition # "establish"
    /\ \E x \in Active \ {m.target} :
          FactHead(x).adoption = "confirmed" /\ Base(x) /\ facts[x].conditions = m.conditions

Overlap(i, j) == i[1] < j[2] /\ j[1] < i[2]

OverlapsException(role, m) ==
    /\ AdoptionOf(role, m.transition) = "confirmed" /\ RelatedOf(m) # 0
    /\ \E x \in Active \ {m.target} :
          /\ facts[x].related = RelatedOf(m) /\ FactHead(x).adoption = "confirmed"
          /\ Overlap(m.interval, <<FactHead(x).from, FactHead(x).until>>)

Revision(adoption, interval, transition) ==
    [adoption |-> adoption, from |-> interval[1], until |-> interval[2], transition |-> transition]

(* A confirmation keeps the interval of what it confirms; that of a denial  *)
(* is kept for audit alone, and not here. *)
IntervalOf(m) ==
    CASE m.transition = "confirm" -> <<FactHead(m.target).from, FactHead(m.target).until>>
      [] m.transition = "deny" -> <<Unknown, Unknown>>
      [] OTHER -> m.interval

Create(related, conditions, revision) ==
    /\ Len(facts) < MaxRecords
    /\ facts' = Append(facts, [status |-> "active", conditions |-> conditions, related |-> related,
                               revs |-> <<revision>>])

(* The Revision becomes the head of Record x; a denial invalidates it. *)
Advance(x, revision) ==
    facts' = [facts EXCEPT ![x] =
        [status |-> IF revision.transition = "deny" THEN "invalidated" ELSE "active",
         conditions |-> facts[x].conditions, related |-> facts[x].related,
         revs |-> Append(facts[x].revs, revision)]]

RecordChanges(n) == sequence + n <= MaxSequence /\ sequence' = sequence + n

(* SubmitEvidence with mutation m: the edit and the evidence are recorded.  *)
SubmitMutation(role, m) ==
    LET v == Revision(AdoptionOf(role, m.transition), IntervalOf(m), m.transition) IN
    /\ RecordChanges(2)
    /\ ValidRequest(role, m) /\ TargetIsCurrent(m)
    /\ ConfirmsPending(m) /\ FollowsOnset(m) /\ KeepsOrder(m) /\ ExceptionStays(m)
    /\ EstablishIsFree(m) /\ ~ConfirmedFactConflict(role, m) /\ ~OverlapsException(role, m)
    /\ IF m.transition \in {"establish", "exception"}
       THEN Create(RelatedOf(m), m.conditions, v)
       ELSE Advance(m.target, v)

-----------------------------------------------------------------------------
(* The Steward and governance *)

(* ADD from a receipt with a host Source: a pending fact without conditions *)
(* or interval, whatever Records the key already has. *)
StewardAdd ==
    /\ Create(0, {}, Revision("pending", <<Unknown, Unknown>>, "establish"))
    /\ RecordChanges(1)

(* CorrectReceipt or DeleteReceipt invalidates the Records X that derive    *)
(* from the receipt, exceptions to them included (module Forgetting). *)
Govern(X) ==
    /\ X # {} /\ \A x \in Active : facts[x].related \in X => x \in X
    /\ facts' = [x \in DOMAIN facts |-> IF x \in X THEN [facts[x] EXCEPT !.status = "invalidated"]
                                        ELSE facts[x]]
    /\ RecordChanges(1 + Cardinality(X))

FactsNext ==
    \/ \E role \in Roles, m \in Mutations({"establish"}, {0}) : SubmitMutation(role, m)
    \/ \E m \in Mutations(Transitions \ {"establish"}, Active) : SubmitMutation("confirmation", m)
    \/ StewardAdd
    \/ \E X \in SUBSET Active : Govern(X)

FactsSpec == FactsInit /\ [][FactsNext]_factsVars

-----------------------------------------------------------------------------
Confirmed(x) == x \in Active /\ FactHead(x).adoption = "confirmed"

(* "Corrections cannot ... create a second confirmed                        *)
(* same-subject/key/condition base fact" (docs/memory-v0.6-facts.md), nor   *)
(* can any other edit, whatever is pending beside it; and the exceptions to *)
(* one base never overlap. *)
NoForkedTruth ==
    \A x, y \in DOMAIN facts : x # y /\ Confirmed(x) /\ Confirmed(y) =>
        /\ Base(x) /\ Base(y) => facts[x].conditions # facts[y].conditions
        /\ ~Base(x) /\ facts[x].related = facts[y].related =>
              ~Overlap(<<FactHead(x).from, FactHead(x).until>>, <<FactHead(y).from, FactHead(y).until>>)

(* However a Record was changed and its changes corrected, its timeline     *)
(* adopts at most one Revision for any instant: no correction reverses the  *)
(* order of intervals, and no finite change lets an old value reappear.     *)
OneValuePerInstant ==
    \A x \in DOMAIN facts, t \in Instants : Cardinality(InForce(x, t, FALSE)) <= 1

(* A client that reads again when the ledger moves, and at RefreshAt, never *)
(* holds a stale background: until RefreshAt the same read gives the same   *)
(* facts. *)
RefreshIsEnough ==
    \A context \in Contexts, t \in Instants :
        t + 1 < RefreshAt(context, t) => ReadFacts(context, t + 1, FALSE) = ReadFacts(context, t, FALSE)

(* A change rewrites nothing before its onset and an exception nothing      *)
(* outside its interval ("base resumes after expiry"): what a read about    *)
(* another instant answers stays the same. *)
EditsStayLocal ==
    [][\A x \in DOMAIN facts' :
          LET v == facts'[x].revs[Len(facts'[x].revs)]
              written == x \notin DOMAIN facts \/ Len(facts[x].revs) < Len(facts'[x].revs)
              touched == IF v.transition = "change" THEN {t \in Instants : t >= v.from}
                         ELSE {t \in Instants : v.from <= t /\ t < v.until}
          IN  written /\ v.transition \in {"change", "exception"} =>
                \A context \in Contexts, t \in Instants \ touched :
                    ReadFacts(context, t, TRUE)' = ReadFacts(context, t, TRUE)]_factsVars
=============================================================================

------------------------------ MODULE Ingestion ------------------------------
(***************************************************************************)
(* Admission of receipts to one Space: Remember of dataplane.go,           *)
(* SubmitEvidence and SetIngestionPolicy of facts_ingest.go, and           *)
(* CorrectReceipt and DeleteReceipt of governance.go as far as they touch  *)
(* receipts, effect identities and the Recall projection.                  *)
(*                                                                         *)
(* Each handler is one transaction and keeps nothing in memory, so late,   *)
(* lost and repeated calls are calls made at any time, any number of       *)
(* times.  A digest is the tuple of the fields it covers.  Receipts are    *)
(* numbered in commit order.  Jobs are StewardJobs', Records Forgetting's. *)
(***************************************************************************)
EXTENDS Integers, FiniteSets

CONSTANTS
    Keys,            \* idempotency keys of hosts
    Texts,
    LabelSets,
    Sources,         \* (event, revision, fragment) of one producer and subject
    ManagementKeys,
    MaxReceipts,     \* bound: receipts created
    None

(* The key of a replacement, "management:correction:" and a digest, is none *)
(* that a host uses.                                                        *)
ASSUME IngestionAssumption ==
    /\ MaxReceipts \in Nat /\ None \notin Sources
    /\ \A k \in ManagementKeys : <<"correction", k>> \notin Keys

VARIABLES
    receipts,     \* rows of receipts
    tombstones,   \* rows of receipt_tombstones
    sources,      \* rows of evidence_sources
    corrections,  \* <<original, replacement>> of receipt_corrections
    effects,      \* rows of management_effects
    denied,       \* LabelSets whose ingestion policy denies the producer
    index,        \* receipts in the Space's lexical projection
    born,         \* history: receipts ever created
    accepted,     \* history: <<request, receipt>> of each acceptance
    answer        \* history: the last answer

vars == <<receipts, tombstones, sources, corrections, effects, denied, index, born, accepted, answer>>

Ids == 1..MaxReceipts
Contexts == {"host", "trusted_evidence"}

RememberRequests == [op : {"remember"}, key : Keys, text : Texts, labels : LabelSets, context : Contexts]
EvidenceRequests == [op : {"evidence"}, key : Keys, text : Texts, labels : LabelSets, source : Sources]
CorrectRequests == [op : {"correct"}, key : ManagementKeys, receipt : Ids, text : Texts]
DeleteRequests == [op : {"delete"}, key : ManagementKeys, receipt : Ids]

Live == {r.id : r \in receipts}
Corrected == {c[1] : c \in corrections}
NextId == Cardinality(born) + 1

Init ==
    /\ receipts = {} /\ tombstones = {} /\ sources = {} /\ corrections = {} /\ effects = {}
    /\ denied = {} /\ index = {}
    /\ born = {} /\ accepted = {}
    /\ answer = [request |-> None, verdict |-> "none", receipt |-> 0]

-----------------------------------------------------------------------------
(* Answers *)

Accept(q, id) ==
    /\ accepted' = accepted \union {<<q, id>>}
    /\ answer' = [request |-> q, verdict |-> "accepted", receipt |-> id]

Refuse(q, verdict) ==
    /\ answer' = [request |-> q, verdict |-> verdict, receipt |-> 0]
    /\ UNCHANGED accepted

Stored == <<receipts, tombstones, sources, corrections, effects, denied, index, born>>

-----------------------------------------------------------------------------
(* The receipts table *)

Digest(context, text, labels) == <<context, text, labels>>

Row(key, digest, labels, source) ==
    [id |-> NextId, key |-> key, digest |-> digest, labels |-> labels, source |-> source]

Insert(row) ==
    /\ Cardinality(born) < MaxReceipts
    /\ receipts' = receipts \union {row}
    /\ born' = born \union {row}

(* The lexical projection gets the new receipt, or is rebuilt from the table *)
(* when the lexicon changed: either way it has every receipt stored.         *)
RebuildBeforeInsert(table) == Live     \* mutant
RebuildSpaceLexicalProjection(table) == {r.id : r \in table}
Project(table, ids) ==
    index' \in {(index \intersect {r.id : r \in table}) \union ids,
                RebuildSpaceLexicalProjection(table)}

Tombstoned(key) == \E t \in tombstones : t.key = key
Previous(key) == {r \in receipts : r.key = key}

-----------------------------------------------------------------------------
(* Remember *)

(* Mutant: the key of a deleted receipt is free again. *)
RememberDeletedNever(q) == FALSE
RememberDeleted(q) == Tombstoned(q.key)

ResolveAnything(q, r) == Accept(q, r.id)     \* mutant
ResolveIdempotent(q, r) ==
    IF r.digest = Digest(q.context, q.text, q.labels) THEN Accept(q, r.id) ELSE Refuse(q, "conflict")

Remember(q) ==
    \/ RememberDeleted(q) /\ Refuse(q, "conflict") /\ UNCHANGED Stored
    \/ /\ ~RememberDeleted(q)
       /\ \E r \in Previous(q.key) : ResolveIdempotent(q, r)
       /\ UNCHANGED Stored
    \/ /\ ~RememberDeleted(q) /\ Previous(q.key) = {}
       /\ LET row == Row(q.key, Digest(q.context, q.text, q.labels), q.labels, None)
          IN  Insert(row) /\ Project(receipts', {row.id}) /\ Accept(q, row.id)
       /\ UNCHANGED <<tombstones, sources, corrections, effects, denied>>

-----------------------------------------------------------------------------
(* SubmitEvidence *)

Denied(q) == q.labels \in denied
SourceRow(q) == {s \in sources : s.labels = q.labels /\ s.source = q.source}
Occupied(q) == Tombstoned(q.key) \/ Previous(q.key) # {}

EvidenceDigest(q) == <<q.source, q.text>>

(* A known source: suppressed, different, or the same once more. *)
ResolveSource(q, s) ==
    IF s.suppressed THEN Refuse(q, "source_suppressed")
    ELSE IF s.digest # EvidenceDigest(q) THEN Refuse(q, "conflict")
    ELSE s.receipt \in Live /\ Accept(q, s.receipt)

SubmitEvidence(q) ==
    \/ Denied(q) /\ Refuse(q, "ingestion_policy") /\ UNCHANGED Stored
    \/ /\ ~Denied(q)
       /\ \E s \in SourceRow(q) : ResolveSource(q, s)
       /\ UNCHANGED Stored
    \/ /\ ~Denied(q) /\ SourceRow(q) = {} /\ Occupied(q)
       /\ Refuse(q, "conflict") /\ UNCHANGED Stored
    \/ /\ ~Denied(q) /\ SourceRow(q) = {} /\ ~Occupied(q)
       /\ LET row == Row(q.key, Digest("trusted_evidence", q.text, q.labels), q.labels, q.source)
          IN  /\ Insert(row)
              /\ sources' = sources \union
                    {[labels |-> q.labels, source |-> q.source, receipt |-> row.id,
                      digest |-> EvidenceDigest(q), suppressed |-> FALSE]}
              /\ index' = index \union {row.id}
              /\ Accept(q, row.id)
       /\ UNCHANGED <<tombstones, corrections, effects, denied>>

SetIngestionPolicy(labels, deny) ==
    /\ denied' = IF deny THEN denied \union {labels} ELSE denied \ {labels}
    /\ UNCHANGED <<receipts, tombstones, sources, corrections, effects, index, born, accepted, answer>>

-----------------------------------------------------------------------------
(* Governance *)

Suppress(id) ==
    sources' = {IF s.receipt = id THEN [s EXCEPT !.suppressed = TRUE] ELSE s : s \in sources}

(* lookupManagementEffect *)
Effect(q) == {e \in effects : e.request.op = q.op /\ e.request.key = q.key}
Replay(q, e) == IF e.request = q THEN Accept(q, e.result) ELSE Refuse(q, "conflict")
Remembering(q, id) == effects' = effects \union {[request |-> q, result |-> id]}

(* Mutant: the source of a corrected receipt is left alone. *)
SuppressNothing(id) == UNCHANGED sources
SuppressCorrected(id) == Suppress(id)

CorrectReceipt(q) ==
    \/ (\E e \in Effect(q) : Replay(q, e)) /\ UNCHANGED Stored
    \/ /\ Effect(q) = {} /\ q.receipt \notin Live
       /\ Refuse(q, "not_found") /\ UNCHANGED Stored
    \/ /\ Effect(q) = {} /\ q.receipt \in Live /\ q.receipt \in Corrected
       /\ Refuse(q, "conflict") /\ UNCHANGED Stored
    \/ /\ Effect(q) = {} /\ q.receipt \in Live /\ q.receipt \notin Corrected
       /\ LET labels == (CHOOSE r \in receipts : r.id = q.receipt).labels
              row == Row(<<"correction", q.key>>, Digest("correction", q.text, labels), labels, None)
          IN  /\ Insert(row) /\ Project(receipts', {row.id})
              /\ corrections' = corrections \union {<<q.receipt, row.id>>}
              /\ Remembering(q, row.id) /\ Accept(q, row.id)
       /\ SuppressCorrected(q.receipt)
       /\ UNCHANGED <<tombstones, denied>>

Bury(r) == tombstones' = tombstones \union {[receipt |-> r.id, key |-> r.key]}

DeleteReceipt(q) ==
    \/ (\E e \in Effect(q) : Replay(q, e)) /\ UNCHANGED Stored
    \/ /\ Effect(q) = {} /\ q.receipt \notin Live
       /\ IF \E t \in tombstones : t.receipt = q.receipt
          THEN Remembering(q, q.receipt) /\ Accept(q, q.receipt)
          ELSE Refuse(q, "not_found") /\ UNCHANGED effects
       /\ UNCHANGED <<receipts, tombstones, sources, corrections, denied, index, born>>
    \/ /\ Effect(q) = {}
       /\ \E r \in receipts :
             /\ r.id = q.receipt
             /\ Bury(r)
             /\ receipts' = receipts \ {r}
             /\ Project(receipts', {})
       /\ Suppress(q.receipt)
       /\ Remembering(q, q.receipt) /\ Accept(q, q.receipt)
       /\ UNCHANGED <<corrections, denied, born>>

-----------------------------------------------------------------------------
Next ==
    \/ \E q \in RememberRequests : Remember(q)
    \/ \E q \in EvidenceRequests : SubmitEvidence(q)
    \/ \E labels \in LabelSets, deny \in BOOLEAN : SetIngestionPolicy(labels, deny)
    \/ \E q \in CorrectRequests : CorrectReceipt(q)
    \/ \E q \in DeleteRequests : DeleteReceipt(q)

Spec == Init /\ [][Next]_vars

-----------------------------------------------------------------------------
(* The candidates of Recall with one LabelSet. *)
Recallable(labels) == {r.id : r \in {x \in receipts : x.labels = labels}} \intersect (index \ Corrected)

HostRequests == RememberRequests \union EvidenceRequests

(* "Retrying the same Remember effect identity produces one receipt and the *)
(* original result" (docs/memory-appliance-acceptance.md:44), for both ways *)
(* in and for ever: not even a deletion frees a key or a source, and        *)
(* whoever asks the same again, by whatever key a source is submitted, is   *)
(* given the same receipt, which holds what was asked.                      *)
OriginalResult ==
    /\ \A r, s \in born :
          r # s => /\ r.key # s.key
                   /\ ~(r.source # None /\ r.source = s.source /\ r.labels = s.labels)
    /\ \A a, b \in accepted : a[1] = b[1] => a[2] = b[2]
    /\ \A a \in accepted : a[1].op \in {"remember", "evidence"} =>
          \E r \in born : /\ r.id = a[2] /\ r.labels = a[1].labels /\ r.digest[2] = a[1].text
                          /\ a[1].op = "evidence" => r.source = a[1].source

(* No retry brings back what the owner removed: a host is never told that a *)
(* deleted receipt is accepted, nor that evidence is whose receipt was      *)
(* corrected.                                                               *)
GovernedStaysRefused ==
    answer.verdict = "accepted" /\ answer.request \in HostRequests =>
        /\ answer.receipt \in Live
        /\ answer.request.op = "evidence" => answer.receipt \notin Corrected

(* An accepted receipt can be recalled under its LabelSet from then on,     *)
(* until it is corrected or deleted, whatever rebuilds the projection.      *)
ReadYourWrites ==
    \A a \in accepted : a[1] \in HostRequests /\ a[2] \in Live \ Corrected =>
        a[2] \in Recallable(a[1].labels)
=============================================================================

----------------------------- MODULE OwnerReads -----------------------------
(***************************************************************************)
(* What the owner reads while receipts and Records change: TraceReceipt    *)
(* and SearchReceipts (governance.go), ListRecords (governance_cleanup.go) *)
(* and GetSemanticRecord (steward.go).                                     *)
(*                                                                         *)
(* SearchReceipts reads one snapshot and ListRecords one for each page.    *)
(* TraceReceipt and GetSemanticRecord issue statements of their own on the *)
(* pool, and other transactions commit between them.                       *)
(*                                                                         *)
(* Which Records derive from a receipt is module Forgetting's subject;     *)
(* here stems gives, for each Record, the receipts it derives from.        *)
(***************************************************************************)
EXTENDS Integers, Sequences, FiniteSets, Functions

CONSTANTS
    Evidence,        \* receipt identities
    NumRecords,      \* Record identities are 1..NumRecords, in text order
    SearchSpaces,
    Filings,         \* the Spaces that the receipts may be given
    PageLimits,      \* Limit of a request
    MaxHeads         \* bound: Revisions of one Record

ASSUME OwnerReadsAssumption ==
    /\ IsFiniteSet(Evidence) /\ NumRecords \in Nat /\ MaxHeads \in Nat
    /\ Filings \subseteq [Evidence -> SearchSpaces] /\ PageLimits \subseteq Nat \ {0}

VARIABLES
    trail,      \* receipts, receipt_corrections and receipt_tombstones
    filed,      \* the Space of a receipt
    heads,      \* semantic_records: current_revision, 0 without a row
    valid,      \* Records with status 'active'
    stems,
    barred,     \* Records that a deletion barrier names
    erased,     \* Records whose kind and texts are cleansed
    call        \* the owner's call: what it has read, then its answer

ownerVars == <<trail, filed, heads, valid, stems, barred, erased, call>>
stored == <<trail, filed, heads, valid, stems, barred, erased>>

RecordIDs == 1..NumRecords
Existing == {x \in RecordIDs : heads[x] > 0}
Smaller(m, n) == IF m < n THEN m ELSE n

Idle == [op |-> "none"]

OwnerInit ==
    /\ trail = [r \in Evidence |-> "absent"]
    /\ filed \in Filings
    /\ heads = [x \in RecordIDs |-> 0] /\ stems = [x \in RecordIDs |-> {}]
    /\ valid = {} /\ barred = {} /\ erased = {}
    /\ call = Idle

-----------------------------------------------------------------------------
(* The transactions that change what is read *)

AcceptEvidence(r) ==
    /\ trail[r] = "absent"
    /\ trail' = [trail EXCEPT ![r] = "active"]
    /\ UNCHANGED <<filed, heads, valid, stems, barred, erased, call>>

(* A proposal creates Record x, under an identity drawn at random, or       *)
(* advances it, from active receipts R.                                     *)
Organize(x, R) ==
    /\ x \in valid \/ heads[x] = 0
    /\ heads[x] < MaxHeads
    /\ R # {} /\ \A r \in R : trail[r] = "active"
    /\ heads' = [heads EXCEPT ![x] = @ + 1]
    /\ valid' = valid \union {x}
    /\ stems' = [stems EXCEPT ![x] = @ \union R]
    /\ UNCHANGED <<trail, filed, barred, erased, call>>

DerivedFrom(r) == {x \in RecordIDs : r \in stems[x]}

ReplaceReceipt(r, s) ==
    /\ trail[r] = "active" /\ trail[s] = "absent" /\ filed[s] = filed[r]
    /\ trail' = [trail EXCEPT ![r] = "corrected", ![s] = "active"]
    /\ valid' = valid \ DerivedFrom(r)
    /\ UNCHANGED <<filed, heads, stems, barred, erased, call>>

(* One transaction takes the row, leaves the tombstone and raises the       *)
(* barrier.                                                                 *)
ForgetReceipt(r) ==
    /\ trail[r] \in {"active", "corrected"}
    /\ trail' = [trail EXCEPT ![r] = "deleted"]
    /\ valid' = valid \ DerivedFrom(r)
    /\ barred' = barred \union DerivedFrom(r)
    /\ UNCHANGED <<filed, heads, stems, erased, call>>

(* The second transaction of a deletion. *)
Cleanse(r) ==
    /\ trail[r] = "deleted"
    /\ erased' = erased \union DerivedFrom(r)
    /\ UNCHANGED <<trail, filed, heads, valid, stems, barred, call>>

-----------------------------------------------------------------------------
(* TraceReceipt: readManagementReceipt, and without a row readTombstone.    *)

TraceOrder == <<"receipts", "receipt_tombstones">>
InTable(table, r) ==
    IF table = "receipts" THEN trail[r] \in {"active", "corrected"} ELSE trail[r] = "deleted"

(* Statement i of the call, begun when the receipt was in state began. *)
TraceStatement(r, i, began) ==
    [op |-> "trace", receipt |-> r, began |-> began, statement |-> i,
     answer |-> IF InTable(TraceOrder[i], r) THEN trail[r]
                ELSE IF i = Len(TraceOrder) THEN "not found" ELSE "none"]

TraceReceipt(r) ==
    /\ call = Idle
    /\ call' = TraceStatement(r, 1, trail[r])
    /\ UNCHANGED stored

TraceContinues ==
    /\ call.op = "trace" /\ call.answer = "none"
    /\ call' = TraceStatement(call.receipt, call.statement + 1, call.began)
    /\ UNCHANGED stored

-----------------------------------------------------------------------------
(* GetSemanticRecord: the head, its fence, the Revision, its fence.  The    *)
(* Evidence of a Revision is never changed, and read last.                  *)

GetHead(x) ==
    /\ call = Idle /\ x \in Existing
    /\ call' = [op |-> "record", record |-> x, step |-> "head",
                revision |-> heads[x], kind |-> x \notin erased, text |-> FALSE, late |-> FALSE]
    /\ UNCHANGED stored

BlankForgottenRecordHead ==
    /\ call.op = "record" /\ call.step = "head"
    /\ call' = [call EXCEPT !.step = "fenced head", !.kind = @ /\ call.record \notin barred]
    /\ UNCHANGED stored

(* late is history: the deletion had committed when the text was read.      *)
GetRevision ==
    /\ call.op = "record" /\ call.step = "fenced head"
    /\ call' = [call EXCEPT !.step = "revision", !.text = call.record \notin erased,
                            !.late = call.record \in barred]
    /\ UNCHANGED stored

(* Mutant: the Revision relies on the fence of the head. *)
FenceOfHead ==
    /\ call.op = "record" /\ call.step = "revision"
    /\ call' = [call EXCEPT !.step = "answered", !.text = @ /\ call.kind]
    /\ UNCHANGED stored

FenceRevision ==
    /\ call.op = "record" /\ call.step = "revision"
    /\ call' = [call EXCEPT !.step = "answered", !.text = @ /\ call.record \notin barred]
    /\ UNCHANGED stored

-----------------------------------------------------------------------------
(* ListRecords: the heads of a Space by identity, limit to a page.          *)

InOrder(X) == CHOOSE s \in [1..Cardinality(X) -> X] : \A i, k \in DOMAIN s : i < k => s[i] < s[k]
UpTo(s, n) == SubSeq(s, 1, Smaller(n, Len(s)))

(* Mutant: the cursor is taken before the surplus row is dropped. *)
NextCursorEarly(rows, limit) == IF Len(rows) > limit THEN rows[limit + 1] ELSE 0

(* 0 is the empty cursor, which ends the listing. *)
NextCursor(rows, limit) == IF Len(rows) > limit THEN rows[limit] ELSE 0

Listing(limit, after, earlier, before) ==
    LET rows == UpTo(InOrder({x \in Existing : x > after}), limit + 1)
    IN  [op |-> "list", limit |-> limit, before |-> before,
         listed |-> earlier \o UpTo(rows, limit), cursor |-> NextCursor(rows, limit)]

ListRecords(limit) ==
    /\ call = Idle
    /\ call' = Listing(limit, 0, <<>>, Existing)
    /\ UNCHANGED stored

ListNextPage ==
    /\ call.op = "list" /\ call.cursor # 0
    /\ call' = Listing(call.limit, call.cursor, call.listed, call.before)
    /\ UNCHANGED stored

-----------------------------------------------------------------------------
(* SearchReceipts *)

(* managementSearchIndexes: one Space, or all. *)
Scopings == {SearchSpaces} \union {{s} : s \in SearchSpaces}

(* Receipts whose text does not match the query are as good as absent: the  *)
(* others, as the request filters them.                                     *)
Visible(spaces, includeCorrected) ==
    {r \in Evidence : /\ filed[r] \in spaces
                      /\ \/ trail[r] = "active"
                         \/ trail[r] = "corrected" /\ includeCorrected}

(* The first n of X, in an order that ranks decide. *)
SomeOf(X, n) == {Y \in SUBSET X : Cardinality(Y) = Smaller(n, Cardinality(X))}

(* Each Space is asked for one row more than the limit, by bm25; the merge  *)
(* ranks anew.                                                              *)
FromSpace(s, V, limit) == SomeOf({r \in V : filed[r] = s}, limit + 1)

SearchReceipts(spaces, includeCorrected, limit) ==
    /\ call = Idle
    /\ LET V == Visible(spaces, includeCorrected) IN
       \E found \in [SearchSpaces -> SUBSET V] :
          /\ \A s \in SearchSpaces : found[s] \in FromSpace(s, V, limit)
          /\ LET C == UNION {found[s] : s \in SearchSpaces} IN
             \E R \in SomeOf(C, limit) :
                call' = [op |-> "search", limit |-> limit, visible |-> V, found |-> R,
                         truncated |-> Cardinality(C) > limit]
    /\ UNCHANGED stored

(* The answer is delivered. *)
CallEnds ==
    /\ \/ call.op = "trace" /\ call.answer # "none"
       \/ call.op = "record" /\ call.step = "answered"
       \/ call.op = "list" /\ call.cursor = 0
       \/ call.op = "search"
    /\ call' = Idle
    /\ UNCHANGED stored

OwnerNext ==
    \/ \E r \in Evidence :
          \/ AcceptEvidence(r) \/ ForgetReceipt(r) \/ Cleanse(r) \/ TraceReceipt(r)
          \/ \E s \in Evidence : ReplaceReceipt(r, s)
    \/ \E x \in RecordIDs : GetHead(x) \/ \E R \in SUBSET Evidence : Organize(x, R)
    \/ \E limit \in PageLimits :
          \/ ListRecords(limit)
          \/ \E S \in Scopings, corrected \in BOOLEAN :
                SearchReceipts(S, corrected, limit)
    \/ TraceContinues \/ BlankForgottenRecordHead \/ GetRevision \/ FenceRevision
    \/ ListNextPage \/ CallEnds

OwnerSpec == OwnerInit /\ [][OwnerNext]_ownerVars

-----------------------------------------------------------------------------
(* Statements outside a transaction still tell the owner the truth, at      *)
(* whatever point between them a deletion commits: TraceReceipt never calls *)
(* a receipt unknown that was stored when it was asked for, and             *)
(* GetSemanticRecord never answers a text that it read after the deletion.  *)
AnswersAreTrue ==
    /\ call.op = "trace" /\ call.answer = "not found" =>
          call.began = "absent"
    /\ call.op = "record" /\ call.step = "answered" /\ call.text => ~call.late

(* Limits hide nothing silently, whatever is added or forgotten between two *)
(* pages: a listing that has come to its end holds, once and in order,      *)
(* every Record there was when it began, and a search that does not say     *)
(* Truncated holds every match.                                             *)
LimitsAreSaid ==
    /\ call.op = "list" =>
          /\ \A i, k \in DOMAIN call.listed : i < k => call.listed[i] < call.listed[k]
          /\ call.cursor = 0 => call.before \subseteq Range(call.listed)
    /\ call.op = "search" =>
          IF call.truncated THEN Cardinality(call.found) = call.limit
          ELSE call.found = call.visible
=============================================================================

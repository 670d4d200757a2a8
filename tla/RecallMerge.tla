----------------------------- MODULE RecallMerge -----------------------------
(***************************************************************************)
(* How Recall makes an answer: the Spaces of the View are read one after   *)
(* the other in one snapshot (Recall of dataplane.go and                   *)
(* semanticRecallCandidates of semantic_recall.go), the candidates are     *)
(* merged (mergeRecallCandidates) and fitted to the budget.  A receipt is  *)
(* a candidate with itself as evidence; the current Revision of a Record   *)
(* is one with the receipts it cites, all of its own Space.  Candidates of *)
(* equal text are merged: Records with one another, and a Record with a    *)
(* receipt that it cites.                                                  *)
(*                                                                         *)
(* Texts stand for texts up to case and spacing (normalizedRecallText),    *)
(* and a text is named by its length.  The rank decides the order, and     *)
(* which rows a query that is full returns, and is arbitrary.  An error    *)
(* that ends the request leaves no answer: the behaviour stops.            *)
(***************************************************************************)
EXTENDS Integers, Sequences, FiniteSets

CONSTANTS
    Stored,        \* receipts of the partition
    Derived,       \* active Records of the partition
    Texts,
    Homes,         \* Spaces of the View
    PrivateHomes,  \* the private ones among them
    ReceiptLimit, RecordLimit,   \* LIMIT 512 of each of the two queries
    Leftovers,     \* numbers of index rows that Records no longer active left
    FragmentLimits, ByteLimits   \* RecallBudget

(* Validation admits 64 fragments at most, fewer than a query returns.      *)
ASSUME RecallMergeAssumption ==
    /\ IsFiniteSet(Stored) /\ IsFiniteSet(Derived)
    /\ PrivateHomes \subseteq Homes
    /\ Texts \subseteq Nat \ {0}
    /\ ReceiptLimit \in Nat /\ RecordLimit \in Nat /\ Leftovers \subseteq Nat
    /\ FragmentLimits \subseteq 1..(ReceiptLimit - 1) /\ ByteLimits \subseteq Nat

VARIABLES
    home,        \* the Space of a receipt
    place,       \* the Space of a Record
    matches,     \* the receipts and Records that the query matches
    unread,      \* Spaces still to be read
    candidates,  \* all that were read
    waiting,     \* those not merged yet
    fragments,
    budget,      \* of the request
    answer,      \* the fragments returned, and how much of their text
    truncated,   \* RecallResponse.Truncated
    degraded,    \* RecallResponse.Degraded
    answered

readVars == <<home, place, matches, unread, candidates, degraded>>
mergeVars == <<readVars, waiting, fragments, budget, answer, truncated, answered>>

MergeInit ==
    /\ home \in [Stored -> Homes] /\ place \in [Derived -> Homes]
    /\ matches \in SUBSET (Stored \union Derived)
    /\ unread = Homes /\ candidates = {} /\ waiting = {} /\ degraded = FALSE
    /\ fragments = <<>>
    /\ budget = [fragments |-> 0, bytes |-> 0]
    /\ answer = <<>> /\ truncated = FALSE /\ answered = FALSE

-----------------------------------------------------------------------------
(* Reading a Space *)

ClassOf(space) == IF space \in PrivateHomes THEN "private" ELSE "shared"

ReceiptsOf(space) == {r \in Stored : home[r] = space}
RecordsOf(space) == {x \in Derived : place[x] = space}

(* What ORDER BY rank LIMIT may leave of a set. *)
Top(S, limit) ==
    {T \in SUBSET S : IF Cardinality(S) <= limit THEN T = S ELSE Cardinality(T) = limit}

ReceiptCandidate(r, text) ==
    [id |-> r, text |-> text, class |-> ClassOf(home[r]), semantic |-> FALSE,
     evidence |-> {r}, records |-> {}]

(* readRecallSemanticEvidence: a Record is a candidate only with evidence,  *)
(* all of which is of the Space and can be read.                            *)
Valid(E, space) == E # {} /\ \A r \in E : home[r] = space

RecordCandidate(x, text, space, E) ==
    [id |-> x, text |-> text, class |-> ClassOf(space), semantic |-> TRUE,
     evidence |-> E, records |-> {x}]

(* Mutant: only the rows are counted, not those of current Revisions. *)
DriftedInNumber(space, indexed, current, leftovers) ==
    Cardinality(RecordsOf(space)) # Cardinality(indexed) + leftovers

(* The semantic index is not the one of the active Records: a row of it is  *)
(* missing, of an older Revision or of a Record no longer active.           *)
Drifted(space, indexed, current, leftovers) ==
    LET expected == Cardinality(RecordsOf(space))
        projected == Cardinality(indexed) + leftovers
        usable == Cardinality(current)
    IN  expected # projected \/ expected # usable

Collect(space, found, semanticDegraded) ==
    /\ space \in unread /\ unread' = unread \ {space}
    /\ candidates' = candidates \union found /\ waiting' = waiting \union found
    /\ degraded' = (degraded \/ semanticDegraded)
    /\ UNCHANGED <<home, place, matches, fragments, budget, answer, truncated, answered>>

(* The query has no term for this Space (ftsQuery == ""). *)
SkipSpace(space) ==
    /\ (ReceiptsOf(space) \union RecordsOf(space)) \intersect matches = {}
    /\ Collect(space, {}, FALSE)

(* The index, the query or a row of it cannot be read (nil, true, nil).     *)
SemanticFault(space, receipts) == Collect(space, receipts, TRUE)

(* impaired: jobs are outstanding, or a count could not be read.  Records   *)
(* whose evidence is not valid are dropped.                                 *)
SemanticRecallCandidates(space, receipts) ==
    \E indexed \in SUBSET RecordsOf(space), leftovers \in Leftovers, impaired \in BOOLEAN :
    \E current \in SUBSET indexed : \E found \in Top(current \intersect matches, RecordLimit) :
    \E text \in [found -> Texts], cited \in [found -> SUBSET Stored] :
       LET valid == {x \in found : Valid(cited[x], space)} IN
       Collect(space, receipts \union {RecordCandidate(x, text[x], space, cited[x]) : x \in valid},
               impaired \/ Drifted(space, indexed, current, leftovers) \/ valid # found)

ReadSpace(space) ==
    \E found \in Top(ReceiptsOf(space) \intersect matches, ReceiptLimit) :
    \E text \in [found -> Texts] :
       LET receipts == {ReceiptCandidate(r, text[r]) : r \in found} IN
       SemanticFault(space, receipts) \/ SemanticRecallCandidates(space, receipts)

-----------------------------------------------------------------------------
(* recallCandidatesShareEvidence *)
ShareEvidence(c, f) == c.evidence \intersect f.evidence # {}

Mergeable(c, f) ==
    /\ c.text = f.text
    /\ \/ c.semantic /\ f.semantic
       \/ c.semantic # f.semantic /\ ShareEvidence(c, f)

(* Mutant: a fragment keeps the class of its first candidate. *)
StricterFirst(f, c) == f.class

Stricter(f, c) == IF "private" \in {f.class, c.class} THEN "private" ELSE "shared"

(* A receipt gives the fragment its identity and wording. *)
Into(f, c) ==
    LET receipt == IF f.semantic /\ ~c.semantic THEN c ELSE f
    IN  [id |-> receipt.id, text |-> receipt.text, class |-> Stricter(f, c),
         semantic |-> receipt.semantic,
         evidence |-> f.evidence \union c.evidence, records |-> f.records \union c.records]

Targets(c) == {i \in DOMAIN fragments : Mergeable(c, fragments[i])}

(* Candidates come by rank; each goes into the first fragment that fits. *)
MergeRecallCandidate(c) ==
    /\ unread = {} /\ c \in waiting
    /\ waiting' = waiting \ {c}
    /\ \/ /\ Targets(c) = {}
          /\ fragments' = Append(fragments, c)
       \/ \E i \in Targets(c) :
             /\ \A k \in Targets(c) : k >= i
             /\ fragments' = [fragments EXCEPT ![i] = Into(@, c)]
    /\ UNCHANGED <<readVars, budget, answer, truncated, answered>>

-----------------------------------------------------------------------------
(* The budget loop *)

(* projectedRecallSize, without the envelope: what separates the texts      *)
(* counts as one byte each, and an empty text is not projected.             *)
Size(n) == IF n = 0 THEN 0 ELSE n + 1
Bytes(s) ==
    LET total[i \in 0..Len(s)] == IF i = 0 THEN 0 ELSE total[i - 1] + Size(s[i].shown)
    IN  total[Len(s)]
Projected(n) == Bytes(answer) + Size(n)
Fits(n) == Projected(n) <= budget.bytes

(* Mutant: the search stops with one length untried. *)
LongestStrict(length) ==
    LET search[w \in (0..(length + 1)) \X (-1..length)] ==
            LET low == w[1]
                high == w[2]
                middle == low + (high - low) \div 2
                above == search[<<middle + 1, high>>]
            IN  IF low >= high THEN 0
                ELSE IF ~Fits(middle) THEN search[<<low, middle - 1>>]
                ELSE IF above > middle THEN above ELSE middle
    IN  search[<<0, length>>]

(* fitProjectedText: the whole text, or the longest prefix the binary       *)
(* search finds; 0 when there is none.                                      *)
Longest(length) ==
    LET search[w \in (0..(length + 1)) \X (-1..length)] ==
            LET low == w[1]
                high == w[2]
                middle == low + (high - low) \div 2
                above == search[<<middle + 1, high>>]
            IN  IF low > high THEN 0
                ELSE IF ~Fits(middle) THEN search[<<low, middle - 1>>]
                ELSE IF above > middle THEN above ELSE middle
    IN  search[<<0, length>>]
FitProjectedText(length) == IF Fits(length) THEN length ELSE Longest(length)

Recall(limits) ==
    /\ unread = {} /\ waiting = {} /\ budget.fragments = 0
    /\ budget' = limits
    /\ UNCHANGED <<readVars, waiting, fragments, answer, truncated, answered>>

LeavesMore(i) == i < Len(fragments) /\ i = budget.fragments

Project ==
    LET i == Len(answer) + 1 IN
    /\ budget.fragments > 0 /\ ~answered /\ i <= Len(fragments)
    /\ LET f == fragments[i]
           shown == FitProjectedText(f.text)
       IN  IF Len(answer) = budget.fragments \/ shown = 0
           THEN UNCHANGED answer /\ truncated' = TRUE /\ answered' = TRUE
           ELSE /\ answer' = Append(answer, [fragment |-> f, shown |-> shown])
                /\ truncated' = (truncated \/ shown < f.text \/ LeavesMore(i))
                /\ answered' = (shown < f.text)
    /\ UNCHANGED <<readVars, waiting, fragments, budget>>

Respond ==
    /\ budget.fragments > 0 /\ ~answered /\ Len(answer) = Len(fragments)
    /\ answered' = TRUE
    /\ UNCHANGED <<readVars, waiting, fragments, budget, answer, truncated>>

MergeNext ==
    \/ \E space \in unread : SkipSpace(space) \/ ReadSpace(space)
    \/ \E c \in waiting : MergeRecallCandidate(c)
    \/ \E limits \in [fragments : FragmentLimits, bytes : ByteLimits] : Recall(limits)
    \/ Project
    \/ Respond

MergeSpec == MergeInit /\ [][MergeNext]_mergeVars

-----------------------------------------------------------------------------
Fragments == {fragments[i] : i \in DOMAIN fragments}

(* A fragment is labelled shared only if all its evidence is in shared      *)
(* Spaces, although Records of different Spaces are merged, in any order:   *)
(* the SpaceClass by which a host decides where to show it never understates*)
(* what it is drawn from.                                                   *)
ClassCoversEvidence ==
    \A f \in Fragments : f.class = "shared" => \A r \in f.evidence : home[r] \notin PrivateHomes

Referred == UNION {answer[i].fragment.records : i \in DOMAIN answer}

(* What Recall leaves out it says.  An answer that is not Truncated has the *)
(* evidence of every candidate in a fragment with its text, whole, and      *)
(* every receipt the query matches under an identity of its own, although   *)
(* the query of a Space may have cut some off; if it is not Degraded either *)
(* it refers to every active Record the query matches in a Space, or to as  *)
(* many as the semantic query returns.  (With more than that, Records of    *)
(* equal text merge into one fragment and the surplus is left out without   *)
(* a word.)                                                                 *)
CompleteUnlessSaid ==
    answered /\ ~truncated =>
        /\ \A c \in candidates : \E i \in DOMAIN answer :
              LET f == answer[i].fragment IN
              /\ f.text = c.text /\ answer[i].shown = f.text
              /\ c.evidence \subseteq f.evidence /\ c.records \subseteq f.records
              /\ ~c.semantic => f.id = c.id
        /\ \A r \in Stored \intersect matches : \E i \in DOMAIN answer :
              answer[i].fragment.id = r /\ r \in answer[i].fragment.evidence
        /\ ~degraded => \A space \in Homes :
              \E T \in Top(RecordsOf(space) \intersect matches, RecordLimit) : T \subseteq Referred

(* The budget is used up, and kept: the texts returned fit, a text that is  *)
(* cut would not with one rune more, and a text left out with fragments to  *)
(* spare would not with a single rune.                                      *)
BudgetIsTight ==
    answered =>
        LET i == Len(answer)
            cut == i > 0 /\ answer[i].shown < answer[i].fragment.text
        IN  /\ i <= budget.fragments /\ Fits(0)
            /\ cut => Projected(0) + 1 > budget.bytes
            /\ truncated /\ ~cut /\ i < budget.fragments => Projected(0) + 2 > budget.bytes
=============================================================================

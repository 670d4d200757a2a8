------------------------------- MODULE Lexicon -------------------------------
(***************************************************************************)
(* The adaptive lexicon of one Space (lexicon.go, an internal experiment   *)
(* that Options.LexiconPolicy turns on) with the lexical projections that  *)
(* are segmented by it (lexical_schema.go).  Remember and CorrectReceipt   *)
(* learn terms from a text; correction and deletion withdraw the evidence; *)
(* a Steward proposal may activate a candidate early.  When the active     *)
(* terms change, both projections are rebuilt in the same transaction.     *)
(*                                                                         *)
(* A text is the terms discoverLexiconCandidates finds in it, each with    *)
(* its use there: what stands to the left and to the right of it, and how  *)
(* often it occurs.  The score grows with the evidence, as frequency and   *)
(* diversity do, and its threshold is left out.  The option stays on.      *)
(***************************************************************************)
EXTENDS Integers, FiniteSets, FiniteSetsExt

CONSTANTS
    Terms,
    Uses,                    \* of a term in a text: [left, right, times]
    Documents,               \* receipts
    Labelled,                \* those with a LabelSet
    MinDocumentFrequency, MinBoundaryDiversity, MaxAverageOccurrences   \* LexiconPolicy

ASSUME LexiconAssumption ==
    /\ MinDocumentFrequency \in Nat \ {0, 1} /\ MinBoundaryDiversity \in Nat \ {0}
    /\ MaxAverageOccurrences \in Nat \ {0} /\ \A u \in Uses : u.times \in Nat \ {0}
    /\ Labelled \subseteq Documents /\ IsFiniteSet(Terms)

VARIABLES
    kind,        \* of a receipt: how it came, or what became of it
    content,     \* its text
    evidence,    \* lexicon_term_evidence
    standing,    \* lexicon_terms.status, "unknown" without a row
    rows,        \* the receipt projection: the terms a row was segmented by
    recordRows,  \* the semantic projection, by the receipt a Record cites
    organized    \* receipts whose Steward job is settled

lexiconVars == <<kind, content, evidence, standing, rows, recordRows, organized>>

Contents == UNION {[T -> Uses] : T \in SUBSET Terms}
Blank == [t \in {} |-> t]

LexiconInit ==
    /\ kind = [d \in Documents |-> "absent"]
    /\ content = [d \in Documents |-> Blank]
    /\ evidence = {}
    /\ standing = [t \in Terms |-> "unknown"]
    /\ rows = Blank /\ recordRows = Blank
    /\ organized = {}

-----------------------------------------------------------------------------
(* Terms and their evidence *)

Support(E, t) == {e \in E : e.term = t}
Frequency(E, t) == Cardinality(Support(E, t))
Diverse(E, t) ==
    /\ Cardinality(UNION {e.use.left : e \in Support(E, t)}) >= MinBoundaryDiversity
    /\ Cardinality(UNION {e.use.right : e \in Support(E, t)}) >= MinBoundaryDiversity
Spread(E, t) ==
    MapThenSumSet(LAMBDA e : e.use.times, Support(E, t)) <= MaxAverageOccurrences * Frequency(E, t)

LexiconTermActive(E, t) ==
    Frequency(E, t) >= MinDocumentFrequency /\ Diverse(E, t) /\ Spread(E, t)

(* Mutant: a term without evidence is kept, retired. *)
RefreshedKeeping(S, E, affected) ==
    [t \in Terms |->
        IF t \notin affected THEN S[t]
        ELSE IF LexiconTermActive(E, t) THEN "active"
        ELSE IF S[t] \in {"active", "retired"} THEN "retired" ELSE "candidate"]

(* refreshLexiconTerms *)
Refreshed(S, E, affected) ==
    [t \in Terms |->
        IF t \notin affected THEN S[t]
        ELSE IF Support(E, t) = {} THEN "unknown"
        ELSE IF LexiconTermActive(E, t) THEN "active"
        ELSE IF S[t] \in {"active", "retired"} THEN "retired" ELSE "candidate"]

ActiveTerms(S) == {t \in Terms : S[t] = "active"}

(* Mutant: only a term that becomes active counts as a change. *)
ChangedByActivation(S, S2) == ActiveTerms(S2) \ ActiveTerms(S) # {}

Changed(S, S2) == ActiveTerms(S) # ActiveTerms(S2)

(* learnReceiptLexicon, removeReceiptLexiconEvidence *)
Learned(E, d, text) == E \union {[term |-> t, document |-> d, use |-> text[t]] : t \in DOMAIN text}
Removed(E, d) == {e \in E : e.document # d}
TermsOf(E, d) == {e.term : e \in {e \in E : e.document = d}}

-----------------------------------------------------------------------------
(* The projections *)

With(table, d, terms) == [x \in DOMAIN table \union {d} |-> IF x = d THEN terms ELSE table[x]]
Without(table, d) == [x \in DOMAIN table \ {d} |-> table[x]]
Held(K) == {d \in Documents : K[d] \in {"learned", "evidence", "corrected"}}

(* rebuildSpaceLexicalProjection: every receipt stored and every active     *)
(* Record, by the terms now active.                                         *)
Rebuilt(K, records, S) ==
    /\ rows' = [d \in Held(K) |-> ActiveTerms(S)]
    /\ recordRows' = [d \in DOMAIN records |-> ActiveTerms(S)]

-----------------------------------------------------------------------------
RememberText(d, text) ==
    LET E == Learned(evidence, d, text)
        S == Refreshed(standing, E, DOMAIN text)
    IN  /\ kind[d] = "absent"
        /\ kind' = [kind EXCEPT ![d] = "learned"] /\ content' = [content EXCEPT ![d] = text]
        /\ evidence' = E /\ standing' = S
        /\ IF Changed(standing, S) THEN Rebuilt(kind', recordRows, S)
           ELSE rows' = With(rows, d, ActiveTerms(S)) /\ UNCHANGED recordRows
        /\ UNCHANGED organized

(* SubmitEvidence learns nothing and indexes without terms; a mutation adds *)
(* a fact Record, indexed likewise, and leaves no job.                      *)
SubmitText(d, text, mutates) ==
    /\ kind[d] = "absent"
    /\ kind' = [kind EXCEPT ![d] = "evidence"] /\ content' = [content EXCEPT ![d] = text]
    /\ rows' = With(rows, d, {})
    /\ recordRows' = IF mutates THEN With(recordRows, d, {}) ELSE recordRows
    /\ organized' = IF mutates THEN organized \union {d} ELSE organized
    /\ UNCHANGED <<evidence, standing>>

(* The original leaves the evidence before the replacement joins it; what   *)
(* derives from it is invalidated.  Its row stays; Recall passes over it.   *)
CorrectText(d, r, text) ==
    LET E1 == Removed(evidence, d)
        S1 == Refreshed(standing, E1, TermsOf(evidence, d))
        E2 == Learned(E1, r, text)
        S2 == Refreshed(S1, E2, DOMAIN text)
        records == Without(recordRows, d)
    IN  /\ kind[d] \in {"learned", "evidence"} /\ kind[r] = "absent"
        /\ kind' = [kind EXCEPT ![d] = "corrected", ![r] = "learned"]
        /\ content' = [content EXCEPT ![r] = text]
        /\ evidence' = E2 /\ standing' = S2
        /\ IF Changed(standing, S1) \/ Changed(S1, S2) THEN Rebuilt(kind', records, S2)
           ELSE rows' = With(rows, r, ActiveTerms(S2)) /\ recordRows' = records
        /\ organized' = organized \union {d}

DeleteText(d) ==
    LET E == Removed(evidence, d)
        S == Refreshed(standing, E, TermsOf(evidence, d))
        records == Without(recordRows, d)
    IN  /\ d \in Held(kind)
        /\ kind' = [kind EXCEPT ![d] = "deleted"] /\ content' = [content EXCEPT ![d] = Blank]
        /\ evidence' = E /\ standing' = S
        /\ IF Changed(standing, S) THEN Rebuilt(kind', records, S)
           ELSE rows' = Without(rows, d) /\ recordRows' = records
        /\ organized' = organized \union {d}

(* applyStewardLexiconTerms: the job's own receipt and another cite a term. *)
Activatable(d, t) ==
    t \in TermsOf(evidence, d) /\ Frequency(evidence, t) >= 2 /\ Spread(evidence, t)

(* The proposal for d's job may add a Record, and activates terms T. *)
ApplyProposal(d, adds, T) ==
    LET S == [t \in Terms |-> IF t \in T THEN "active" ELSE standing[t]]
        records == IF adds THEN With(recordRows, d, ActiveTerms(standing)) ELSE recordRows
    IN  /\ kind[d] \in {"learned", "evidence"} /\ d \notin organized
        /\ T # {} => d \notin Labelled
        /\ \A t \in T : Activatable(d, t)
        /\ standing' = S /\ organized' = organized \union {d}
        /\ IF Changed(standing, S) THEN Rebuilt(kind, records, S)
           ELSE recordRows' = records /\ UNCHANGED rows
        /\ UNCHANGED <<kind, content, evidence>>

LexiconNext ==
    \/ \E d \in Documents, text \in Contents :
          \/ RememberText(d, text)
          \/ \E mutates \in BOOLEAN : SubmitText(d, text, mutates)
          \/ \E r \in Documents : CorrectText(r, d, text)
    \/ \E d \in Documents : DeleteText(d)
    \/ \E d \in Documents, adds \in BOOLEAN, T \in SUBSET Terms : ApplyProposal(d, adds, T)

LexiconSpec == LexiconInit /\ [][LexiconNext]_lexiconVars

-----------------------------------------------------------------------------
(* A query is segmented by the active terms, and so is the text it has to   *)
(* meet: every row of a remembered receipt was made with exactly the terms  *)
(* active now, and no row with terms that have since been retired.  Only    *)
(* evidence and facts may wait, without any terms, for the next rebuild.    *)
SegmentedAlike ==
    /\ DOMAIN rows = Held(kind)
    /\ \A d \in DOMAIN rows : \/ rows[d] = ActiveTerms(standing)
                              \/ rows[d] = {} /\ kind[d] # "learned"
    /\ \A d \in DOMAIN recordRows : recordRows[d] \in {{}, ActiveTerms(standing)}

(* Deletion and correction reach the vocabulary: a term is known only while *)
(* a remembered receipt that still stands supports it, with the very texts, *)
(* and is active only while two do.                                         *)
VocabularyForgets ==
    /\ \A e \in evidence : /\ kind[e.document] = "learned"
                           /\ e.term \in DOMAIN content[e.document]
    /\ \A t \in Terms : /\ standing[t] # "unknown" => Support(evidence, t) # {}
                        /\ standing[t] = "active" => Frequency(evidence, t) >= 2
=============================================================================

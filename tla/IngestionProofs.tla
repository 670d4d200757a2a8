--------------------------- MODULE IngestionProofs ---------------------------
(***************************************************************************)
(* One receipt for every effect identity and source, the original result   *)
(* for every retry, and nothing brought back that the owner removed, for   *)
(* any keys, texts, LabelSets, sources and number of receipts; and a       *)
(* lexicon in step with the rows and with the receipts that remain.        *)
(***************************************************************************)
EXTENDS Ingestion, Lexicon, TLAPS, FiniteSetTheorems

SourceRows == [labels : LabelSets, source : Sources, receipt : Nat, digest : Sources \X Texts,
               suppressed : BOOLEAN]

(* Receipts ever created have identities, keys and sources of their own.    *)
BornInv ==
    /\ IsFiniteSet(born)
    /\ \A r \in born : r.id \in 1..Cardinality(born) /\ r.digest[3] = r.labels
    /\ \A r, s \in born : r # s => r.id # s.id /\ r.key # s.key
    /\ \A r, s \in born :
          r # s /\ r.source # None => ~(r.source = s.source /\ r.labels = s.labels)

(* A key is never free again: it is of a row or of a tombstone, and the key *)
(* of a replacement is of a management effect.                              *)
TakenInv ==
    /\ receipts \subseteq born
    /\ \A r \in born \ receipts : Tombstoned(r.key)
    /\ \A r \in born : \/ r.key \in Keys
                       \/ \E e \in effects : e.request.op = "correct" /\ r.key = <<"correction", e.request.key>>
    /\ \A e, f \in effects :
          e.request.op = f.request.op /\ e.request.key = f.request.key => e = f
    /\ \A c \in corrections : c[1] \in 1..Cardinality(born)

(* Nor is a source: its row stays, and is suppressed with a correction.     *)
SourceInv ==
    /\ sources \subseteq SourceRows
    /\ \A r \in born : r.source # None =>
          \E s \in sources : s.labels = r.labels /\ s.source = r.source
    /\ \A s \in sources :
          /\ \E r \in born : /\ r.id = s.receipt /\ r.labels = s.labels /\ r.source = s.source
                             /\ s.digest = <<s.source, r.digest[2]>>
          /\ s.receipt \in Corrected => s.suppressed

(* What an acceptance of q by receipt id rests on. *)
Founded(q, id) ==
    /\ q.op \in {"remember", "evidence", "correct", "delete"}
    /\ q.op = "remember" =>
          \E r \in born : /\ r.id = id /\ r.key = q.key /\ r.labels = q.labels
                          /\ r.digest[2] = q.text
    /\ q.op = "evidence" =>
          \E s \in sources : /\ s.receipt = id /\ s.labels = q.labels /\ s.source = q.source
                             /\ s.digest = <<q.source, q.text>>
    /\ q.op \in {"correct", "delete"} =>
          \E e \in effects : e.request = q /\ e.result = id

AcceptedInv == \A a \in accepted : Founded(a[1], a[2])

IndexInv == \A r \in receipts : r.id \in index

TablesInv == BornInv /\ TakenInv /\ SourceInv
IngestionInv == TablesInv /\ AcceptedInv /\ IndexInv /\ GovernedStaysRefused

-----------------------------------------------------------------------------
(* The invariant gives the properties. *)
LEMMA InvGivesOriginalResult == IngestionInv => OriginalResult
  <1> SUFFICES ASSUME IngestionInv
               PROVE  OriginalResult
    OBVIOUS
  <1> USE DEF IngestionInv, TablesInv
  <1>1. \A r, s \in born :
          r # s => /\ r.key # s.key
                   /\ ~(r.source # None /\ r.source = s.source /\ r.labels = s.labels)
    BY DEF BornInv
  <1>2. ASSUME NEW a \in accepted, NEW b \in accepted, a[1] = b[1]
        PROVE  a[2] = b[2]
    <2>1. Founded(a[1], a[2]) /\ Founded(a[1], b[2])
      BY <1>2 DEF AcceptedInv
    <2>2. CASE a[1].op = "remember"
      BY <2>1, <2>2 DEF Founded, BornInv
    <2>3. CASE a[1].op = "evidence"
      <3>1. PICK s \in sources : s.receipt = a[2] /\ s.labels = a[1].labels /\ s.source = a[1].source
        BY <2>1, <2>3 DEF Founded
      <3>2. PICK t \in sources : t.receipt = b[2] /\ t.labels = a[1].labels /\ t.source = a[1].source
        BY <2>1, <2>3 DEF Founded
      <3>3. PICK r \in born : r.id = s.receipt /\ r.labels = s.labels /\ r.source = s.source
        BY DEF SourceInv
      <3>4. PICK u \in born : u.id = t.receipt /\ u.labels = t.labels /\ u.source = t.source
        BY DEF SourceInv
      <3>5. s.source # None
        BY IngestionAssumption DEF SourceInv, SourceRows
      <3> QED  BY <3>1, <3>2, <3>3, <3>4, <3>5 DEF BornInv
    <2>4. CASE a[1].op \in {"correct", "delete"}
      BY <2>1, <2>4 DEF Founded, TakenInv
    <2> QED  BY <2>1, <2>2, <2>3, <2>4 DEF Founded
  <1>3. ASSUME NEW a \in accepted, a[1].op \in {"remember", "evidence"}
        PROVE  \E r \in born : /\ r.id = a[2] /\ r.labels = a[1].labels /\ r.digest[2] = a[1].text
                               /\ a[1].op = "evidence" => r.source = a[1].source
    <2>1. Founded(a[1], a[2])
      BY DEF AcceptedInv
    <2>2. CASE a[1].op = "remember"
      BY <2>1, <2>2 DEF Founded
    <2>3. CASE a[1].op = "evidence"
      <3>1. PICK s \in sources : /\ s.receipt = a[2] /\ s.labels = a[1].labels
                                 /\ s.source = a[1].source /\ s.digest = <<a[1].source, a[1].text>>
        BY <2>1, <2>3 DEF Founded
      <3>2. PICK r \in born : /\ r.id = s.receipt /\ r.labels = s.labels /\ r.source = s.source
                              /\ s.digest = <<s.source, r.digest[2]>>
        BY DEF SourceInv
      <3> QED  BY <3>1, <3>2
    <2> QED  BY <1>3, <2>2, <2>3
  <1> QED  BY <1>1, <1>2, <1>3 DEF OriginalResult

LEMMA InvGivesReadYourWrites == IngestionInv => ReadYourWrites
  <1> SUFFICES ASSUME IngestionInv, NEW a \in accepted, a[1] \in HostRequests, a[2] \in Live \ Corrected
               PROVE  a[2] \in Recallable(a[1].labels)
    BY DEF ReadYourWrites
  <1>1. a[1].op \in {"remember", "evidence"}
    BY DEF HostRequests, RememberRequests, EvidenceRequests
  <1>2. PICK r \in born : r.id = a[2] /\ r.labels = a[1].labels
    BY <1>1, InvGivesOriginalResult DEF OriginalResult
  <1>3. PICK x \in receipts : x.id = a[2]
    BY DEF Live
  <1>4. x = r
    BY <1>2, <1>3 DEF IngestionInv, TablesInv, BornInv, TakenInv
  <1> QED  BY <1>2, <1>3, <1>4 DEF Recallable, IngestionInv, IndexInv

-----------------------------------------------------------------------------
(* What a step does to the tables *)

(* No receipt, effect or source is dropped. *)
Growth ==
    /\ born \subseteq born' /\ effects \subseteq effects'
    /\ \A s \in sources : \E t \in sources' :
          /\ t.receipt = s.receipt /\ t.labels = s.labels
          /\ t.source = s.source /\ t.digest = s.digest

LEMMA FoundedStays ==
    ASSUME Growth, NEW q, NEW id, Founded(q, id)
    PROVE  Founded(q, id)'
  <1>1. CASE q.op = "remember"
    BY <1>1 DEF Founded, Growth
  <1>2. CASE q.op = "evidence"
    <2>1. PICK s \in sources : /\ s.receipt = id /\ s.labels = q.labels /\ s.source = q.source
                               /\ s.digest = <<q.source, q.text>>
      BY <1>2 DEF Founded
    <2>2. PICK t \in sources' : /\ t.receipt = s.receipt /\ t.labels = s.labels
                                /\ t.source = s.source /\ t.digest = s.digest
      BY DEF Growth
    <2> QED  BY <1>2, <2>1, <2>2 DEF Founded
  <1>3. CASE q.op \in {"correct", "delete"}
    BY <1>3 DEF Founded, Growth
  <1> QED  BY <1>1, <1>2, <1>3 DEF Founded

LEMMA AcceptedStays ==
    ASSUME AcceptedInv, Growth, NEW q, NEW id, Accept(q, id), Founded(q, id)'
    PROVE  AcceptedInv'
  <1> SUFFICES ASSUME NEW a \in accepted'
               PROVE  Founded(a[1], a[2])'
    BY DEF AcceptedInv
  <1>1. CASE a \in accepted
    <2>1. Founded(a[1], a[2])
      BY <1>1 DEF AcceptedInv
    <2> QED  BY <2>1, FoundedStays
  <1>2. CASE a = <<q, id>>
    <2>1. a[1] = q /\ a[2] = id
      BY <1>2
    <2> QED  BY <2>1
  <1> QED  BY <1>1, <1>2 DEF Accept

(* A new receipt takes the next identity, under a key and, if it has one, a *)
(* source that no receipt had.                                              *)
LEMMA Added ==
    ASSUME BornInv, NEW row, row.id = NextId, row.digest[3] = row.labels, born' = born \union {row},
           \A r \in born : r.key # row.key,
           row.source # None => \A r \in born : ~(r.source = row.source /\ r.labels = row.labels)
    PROVE  /\ BornInv' /\ Cardinality(born) \in Nat
           /\ Cardinality(born') = Cardinality(born) + 1
           /\ \A r \in born : r.id # row.id
  <1>1. Cardinality(born) \in Nat
    BY FS_CardinalityType DEF BornInv
  <1>2. \A r \in born : r.id # row.id
    BY <1>1 DEF BornInv, NextId
  <1>3. IsFiniteSet(born') /\ Cardinality(born') = Cardinality(born) + 1
    BY <1>2, FS_AddElement DEF BornInv
  <1>4. \A r \in born' : r.id \in 1..Cardinality(born') /\ r.digest[3] = r.labels
    BY <1>1, <1>3 DEF BornInv, NextId
  <1>5. \A r, s \in born' : r # s => r.id # s.id /\ r.key # s.key
    BY <1>2 DEF BornInv
  <1>6. \A r, s \in born' :
          r # s /\ r.source # None => ~(r.source = s.source /\ r.labels = s.labels)
    BY DEF BornInv
  <1> QED  BY <1>1, <1>2, <1>3, <1>4, <1>5, <1>6, Zenon DEF BornInv

(* Suppression changes no row of evidence_sources otherwise. *)
LEMMA Suppressing ==
    ASSUME sources \subseteq SourceRows, NEW id, Suppress(id)
    PROVE  /\ sources' \subseteq SourceRows
           /\ \A s \in sources : \E t \in sources' :
                 /\ t.receipt = s.receipt /\ t.labels = s.labels
                 /\ t.source = s.source /\ t.digest = s.digest
           /\ \A t \in sources' : \E s \in sources :
                 /\ t.receipt = s.receipt /\ t.labels = s.labels
                 /\ t.source = s.source /\ t.digest = s.digest
                 /\ s.suppressed \/ s.receipt = id => t.suppressed
  <1> DEFINE New(s) == IF s.receipt = id THEN [s EXCEPT !.suppressed = TRUE] ELSE s
  <1>1. sources' = {New(s) : s \in sources}
    BY DEF Suppress
  <1>2. ASSUME NEW s \in sources
        PROVE  /\ New(s) \in SourceRows
               /\ New(s).receipt = s.receipt /\ New(s).labels = s.labels
               /\ New(s).source = s.source /\ New(s).digest = s.digest
               /\ s.suppressed \/ s.receipt = id => New(s).suppressed
    <2>1. s \in SourceRows
      OBVIOUS
    <2> QED  BY <2>1, Zenon DEF SourceRows
  <1> HIDE DEF New
  <1> QED  BY <1>1, <1>2

LEMMA Projecting ==
    ASSUME IndexInv, NEW ids, Project(receipts', ids),
           \A r \in receipts' : r \in receipts \/ r.id \in ids
    PROVE  IndexInv'
  BY DEF Project, RebuildSpaceLexicalProjection, IndexInv

-----------------------------------------------------------------------------
(* Calls that store nothing *)

LEMMA TablesStay ==
    ASSUME TablesInv, IndexInv, UNCHANGED Stored
    PROVE  TablesInv' /\ IndexInv' /\ Growth
  <1> USE DEF Stored
  <1>1. BornInv'
    BY DEF TablesInv, BornInv
  <1>2. TakenInv'
    BY DEF TablesInv, TakenInv, Tombstoned
  <1>3. SourceInv'
    BY DEF TablesInv, SourceInv, Corrected
  <1>4. Growth
    BY DEF Growth
  <1> QED  BY <1>1, <1>2, <1>3, <1>4 DEF TablesInv, IndexInv

LEMMA Refusing ==
    ASSUME IngestionInv, Growth, NEW q, NEW verdict, Refuse(q, verdict), verdict # "accepted"
    PROVE  AcceptedInv' /\ GovernedStaysRefused'
  <1>1. AcceptedInv'
    <2> SUFFICES ASSUME NEW a \in accepted'
                 PROVE  Founded(a[1], a[2])'
      BY DEF AcceptedInv
    <2>1. Founded(a[1], a[2])
      BY DEF Refuse, IngestionInv, AcceptedInv
    <2> QED  BY <2>1, FoundedStays
  <1>2. GovernedStaysRefused'
    BY DEF Refuse, GovernedStaysRefused
  <1> QED  BY <1>1, <1>2

(* The owner is told of acceptances too, but not as a host. *)
LEMMA OwnerAnswers ==
    ASSUME NEW q \in CorrectRequests \union DeleteRequests, NEW id, Accept(q, id)
    PROVE  GovernedStaysRefused'
  <1>1. q \notin HostRequests
    BY DEF HostRequests, RememberRequests, EvidenceRequests, CorrectRequests, DeleteRequests
  <1> QED  BY <1>1 DEF Accept, GovernedStaysRefused

-----------------------------------------------------------------------------
(* The handlers *)

LEMMA InitEstablishes == Init => IngestionInv
  <1> SUFFICES ASSUME Init
               PROVE  IngestionInv
    OBVIOUS
  <1>1. BornInv
    BY FS_EmptySet DEF Init, BornInv
  <1> QED
    BY <1>1 DEF Init, IngestionInv, TablesInv, TakenInv, SourceInv, AcceptedInv, IndexInv,
                GovernedStaysRefused

(* The key of a host's call that finds no row and no tombstone is new. *)
LEMMA KeyIsNew ==
    ASSUME TakenInv, NEW key, ~Tombstoned(key), Previous(key) = {}
    PROVE  \A r \in born : r.key # key
  BY DEF TakenInv, Previous

LEMMA RememberKeeps ==
    ASSUME IngestionInv, NEW q \in RememberRequests, Remember(q)
    PROVE  IngestionInv'
  <1> USE DEF IngestionInv, TablesInv
  <1>0. q.op = "remember" /\ q.key \in Keys
    BY DEF RememberRequests
  <1>1. CASE RememberDeleted(q) /\ Refuse(q, "conflict") /\ UNCHANGED Stored
    BY <1>1, TablesStay, Refusing
  <1>2. ASSUME NEW r \in Previous(q.key), ResolveIdempotent(q, r), UNCHANGED Stored
        PROVE  IngestionInv'
    <2>1. TablesInv' /\ IndexInv' /\ Growth
      BY <1>2, TablesStay
    <2>2. CASE Refuse(q, "conflict")
      BY <2>1, <2>2, Refusing
    <2>3. CASE Accept(q, r.id) /\ r.digest = Digest(q.context, q.text, q.labels)
      <3>1. r \in receipts /\ r \in born /\ r.key = q.key
        BY DEF Previous, TakenInv
      <3>2. r.labels = q.labels /\ r.digest[2] = q.text
        BY <2>3, <3>1 DEF Digest, BornInv
      <3>3. Founded(q, r.id)
        BY <1>0, <3>1, <3>2 DEF Founded
      <3>4. AcceptedInv'
        BY <2>1, <2>3, <3>3, FoundedStays, AcceptedStays
      <3>5. GovernedStaysRefused'
        BY <1>0, <1>2, <2>3, <3>1 DEF Accept, GovernedStaysRefused, Live, Stored
      <3> QED  BY <2>1, <3>4, <3>5
    <2> QED  BY <1>2, <2>2, <2>3 DEF ResolveIdempotent
  <1>3. CASE /\ ~RememberDeleted(q) /\ Previous(q.key) = {}
             /\ LET row == Row(q.key, Digest(q.context, q.text, q.labels), q.labels, None)
                IN  Insert(row) /\ Project(receipts', {row.id}) /\ Accept(q, row.id)
             /\ UNCHANGED <<tombstones, sources, corrections, effects, denied>>
    <2>1. PICK row : /\ row = Row(q.key, Digest(q.context, q.text, q.labels), q.labels, None)
                     /\ Insert(row) /\ Project(receipts', {row.id}) /\ Accept(q, row.id)
      BY <1>3
    <2>2. /\ row.id = NextId /\ row.key = q.key /\ row.labels = q.labels /\ row.source = None
          /\ row.digest[2] = q.text /\ row.digest[3] = row.labels
      BY <2>1 DEF Row, Digest
    <2>3. born' = born \union {row} /\ receipts' = receipts \union {row}
      BY <2>1 DEF Insert
    <2>4. \A r \in born : r.key # row.key
      BY <1>3, <2>2, KeyIsNew DEF RememberDeleted
    <2>5. /\ BornInv' /\ Cardinality(born) \in Nat
          /\ Cardinality(born') = Cardinality(born) + 1
      BY <2>2, <2>3, <2>4, Added, Zenon
    <2>6. TakenInv'
      BY <1>0, <1>3, <2>2, <2>3, <2>5 DEF TakenInv, Tombstoned
    <2>7. SourceInv'
      BY <1>3, <2>2, <2>3 DEF SourceInv, Corrected
    <2>8. Growth
      BY <1>3, <2>3 DEF Growth
    <2>9. Founded(q, row.id)'
      BY <1>0, <2>2, <2>3 DEF Founded
    <2>10. AcceptedInv'
      BY <2>1, <2>8, <2>9, AcceptedStays
    <2>11. IndexInv'
      BY <2>1, <2>3, Projecting
    <2>12. GovernedStaysRefused'
      BY <1>0, <2>1, <2>3 DEF Accept, GovernedStaysRefused, Live
    <2> QED  BY <2>5, <2>6, <2>7, <2>10, <2>11, <2>12
  <1> QED  BY <1>1, <1>2, <1>3 DEF Remember

LEMMA SubmitEvidenceKeeps ==
    ASSUME IngestionInv, NEW q \in EvidenceRequests, SubmitEvidence(q)
    PROVE  IngestionInv'
  <1> USE DEF IngestionInv, TablesInv
  <1>0. /\ q.op = "evidence" /\ q.key \in Keys /\ q.labels \in LabelSets /\ q.source \in Sources
        /\ q.text \in Texts
    BY DEF EvidenceRequests
  <1>1. CASE UNCHANGED Stored /\ \E verdict \in {"ingestion_policy", "conflict"} : Refuse(q, verdict)
    BY <1>1, TablesStay, Refusing
  <1>2. ASSUME NEW s \in SourceRow(q), ResolveSource(q, s), UNCHANGED Stored
        PROVE  IngestionInv'
    <2>1. TablesInv' /\ IndexInv' /\ Growth
      BY <1>2, TablesStay
    <2>2. CASE \E verdict \in {"source_suppressed", "conflict"} : Refuse(q, verdict)
      BY <2>1, <2>2, Refusing
    <2>3. CASE /\ ~s.suppressed /\ s.digest = EvidenceDigest(q)
               /\ s.receipt \in Live /\ Accept(q, s.receipt)
      <3>1. s \in sources /\ s.labels = q.labels /\ s.source = q.source
        BY DEF SourceRow
      <3>2. Founded(q, s.receipt)
        BY <1>0, <2>3, <3>1 DEF Founded, EvidenceDigest
      <3>3. AcceptedInv'
        BY <2>1, <2>3, <3>2, FoundedStays, AcceptedStays
      <3>4. s.receipt \notin Corrected
        BY <2>3, <3>1 DEF SourceInv
      <3>5. GovernedStaysRefused'
        BY <1>2, <2>3, <3>4 DEF Accept, GovernedStaysRefused, Live, Corrected, Stored
      <3> QED  BY <2>1, <3>3, <3>5
    <2> QED  BY <1>2, <2>2, <2>3 DEF ResolveSource
  <1>3. CASE /\ ~Denied(q) /\ SourceRow(q) = {} /\ ~Occupied(q)
             /\ LET row == Row(q.key, Digest("trusted_evidence", q.text, q.labels), q.labels, q.source)
                IN  /\ Insert(row)
                    /\ sources' = sources \union
                          {[labels |-> q.labels, source |-> q.source, receipt |-> row.id,
                            digest |-> EvidenceDigest(q), suppressed |-> FALSE]}
                    /\ index' = index \union {row.id}
                    /\ Accept(q, row.id)
             /\ UNCHANGED <<tombstones, corrections, effects, denied>>
    <2>1. PICK row : /\ row = Row(q.key, Digest("trusted_evidence", q.text, q.labels), q.labels, q.source)
                     /\ Insert(row)
                     /\ sources' = sources \union
                           {[labels |-> q.labels, source |-> q.source, receipt |-> row.id,
                             digest |-> EvidenceDigest(q), suppressed |-> FALSE]}
                     /\ index' = index \union {row.id}
                     /\ Accept(q, row.id)
      BY <1>3
    <2> DEFINE new == [labels |-> q.labels, source |-> q.source, receipt |-> row.id,
                       digest |-> EvidenceDigest(q), suppressed |-> FALSE]
    <2>2. /\ row.id = NextId /\ row.key = q.key /\ row.labels = q.labels /\ row.source = q.source
          /\ row.digest[2] = q.text /\ row.digest[3] = row.labels
      BY <2>1 DEF Row, Digest
    <2>3. born' = born \union {row} /\ receipts' = receipts \union {row}
      BY <2>1 DEF Insert
    <2>4. \A r \in born : r.key # row.key
      BY <1>3, <2>2, KeyIsNew, Zenon DEF Occupied
    <2>5. \A r \in born : ~(r.source = row.source /\ r.labels = row.labels)
      <3> SUFFICES ASSUME NEW r \in born, r.source = row.source, r.labels = row.labels
                   PROVE  FALSE
        OBVIOUS
      <3>1. r.source # None
        BY <1>0, <2>2, IngestionAssumption
      <3>2. PICK s \in sources : s.labels = r.labels /\ s.source = r.source
        BY <3>1 DEF SourceInv
      <3>3. SourceRow(q) = {}
        BY <1>3, Zenon
      <3> QED  BY <2>2, <3>2, <3>3 DEF SourceRow
    <2>6. /\ BornInv' /\ Cardinality(born) \in Nat
          /\ Cardinality(born') = Cardinality(born) + 1
      BY <2>2, <2>3, <2>4, <2>5, Added
    <2>7. TakenInv'
      <3>1. UNCHANGED <<tombstones, effects, corrections>>
        BY <1>3, Zenon
      <3>2. receipts' \subseteq born' /\ \A r \in born' \ receipts' : Tombstoned(r.key)'
        BY <2>3, <3>1, Zenon DEF TakenInv, Tombstoned
      <3>3. \A r \in born' :
               \/ r.key \in Keys
               \/ \E e \in effects' : e.request.op = "correct" /\ r.key = <<"correction", e.request.key>>
        BY <1>0, <2>2, <2>3, <3>1, Zenon DEF TakenInv
      <3>4. \A c \in corrections' : c[1] \in 1..Cardinality(born')
        <4> SUFFICES ASSUME NEW c \in corrections'
                     PROVE  c[1] \in 1..Cardinality(born')
          OBVIOUS
        <4>1. c[1] \in 1..Cardinality(born)
          BY <3>1, Zenon DEF TakenInv
        <4> QED  BY <2>6, <4>1
      <3> QED  BY <3>1, <3>2, <3>3, <3>4, Zenon DEF TakenInv
    <2>8. row.id \in Nat /\ row.id \notin Corrected /\ Corrected' = Corrected
      <3>1. \A id \in Corrected : id \in 1..Cardinality(born)
        BY Zenon DEF TakenInv, Corrected
      <3>2. Corrected' = Corrected
        BY <1>3, Zenon DEF Corrected
      <3> QED  BY <2>2, <2>6, <3>1, <3>2 DEF NextId
    <2>9. new \in SourceRows /\ new.receipt = row.id /\ new.labels = row.labels
          /\ new.source = row.source /\ new.digest = <<q.source, q.text>> /\ ~new.suppressed
      BY <1>0, <2>2, <2>8, Zenon DEF SourceRows, EvidenceDigest
    <2>10. sources' = sources \union {new}
      BY <2>1
    <2> HIDE DEF new
    <2>11. SourceInv'
      <3>1. sources' \subseteq SourceRows
        BY <2>9, <2>10 DEF SourceInv
      <3>2. \A r \in born' : r.source # None =>
               \E s \in sources' : s.labels = r.labels /\ s.source = r.source
        BY <2>3, <2>9, <2>10 DEF SourceInv
      <3>3. \A s \in sources :
               /\ \E r \in born' : /\ r.id = s.receipt /\ r.labels = s.labels /\ r.source = s.source
                                   /\ s.digest = <<s.source, r.digest[2]>>
               /\ s.receipt \in Corrected' => s.suppressed
        BY <2>3, <2>8 DEF SourceInv
      <3>4. /\ row \in born' /\ row.id = new.receipt /\ row.labels = new.labels
            /\ row.source = new.source /\ new.digest = <<new.source, row.digest[2]>>
            /\ new.receipt \notin Corrected'
        BY <2>2, <2>3, <2>8, <2>9
      <3> QED  BY <2>10, <3>1, <3>2, <3>3, <3>4, Zenon DEF SourceInv
    <2>12. Growth
      BY <1>3, <2>3, <2>10, Zenon DEF Growth
    <2>13. Founded(q, row.id)'
      BY <1>0, <2>2, <2>9, <2>10 DEF Founded
    <2>14. AcceptedInv'
      BY <2>1, <2>12, <2>13, AcceptedStays
    <2>15. IndexInv'
      BY <2>1, <2>3 DEF IndexInv
    <2>16. GovernedStaysRefused'
      BY <2>1, <2>3, <2>8, Zenon DEF Accept, GovernedStaysRefused, Live
    <2> QED  BY <2>6, <2>7, <2>11, <2>14, <2>15, <2>16
  <1> QED  BY <1>1, <1>2, <1>3 DEF SubmitEvidence

(* A management effect is remembered once. *)
LEMMA EffectsGrow ==
    ASSUME TakenInv, NEW q, q.op \in {"correct", "delete"}, Effect(q) = {}, NEW id, Remembering(q, id)
    PROVE  /\ effects \subseteq effects' /\ Founded(q, id)'
           /\ \A e, f \in effects' :
                 e.request.op = f.request.op /\ e.request.key = f.request.key => e = f
           /\ \E e \in effects' : e.request = q
  <1> DEFINE new == [request |-> q, result |-> id]
  <1>1. effects' = effects \union {new} /\ new.request = q /\ new.result = id
    BY DEF Remembering
  <1> HIDE DEF new
  <1>2. \A e \in effects : ~(e.request.op = q.op /\ e.request.key = q.key)
    BY DEF Effect
  <1>3. \A e, f \in effects' :
          e.request.op = f.request.op /\ e.request.key = f.request.key => e = f
    BY <1>1, <1>2 DEF TakenInv
  <1>4. Founded(q, id)'
    BY <1>1 DEF Founded
  <1> QED  BY <1>1, <1>3, <1>4

(* A retry of the owner finds the effect. *)
LEMMA Replaying ==
    ASSUME IngestionInv, NEW q \in CorrectRequests \union DeleteRequests, NEW e \in Effect(q),
           Replay(q, e), UNCHANGED Stored
    PROVE  IngestionInv'
  <1> USE DEF IngestionInv
  <1>1. TablesInv' /\ IndexInv' /\ Growth
    BY TablesStay
  <1>2. CASE Refuse(q, "conflict")
    BY <1>1, <1>2, Refusing
  <1>3. CASE e.request = q /\ Accept(q, e.result)
    <2>1. q.op \in {"correct", "delete"}
      BY DEF CorrectRequests, DeleteRequests
    <2>2. Founded(q, e.result)
      BY <1>3, <2>1 DEF Founded, Effect
    <2>3. AcceptedInv'
      BY <1>1, <1>3, <2>2, FoundedStays, AcceptedStays
    <2>4. GovernedStaysRefused'
      BY <1>3, OwnerAnswers
    <2> QED  BY <1>1, <2>3, <2>4
  <1> QED  BY <1>2, <1>3 DEF Replay

LEMMA CorrectReceiptKeeps ==
    ASSUME IngestionInv, NEW q \in CorrectRequests, CorrectReceipt(q)
    PROVE  IngestionInv'
  <1> USE DEF IngestionInv, TablesInv
  <1>0. q.op = "correct" /\ q.key \in ManagementKeys
    BY DEF CorrectRequests
  <1>1. CASE (\E e \in Effect(q) : Replay(q, e)) /\ UNCHANGED Stored
    BY <1>1, Replaying
  <1>2. CASE UNCHANGED Stored /\ \E verdict \in {"not_found", "conflict"} : Refuse(q, verdict)
    BY <1>2, TablesStay, Refusing
  <1>3. CASE /\ Effect(q) = {} /\ q.receipt \in Live /\ q.receipt \notin Corrected
             /\ LET labels == (CHOOSE r \in receipts : r.id = q.receipt).labels
                    row == Row(<<"correction", q.key>>, Digest("correction", q.text, labels), labels, None)
                IN  /\ Insert(row) /\ Project(receipts', {row.id})
                    /\ corrections' = corrections \union {<<q.receipt, row.id>>}
                    /\ Remembering(q, row.id) /\ Accept(q, row.id)
             /\ SuppressCorrected(q.receipt)
             /\ UNCHANGED <<tombstones, denied>>
    <2>1. PICK labels, row :
             /\ row = Row(<<"correction", q.key>>, Digest("correction", q.text, labels), labels, None)
             /\ Insert(row) /\ Project(receipts', {row.id})
             /\ corrections' = corrections \union {<<q.receipt, row.id>>}
             /\ Remembering(q, row.id) /\ Accept(q, row.id)
      BY <1>3, Zenon
    <2>2. /\ row.id = NextId /\ row.key = <<"correction", q.key>> /\ row.source = None
          /\ row.digest[3] = row.labels
      BY <2>1 DEF Row, Digest
    <2>3. born' = born \union {row} /\ receipts' = receipts \union {row}
      BY <2>1 DEF Insert
    <2>4. ASSUME NEW r \in born
          PROVE  r.key # row.key
      <3>1. CASE r.key \in Keys
        BY <1>0, <2>2, <3>1, IngestionAssumption
      <3>2. ASSUME NEW e \in effects, e.request.op = "correct", r.key = <<"correction", e.request.key>>
            PROVE  r.key # row.key
        <4>1. e.request.key # q.key
          BY <1>0, <1>3, <3>2, Zenon DEF Effect
        <4> QED  BY <2>2, <3>2, <4>1
      <3> QED  BY <3>1, <3>2 DEF TakenInv
    <2>5. /\ BornInv' /\ Cardinality(born) \in Nat
          /\ Cardinality(born') = Cardinality(born) + 1
      BY <2>2, <2>3, <2>4, Added, Zenon
    <2>6. /\ effects \subseteq effects' /\ Founded(q, row.id)'
          /\ \A e, f \in effects' :
                e.request.op = f.request.op /\ e.request.key = f.request.key => e = f
          /\ \E e \in effects' : e.request = q
      <3>1. TakenInv /\ q.op \in {"correct", "delete"} /\ Effect(q) = {} /\ Remembering(q, row.id)
        BY <1>0, <1>3, <2>1, Zenon
      <3> QED  BY <3>1, EffectsGrow
    <2>7. q.receipt \in 1..Cardinality(born)
      BY <1>3, Zenon DEF Live, TakenInv, BornInv
    <2>8. TakenInv'
      <3>1. receipts' \subseteq born' /\ \A r \in born' \ receipts' : Tombstoned(r.key)'
        BY <1>3, <2>3, Zenon DEF TakenInv, Tombstoned
      <3>2. \A r \in born' :
               \/ r.key \in Keys
               \/ \E e \in effects' : e.request.op = "correct" /\ r.key = <<"correction", e.request.key>>
        BY <1>0, <2>2, <2>3, <2>6, Zenon DEF TakenInv
      <3>3. \A c \in corrections' : c[1] \in 1..Cardinality(born')
        <4> SUFFICES ASSUME NEW c \in corrections'
                     PROVE  c[1] \in 1..Cardinality(born')
          OBVIOUS
        <4>1. c \in corrections \/ c = <<q.receipt, row.id>>
          BY <2>1, Zenon
        <4>2. c \in corrections => c[1] \in 1..Cardinality(born)
          BY Zenon DEF TakenInv
        <4>3. c = <<q.receipt, row.id>> => c[1] = q.receipt
          OBVIOUS
        <4> QED  BY <2>5, <2>7, <4>1, <4>2, <4>3
      <3> QED  BY <2>6, <3>1, <3>2, <3>3, Zenon DEF TakenInv
    <2>9. /\ sources' \subseteq SourceRows
          /\ \A s \in sources : \E t \in sources' :
                /\ t.receipt = s.receipt /\ t.labels = s.labels
                /\ t.source = s.source /\ t.digest = s.digest
          /\ \A t \in sources' : \E s \in sources :
                /\ t.receipt = s.receipt /\ t.labels = s.labels
                /\ t.source = s.source /\ t.digest = s.digest
                /\ s.suppressed \/ s.receipt = q.receipt => t.suppressed
      <3>1. Suppress(q.receipt) /\ sources \subseteq SourceRows
        BY <1>3, Zenon DEF SuppressCorrected, SourceInv
      <3> QED  BY <3>1, Suppressing
    <2>10. \A id \in Corrected' : id \in Corrected \/ id = q.receipt
      <3>1. corrections' = corrections \union {<<q.receipt, row.id>>}
        BY <2>1, Zenon
      <3> QED  BY <3>1 DEF Corrected
    <2>11. SourceInv'
      <3>1. \A r \in born' : r.source # None =>
               \E s \in sources' : s.labels = r.labels /\ s.source = r.source
        BY <2>2, <2>3, <2>9 DEF SourceInv
      <3>2. ASSUME NEW t \in sources'
            PROVE  /\ \E r \in born' : /\ r.id = t.receipt /\ r.labels = t.labels /\ r.source = t.source
                                       /\ t.digest = <<t.source, r.digest[2]>>
                   /\ t.receipt \in Corrected' => t.suppressed
        <4>1. PICK s \in sources :
                 /\ t.receipt = s.receipt /\ t.labels = s.labels
                 /\ t.source = s.source /\ t.digest = s.digest
                 /\ s.suppressed \/ s.receipt = q.receipt => t.suppressed
          BY <2>9
        <4>2. /\ \E r \in born : /\ r.id = s.receipt /\ r.labels = s.labels /\ r.source = s.source
                                 /\ s.digest = <<s.source, r.digest[2]>>
              /\ s.receipt \in Corrected => s.suppressed
          BY DEF SourceInv
        <4> QED  BY <2>3, <2>10, <4>1, <4>2
      <3> QED  BY <2>9, <3>1, <3>2, Zenon DEF SourceInv
    <2>12. Growth
      BY <2>3, <2>6, <2>9 DEF Growth
    <2>13. AcceptedInv'
      BY <2>1, <2>6, <2>12, AcceptedStays
    <2>14. IndexInv'
      BY <2>1, <2>3, Projecting
    <2>15. GovernedStaysRefused'
      BY <2>1, OwnerAnswers
    <2> QED  BY <2>5, <2>8, <2>11, <2>13, <2>14, <2>15
  <1> QED  BY <1>1, <1>2, <1>3, Zenon DEF CorrectReceipt

LEMMA DeleteReceiptKeeps ==
    ASSUME IngestionInv, NEW q \in DeleteRequests, DeleteReceipt(q)
    PROVE  IngestionInv'
  <1> USE DEF IngestionInv, TablesInv
  <1>0. q.op = "delete"
    BY DEF DeleteRequests
  <1>1. CASE (\E e \in Effect(q) : Replay(q, e)) /\ UNCHANGED Stored
    BY <1>1, Replaying
  <1>2. CASE Refuse(q, "not_found") /\ UNCHANGED Stored
    BY <1>2, TablesStay, Refusing
  <1>3. CASE /\ Effect(q) = {} /\ Remembering(q, q.receipt) /\ Accept(q, q.receipt)
             /\ UNCHANGED <<receipts, tombstones, sources, corrections, denied, index, born>>
    <2>1. /\ effects \subseteq effects' /\ Founded(q, q.receipt)'
          /\ \A e, f \in effects' :
                e.request.op = f.request.op /\ e.request.key = f.request.key => e = f
      BY <1>0, <1>3, EffectsGrow
    <2>2. BornInv' /\ IndexInv'
      BY <1>3, Zenon DEF BornInv, IndexInv
    <2>3. TakenInv'
      BY <1>3, <2>1, Zenon DEF TakenInv, Tombstoned
    <2>4. SourceInv'
      BY <1>3, Zenon DEF SourceInv, Corrected
    <2>5. Growth
      BY <1>3, <2>1 DEF Growth
    <2>6. AcceptedInv'
      BY <1>3, <2>1, <2>5, AcceptedStays
    <2>7. GovernedStaysRefused'
      BY <1>3, OwnerAnswers
    <2> QED  BY <2>2, <2>3, <2>4, <2>6, <2>7
  <1>4. ASSUME Effect(q) = {}, NEW r \in receipts, r.id = q.receipt, Bury(r),
               receipts' = receipts \ {r}, Project(receipts', {}), Suppress(q.receipt),
               Remembering(q, q.receipt), Accept(q, q.receipt),
               UNCHANGED <<corrections, denied, born>>
        PROVE  IngestionInv'
    <2>1. /\ effects \subseteq effects' /\ Founded(q, q.receipt)'
          /\ \A e, f \in effects' :
                e.request.op = f.request.op /\ e.request.key = f.request.key => e = f
      BY <1>0, <1>4, EffectsGrow
    <2>2. BornInv'
      BY <1>4 DEF BornInv
    <2>3. TakenInv'
      <3>1. Tombstoned(r.key)' /\ \A key : Tombstoned(key) => Tombstoned(key)'
        <4> DEFINE new == [receipt |-> r.id, key |-> r.key]
        <4>1. tombstones' = tombstones \union {new} /\ new.key = r.key
          BY <1>4 DEF Bury
        <4> HIDE DEF new
        <4> QED  BY <4>1 DEF Tombstoned
      <3>2. receipts' \subseteq born' /\ \A x \in born' \ receipts' : Tombstoned(x.key)'
        BY <1>4, <3>1, Zenon DEF TakenInv
      <3> QED  BY <1>4, <2>1, <3>2, Zenon DEF TakenInv
    <2>4. /\ sources' \subseteq SourceRows
          /\ \A s \in sources : \E t \in sources' :
                /\ t.receipt = s.receipt /\ t.labels = s.labels
                /\ t.source = s.source /\ t.digest = s.digest
          /\ \A t \in sources' : \E s \in sources :
                /\ t.receipt = s.receipt /\ t.labels = s.labels
                /\ t.source = s.source /\ t.digest = s.digest
                /\ s.suppressed \/ s.receipt = q.receipt => t.suppressed
      <3>1. Suppress(q.receipt) /\ sources \subseteq SourceRows
        BY <1>4, Zenon DEF SourceInv
      <3> QED  BY <3>1, Suppressing
    <2>5. SourceInv'
      <3>1. \A x \in born' : x.source # None =>
               \E s \in sources' : s.labels = x.labels /\ s.source = x.source
        <4>1. born' = born /\ \A x \in born : x.source # None =>
                                 \E s \in sources : s.labels = x.labels /\ s.source = x.source
          BY <1>4, Zenon DEF SourceInv
        <4> QED  BY <2>4, <4>1
      <3>2. Corrected' = Corrected
        BY <1>4, Zenon DEF Corrected
      <3>3. ASSUME NEW t \in sources'
            PROVE  /\ \E x \in born' : /\ x.id = t.receipt /\ x.labels = t.labels /\ x.source = t.source
                                       /\ t.digest = <<t.source, x.digest[2]>>
                   /\ t.receipt \in Corrected' => t.suppressed
        <4>1. PICK s \in sources :
                 /\ t.receipt = s.receipt /\ t.labels = s.labels
                 /\ t.source = s.source /\ t.digest = s.digest
                 /\ s.suppressed \/ s.receipt = q.receipt => t.suppressed
          BY <2>4, Zenon
        <4>2. /\ \E x \in born : /\ x.id = s.receipt /\ x.labels = s.labels /\ x.source = s.source
                                 /\ s.digest = <<s.source, x.digest[2]>>
              /\ s.receipt \in Corrected => s.suppressed
          BY Zenon DEF SourceInv
        <4>3. born' = born
          BY <1>4, Zenon
        <4> QED  BY <3>2, <4>1, <4>2, <4>3
      <3> QED  BY <2>4, <3>1, <3>3, Zenon DEF SourceInv
    <2>6. Growth
      BY <1>4, <2>1, <2>4 DEF Growth
    <2>7. AcceptedInv'
      BY <1>4, <2>1, <2>6, AcceptedStays, Zenon
    <2>8. IndexInv'
      BY <1>4, Projecting, Zenon
    <2>9. GovernedStaysRefused'
      BY <1>4, OwnerAnswers, Zenon
    <2> QED  BY <2>2, <2>3, <2>5, <2>7, <2>8, <2>9
  <1>5. CASE /\ Effect(q) = {} /\ q.receipt \notin Live
             /\ IF \E t \in tombstones : t.receipt = q.receipt
                THEN Remembering(q, q.receipt) /\ Accept(q, q.receipt)
                ELSE Refuse(q, "not_found") /\ UNCHANGED effects
             /\ UNCHANGED <<receipts, tombstones, sources, corrections, denied, index, born>>
    <2>1. CASE \E t \in tombstones : t.receipt = q.receipt
      BY <1>3, <1>5, <2>1, Zenon
    <2>2. CASE ~\E t \in tombstones : t.receipt = q.receipt
      BY <1>2, <1>5, <2>2, Zenon DEF Stored
    <2> QED  BY <2>1, <2>2
  <1>6. CASE /\ Effect(q) = {}
             /\ \E r \in receipts : /\ r.id = q.receipt /\ Bury(r)
                                    /\ receipts' = receipts \ {r} /\ Project(receipts', {})
             /\ Suppress(q.receipt)
             /\ Remembering(q, q.receipt) /\ Accept(q, q.receipt)
             /\ UNCHANGED <<corrections, denied, born>>
    BY <1>4, <1>6, Zenon
  <1> QED  BY <1>1, <1>5, <1>6, Zenon DEF DeleteReceipt

LEMMA PolicyKeeps ==
    ASSUME IngestionInv, UNCHANGED <<receipts, tombstones, sources, corrections, effects, index,
                                     born, accepted, answer>>
    PROVE  IngestionInv'
  <1> USE DEF IngestionInv, TablesInv
  <1>1. BornInv' /\ IndexInv'
    BY DEF BornInv, IndexInv
  <1>2. TakenInv'
    BY DEF TakenInv, Tombstoned
  <1>3. SourceInv'
    BY DEF SourceInv, Corrected
  <1>4. AcceptedInv'
    BY Zenon DEF AcceptedInv, Founded
  <1>5. GovernedStaysRefused'
    BY DEF GovernedStaysRefused, Live, Corrected
  <1> QED  BY <1>1, <1>2, <1>3, <1>4, <1>5

LEMMA StepKeeps == IngestionInv /\ [Next]_vars => IngestionInv'
  <1> SUFFICES ASSUME IngestionInv, [Next]_vars
               PROVE  IngestionInv'
    OBVIOUS
  <1>1. ASSUME NEW labels, NEW deny, SetIngestionPolicy(labels, deny)
        PROVE  IngestionInv'
    BY <1>1, PolicyKeeps DEF SetIngestionPolicy
  <1>2. CASE UNCHANGED vars
    BY <1>2, PolicyKeeps DEF vars
  <1> QED
    BY <1>1, <1>2, RememberKeeps, SubmitEvidenceKeeps, CorrectReceiptKeeps, DeleteReceiptKeeps
    DEF Next

-----------------------------------------------------------------------------
(* Remember and SubmitEvidence create one receipt for an effect identity    *)
(* and a source, for ever, and answer every retry with it.                  *)
THEOREM ExactlyOneReceipt == Spec => []OriginalResult
  BY InitEstablishes, StepKeeps, InvGivesOriginalResult, PTL DEF Spec

(* No retry of a host is answered with a receipt that DeleteReceipt has     *)
(* removed, nor a submission with one that CorrectReceipt has replaced.     *)
THEOREM RemovedStaysRefused == Spec => []GovernedStaysRefused
  <1>1. IngestionInv => GovernedStaysRefused
    BY DEF IngestionInv
  <1> QED  BY InitEstablishes, StepKeeps, <1>1, PTL DEF Spec

(* What was accepted can be recalled until it is corrected or deleted,      *)
(* whichever handlers extend or rebuild the projection.                     *)
THEOREM AcceptedIsRecalled == Spec => []ReadYourWrites
  BY InitEstablishes, StepKeeps, InvGivesReadYourWrites, PTL DEF Spec

-----------------------------------------------------------------------------
(* The lexicon *)

EvidenceRows == [term : Terms, document : Documents, use : Uses]
Standings == {"unknown", "candidate", "active", "retired"}
Kinds == {"absent", "learned", "evidence", "corrected", "deleted"}

(* Evidence E carries standing S: a term is known by some row and active by *)
(* two. *)
Carries(E, S) ==
    /\ E \subseteq EvidenceRows /\ IsFiniteSet(E)
    /\ S \in [Terms -> Standings]
    /\ \A t \in Terms : /\ S[t] # "unknown" => Support(E, t) # {}
                        /\ S[t] = "active" => Frequency(E, t) >= 2

LexiconInv ==
    /\ kind \in [Documents -> Kinds]
    /\ content \in [Documents -> Contents]
    /\ Carries(evidence, standing)
    /\ VocabularyForgets
    /\ SegmentedAlike

LEMMA BlankIsContent == Blank \in Contents /\ DOMAIN Blank = {}
  <1>1. Blank \in [{} -> Uses] /\ DOMAIN Blank = {}
    BY DEF Blank
  <1> QED  BY <1>1, Zenon DEF Contents

LEMMA ContentTerms ==
    ASSUME NEW text \in Contents
    PROVE  DOMAIN text \subseteq Terms /\ \A t \in DOMAIN text : text[t] \in Uses
  BY DEF Contents

LEMMA FewerRowsFinite == ASSUME NEW E, IsFiniteSet(E), NEW P \in SUBSET E
                         PROVE  IsFiniteSet(P) /\ Cardinality(P) \in Nat
  BY FS_Subset, FS_CardinalityType

LEMMA FrequencyIsNat == ASSUME NEW E, IsFiniteSet(E), NEW t
                        PROVE  Frequency(E, t) \in Nat
  <1>1. Support(E, t) \in SUBSET E
    BY DEF Support
  <1> QED  BY <1>1, FewerRowsFinite DEF Frequency

AlikeBut(E2, E1, affected) == \A t \in Terms : t \notin affected => Support(E2, t) = Support(E1, t)
AddsOnly(E2, E1, d, text) == \A e \in E2 : e \in E1 \/ (e.document = d /\ e.term \in DOMAIN text)

(* refreshLexiconTerms restores what withdrawing and learning disturb, as   *)
(* long as the terms it is given are all that gained or lost a row. *)
LEMMA RefreshCarries ==
    ASSUME NEW E1, NEW S, Carries(E1, S), NEW E2, E2 \subseteq EvidenceRows, IsFiniteSet(E2),
           NEW affected, AlikeBut(E2, E1, affected)
    PROVE  Carries(E2, Refreshed(S, E2, affected))
  <1> DEFINE S2 == Refreshed(S, E2, affected)
  <1>1. \A t \in Terms : S2[t] = IF t \notin affected THEN S[t]
                                 ELSE IF Support(E2, t) = {} THEN "unknown"
                                 ELSE IF LexiconTermActive(E2, t) THEN "active"
                                 ELSE IF S[t] \in {"active", "retired"} THEN "retired" ELSE "candidate"
    BY Zenon DEF Refreshed
  <1>2. S2 \in [Terms -> Standings]
    <2>1. \A t \in Terms : S[t] \in Standings
      BY DEF Carries
    <2>2. \A t \in Terms : S2[t] \in Standings
      BY <1>1, <2>1, Zenon DEF Standings
    <2>3. S2 = [t \in Terms |-> S2[t]]
      BY Zenon DEF Refreshed
    <2> HIDE DEF S2
    <2> QED BY <2>2, <2>3
  <1> HIDE DEF S2
  <1>3. ASSUME NEW t \in Terms
        PROVE  /\ S2[t] # "unknown" => Support(E2, t) # {}
               /\ S2[t] = "active" => Frequency(E2, t) >= 2
    <2>1. CASE t \notin affected
      <3>1. S2[t] = S[t] /\ Support(E2, t) = Support(E1, t)
        BY <1>1, <2>1, Zenon DEF AlikeBut
      <3> QED BY <3>1, Zenon DEF Carries, Frequency
    <2>2. CASE t \in affected
      <3>1. S2[t] # "unknown" => Support(E2, t) # {}
        BY <1>1, <2>2, Zenon
      <3>2. S2[t] = "active" => LexiconTermActive(E2, t)
        BY <1>1, <2>2
      <3>3. LexiconTermActive(E2, t) => Frequency(E2, t) >= 2
        <4>1. Frequency(E2, t) \in Nat
          BY FrequencyIsNat
        <4>2. LexiconTermActive(E2, t) => Frequency(E2, t) >= MinDocumentFrequency
          BY Zenon DEF LexiconTermActive
        <4> QED BY <4>1, <4>2, LexiconAssumption
      <3> QED BY <3>1, <3>2, <3>3, Zenon
    <2> QED BY <2>1, <2>2
  <1> QED  BY <1>2, <1>3 DEF Carries, S2

LEMMA LearnedRows ==
    ASSUME NEW E, E \subseteq EvidenceRows, IsFiniteSet(E), NEW d \in Documents, NEW text \in Contents
    PROVE  /\ Learned(E, d, text) \subseteq EvidenceRows /\ IsFiniteSet(Learned(E, d, text))
           /\ AlikeBut(Learned(E, d, text), E, DOMAIN text)
           /\ AddsOnly(Learned(E, d, text), E, d, text)
  <1> DEFINE T == DOMAIN text
             f == [t \in T |-> [term |-> t, document |-> d, use |-> text[t]]]
             N == {[term |-> t, document |-> d, use |-> text[t]] : t \in T}
  <1>1. T \subseteq Terms /\ \A t \in T : text[t] \in Uses
    BY ContentTerms
  <1>2. IsFiniteSet(T)
    BY <1>1, LexiconAssumption, FS_Subset
  <1> HIDE DEF T
  <1>3. IsFiniteSet(N)
    <2>1. f \in Surjection(T, N)
      BY DEF Surjection
    <2> HIDE DEF f, N
    <2> QED BY <1>2, <2>1, FS_Surjection
  <1>4. N \subseteq EvidenceRows /\ \A e \in N : e.document = d /\ e.term \in T
    BY <1>1 DEF EvidenceRows
  <1>5. Learned(E, d, text) = E \union N
    BY Zenon DEF Learned, T
  <1> HIDE DEF N
  <1>6. IsFiniteSet(E \union N)
    BY <1>3, FS_Union, Zenon
  <1>7. \A t \in Terms : t \notin T => Support(E \union N, t) = Support(E, t)
    BY <1>4, Zenon DEF Support
  <1>8. /\ E \union N \subseteq EvidenceRows
        /\ \A e \in E \union N : e \in E \/ (e.document = d /\ e.term \in T)
    BY <1>4
  <1> QED  BY <1>5, <1>6, <1>7, <1>8, Zenon DEF T, AlikeBut, AddsOnly

LEMMA RemovedRows ==
    ASSUME NEW E, E \subseteq EvidenceRows, IsFiniteSet(E), NEW d
    PROVE  /\ Removed(E, d) \subseteq EvidenceRows /\ IsFiniteSet(Removed(E, d))
           /\ AlikeBut(Removed(E, d), E, TermsOf(E, d))
           /\ \A e \in Removed(E, d) : e \in E /\ e.document # d
  <1>1. Removed(E, d) \in SUBSET E
    BY Zenon DEF Removed
  <1>2. \A t \in Terms : t \notin TermsOf(E, d) => Support(Removed(E, d), t) = Support(E, t)
    BY Zenon DEF Removed, TermsOf, Support
  <1>3. IsFiniteSet(Removed(E, d))
    BY <1>1, FS_Subset
  <1>4. \A e \in Removed(E, d) : e \in E /\ e.document # d
    BY Zenon DEF Removed
  <1>5. Removed(E, d) \subseteq EvidenceRows
    BY <1>4, Zenon
  <1> QED  BY <1>2, <1>3, <1>4, <1>5, Zenon DEF AlikeBut

LEMMA LexiconInvInit == LexiconInit => LexiconInv
  <1> SUFFICES ASSUME LexiconInit PROVE LexiconInv
    OBVIOUS
  <1>1. kind \in [Documents -> Kinds] /\ \A d \in Documents : kind[d] = "absent"
    BY DEF LexiconInit, Kinds
  <1>2. content \in [Documents -> Contents]
    BY BlankIsContent DEF LexiconInit
  <1>3. standing \in [Terms -> Standings] /\ evidence = {} /\ \A t \in Terms : standing[t] = "unknown"
    BY DEF LexiconInit, Standings
  <1>4. Carries(evidence, standing)
    BY <1>3, FS_EmptySet DEF Carries
  <1>5. VocabularyForgets
    BY <1>3 DEF VocabularyForgets
  <1>6. DOMAIN rows = {} /\ DOMAIN recordRows = {} /\ Held(kind) = {}
    <2>1. DOMAIN rows = {} /\ DOMAIN recordRows = {}
      BY BlankIsContent DEF LexiconInit
    <2> QED BY <1>1, <2>1 DEF Held
  <1>7. SegmentedAlike
    BY <1>6, Zenon DEF SegmentedAlike
  <1> QED  BY <1>1, <1>2, <1>4, <1>5, <1>7 DEF LexiconInv

(* The first half of VocabularyForgets: the receipts of the evidence stand. *)
Stands(E, K, C) ==
    \A e \in E : K[e.document] = "learned" /\ e.term \in DOMAIN C[e.document]

(* SegmentedAlike, of any receipts, projections and standing. *)
AlikeRows(K, R, S) ==
    /\ DOMAIN R = Held(K)
    /\ \A d \in DOMAIN R : R[d] = ActiveTerms(S) \/ (R[d] = {} /\ K[d] # "learned")
AlikeRecords(Q, S) == \A d \in DOMAIN Q : Q[d] \in {{}, ActiveTerms(S)}

LEMMA LexiconInvGives ==
    ASSUME LexiconInv
    PROVE  /\ kind \in [Documents -> Kinds] /\ content \in [Documents -> Contents]
           /\ Carries(evidence, standing) /\ Stands(evidence, kind, content)
           /\ AlikeRows(kind, rows, standing) /\ AlikeRecords(recordRows, standing)
  BY DEF LexiconInv, VocabularyForgets, SegmentedAlike, Stands, AlikeRows, AlikeRecords

LEMMA LexiconInvFrom ==
    ASSUME kind' \in [Documents -> Kinds], content' \in [Documents -> Contents],
           Carries(evidence', standing'), Stands(evidence', kind', content'),
           AlikeRows(kind', rows', standing'), AlikeRecords(recordRows', standing')
    PROVE  LexiconInv'
  <1>1. VocabularyForgets'
    BY Zenon DEF VocabularyForgets, Carries, Stands
  <1>2. SegmentedAlike'
    BY Zenon DEF SegmentedAlike, AlikeRows, AlikeRecords
  <1> QED  BY <1>1, <1>2 DEF LexiconInv

LEMMA RebuiltIsAlike ==
    ASSUME NEW K, NEW records, NEW S, Rebuilt(K, records, S)
    PROVE  AlikeRows(K, rows', S) /\ AlikeRecords(recordRows', S)
  BY DEF Rebuilt, AlikeRows, AlikeRecords

(* A row more, made by the terms active now. *)
LEMMA AddedIsAlike ==
    ASSUME NEW K, NEW R, NEW S, AlikeRows(K, R, S), NEW K2, NEW S2, NEW d \in Documents,
           ActiveTerms(S2) = ActiveTerms(S), Held(K2) = Held(K) \union {d},
           \A x \in Documents : x # d /\ K2[x] = "learned" => K[x] = "learned",
           NEW terms, terms = ActiveTerms(S) \/ (terms = {} /\ K2[d] # "learned")
    PROVE  AlikeRows(K2, With(R, d, terms), S2)
  <1> DEFINE W == With(R, d, terms)
  <1>1. DOMAIN W = Held(K2)
    BY Zenon DEF With, AlikeRows
  <1>2. \A x \in DOMAIN W : W[x] = IF x = d THEN terms ELSE R[x]
    BY Zenon DEF With
  <1>3. \A x \in DOMAIN W : x \in Documents /\ (x # d => x \in DOMAIN R)
    BY <1>1, Zenon DEF Held, AlikeRows
  <1> HIDE DEF W
  <1>4. \A x \in DOMAIN W : W[x] = ActiveTerms(S2) \/ (W[x] = {} /\ K2[x] # "learned")
    BY <1>2, <1>3, Zenon DEF AlikeRows
  <1>5. AlikeRows(K2, W, S2)
    BY <1>1, <1>4, Zenon DEF AlikeRows
  <1> QED  BY <1>5 DEF W

LEMMA RecordsStayAlike ==
    ASSUME NEW Q, NEW S, AlikeRecords(Q, S), NEW S2, ActiveTerms(S2) = ActiveTerms(S), NEW d
    PROVE  /\ AlikeRecords(Q, S2) /\ AlikeRecords(Without(Q, d), S2)
           /\ AlikeRecords(With(Q, d, {}), S2) /\ AlikeRecords(With(Q, d, ActiveTerms(S)), S2)
  BY DEF AlikeRecords, With, Without

LEMMA RememberTextKeeps ==
    ASSUME LexiconInv, NEW d \in Documents, NEW text \in Contents, RememberText(d, text)
    PROVE  LexiconInv'
  <1> DEFINE E == Learned(evidence, d, text)
             S == Refreshed(standing, E, DOMAIN text)
  <1>1. /\ kind[d] = "absent" /\ kind' = [kind EXCEPT ![d] = "learned"]
        /\ content' = [content EXCEPT ![d] = text]
        /\ evidence' = E /\ standing' = S
        /\ IF Changed(standing, S) THEN Rebuilt(kind', recordRows, S)
           ELSE rows' = With(rows, d, ActiveTerms(S)) /\ UNCHANGED recordRows
    BY Zenon DEF RememberText
  <1>2. /\ kind \in [Documents -> Kinds] /\ content \in [Documents -> Contents]
        /\ Carries(evidence, standing) /\ Stands(evidence, kind, content)
        /\ AlikeRows(kind, rows, standing) /\ AlikeRecords(recordRows, standing)
    BY LexiconInvGives
  <1>3. evidence \subseteq EvidenceRows /\ IsFiniteSet(evidence)
    BY <1>2 DEF Carries
  <1>4. /\ E \subseteq EvidenceRows /\ IsFiniteSet(E)
        /\ AlikeBut(E, evidence, DOMAIN text) /\ AddsOnly(E, evidence, d, text)
    BY <1>3, LearnedRows, Zenon
  <1> HIDE DEF E
  <1>5. Carries(E, S)
    BY <1>2, <1>4, RefreshCarries, Zenon
  <1> HIDE DEF S
  <1>6. kind' \in [Documents -> Kinds] /\ content' \in [Documents -> Contents]
    BY <1>1, <1>2 DEF Kinds
  <1>7. /\ kind'[d] = "learned" /\ content'[d] = text
        /\ \A x \in Documents : x # d => kind'[x] = kind[x] /\ content'[x] = content[x]
    BY <1>1, <1>2
  <1>8. Stands(E, kind', content')
    <2>1. \A e \in evidence : e.document \in Documents /\ e.document # d
      <3>1. \A e \in evidence : e.document \in Documents
        BY <1>3 DEF EvidenceRows
      <3>2. \A e \in evidence : kind[e.document] = "learned"
        BY <1>2, Zenon DEF Stands
      <3> QED BY <1>1, <3>1, <3>2
    <2> QED BY <1>2, <1>4, <1>7, <2>1, Zenon DEF Stands, AddsOnly
  <1>9. AlikeRows(kind', rows', S) /\ AlikeRecords(recordRows', S)
    <2>1. CASE Changed(standing, S)
      BY <1>1, <2>1, RebuiltIsAlike
    <2>2. CASE ~Changed(standing, S)
      <3>1. ActiveTerms(S) = ActiveTerms(standing)
        BY <2>2, Zenon DEF Changed
      <3>2. Held(kind') = Held(kind) \union {d}
        BY <1>7 DEF Held
      <3>3. \A x \in Documents : x # d /\ kind'[x] = "learned" => kind[x] = "learned"
        BY <1>7
      <3>4. AlikeRows(kind', With(rows, d, ActiveTerms(standing)), S)
        BY <1>2, <3>1, <3>2, <3>3, AddedIsAlike, Zenon
      <3>5. AlikeRecords(recordRows, S)
        BY <1>2, <3>1, RecordsStayAlike
      <3> QED BY <1>1, <2>2, <3>1, <3>4, <3>5
    <2> QED BY <2>1, <2>2
  <1> QED  BY <1>1, <1>5, <1>6, <1>8, <1>9, LexiconInvFrom

LEMMA SubmitTextKeeps ==
    ASSUME LexiconInv, NEW d \in Documents, NEW text \in Contents, NEW mutates,
           SubmitText(d, text, mutates)
    PROVE  LexiconInv'
  <1>1. /\ kind[d] = "absent" /\ kind' = [kind EXCEPT ![d] = "evidence"]
        /\ content' = [content EXCEPT ![d] = text]
        /\ evidence' = evidence /\ standing' = standing
        /\ rows' = With(rows, d, {})
        /\ recordRows' = With(recordRows, d, {}) \/ recordRows' = recordRows
    BY DEF SubmitText
  <1>2. /\ kind \in [Documents -> Kinds] /\ content \in [Documents -> Contents]
        /\ Carries(evidence, standing) /\ Stands(evidence, kind, content)
        /\ AlikeRows(kind, rows, standing) /\ AlikeRecords(recordRows, standing)
    BY LexiconInvGives
  <1>3. kind' \in [Documents -> Kinds] /\ content' \in [Documents -> Contents]
    BY <1>1, <1>2 DEF Kinds
  <1>4. /\ kind'[d] = "evidence"
        /\ \A x \in Documents : x # d => kind'[x] = kind[x] /\ content'[x] = content[x]
    BY <1>1, <1>2
  <1>5. Stands(evidence, kind', content')
    <2>1. \A e \in evidence : e.document \in Documents /\ e.document # d
      <3>1. \A e \in evidence : e.document \in Documents
        BY <1>2 DEF Carries, EvidenceRows
      <3>2. \A e \in evidence : kind[e.document] = "learned"
        BY <1>2, Zenon DEF Stands
      <3> QED BY <1>1, <3>1, <3>2
    <2> QED BY <1>2, <1>4, <2>1, Zenon DEF Stands
  <1>6. AlikeRows(kind', With(rows, d, {}), standing)
    <2>1. Held(kind') = Held(kind) \union {d}
      BY <1>4 DEF Held
    <2>2. \A x \in Documents : x # d /\ kind'[x] = "learned" => kind[x] = "learned"
      BY <1>4
    <2>3. kind'[d] # "learned"
      BY <1>4
    <2> QED BY <1>2, <2>1, <2>2, <2>3, AddedIsAlike, Zenon
  <1>7. AlikeRecords(recordRows', standing)
    BY <1>1, <1>2, RecordsStayAlike
  <1>8. /\ Carries(evidence', standing') /\ Stands(evidence', kind', content')
        /\ AlikeRows(kind', rows', standing') /\ AlikeRecords(recordRows', standing')
    BY <1>1, <1>2, <1>5, <1>6, <1>7
  <1> QED  BY <1>3, <1>8, LexiconInvFrom

LEMMA CorrectTextKeeps ==
    ASSUME LexiconInv, NEW d \in Documents, NEW r \in Documents, NEW text \in Contents,
           CorrectText(d, r, text)
    PROVE  LexiconInv'
  <1> DEFINE E1 == Removed(evidence, d)
             S1 == Refreshed(standing, E1, TermsOf(evidence, d))
             E2 == Learned(E1, r, text)
             S2 == Refreshed(S1, E2, DOMAIN text)
             records == Without(recordRows, d)
  <1>1. /\ kind[d] \in {"learned", "evidence"} /\ kind[r] = "absent"
        /\ kind' = [kind EXCEPT ![d] = "corrected", ![r] = "learned"]
        /\ content' = [content EXCEPT ![r] = text]
        /\ evidence' = E2 /\ standing' = S2
        /\ IF Changed(standing, S1) \/ Changed(S1, S2) THEN Rebuilt(kind', records, S2)
           ELSE rows' = With(rows, r, ActiveTerms(S2)) /\ recordRows' = records
    BY Zenon DEF CorrectText
  <1>2. /\ kind \in [Documents -> Kinds] /\ content \in [Documents -> Contents]
        /\ Carries(evidence, standing) /\ Stands(evidence, kind, content)
        /\ AlikeRows(kind, rows, standing) /\ AlikeRecords(recordRows, standing)
    BY LexiconInvGives
  <1>3. evidence \subseteq EvidenceRows /\ IsFiniteSet(evidence)
    BY <1>2 DEF Carries
  <1>4. /\ E1 \subseteq EvidenceRows /\ IsFiniteSet(E1)
        /\ AlikeBut(E1, evidence, TermsOf(evidence, d))
        /\ \A e \in E1 : e \in evidence /\ e.document # d
    BY <1>3, RemovedRows, Zenon
  <1> HIDE DEF E1
  <1>5. Carries(E1, S1)
    BY <1>2, <1>4, RefreshCarries, Zenon
  <1> HIDE DEF S1
  <1>6. /\ E2 \subseteq EvidenceRows /\ IsFiniteSet(E2)
        /\ AlikeBut(E2, E1, DOMAIN text) /\ AddsOnly(E2, E1, r, text)
    BY <1>4, LearnedRows, Zenon
  <1> HIDE DEF E2
  <1>7. Carries(E2, S2)
    BY <1>5, <1>6, RefreshCarries, Zenon
  <1> HIDE DEF S2, records
  <1>8. kind' \in [Documents -> Kinds] /\ content' \in [Documents -> Contents]
    BY <1>1, <1>2 DEF Kinds
  <1>9. d # r
    BY <1>1
  <1>10. /\ kind'[d] = "corrected" /\ kind'[r] = "learned" /\ content'[r] = text
         /\ \A x \in Documents : x # r => content'[x] = content[x] /\ (x # d => kind'[x] = kind[x])
    BY <1>1, <1>2, <1>9
  <1>11. Stands(E2, kind', content')
    <2>1. \A e \in E1 : e.document \in Documents /\ e.document # d /\ e.document # r
      <3>1. \A e \in E1 : e.document \in Documents
        BY <1>4 DEF EvidenceRows
      <3>2. \A e \in E1 : kind[e.document] = "learned"
        BY <1>2, <1>4, Zenon DEF Stands
      <3> QED BY <1>1, <1>4, <3>1, <3>2
    <2>2. \A e \in E1 : kind[e.document] = "learned" /\ e.term \in DOMAIN content[e.document]
      BY <1>2, <1>4, Zenon DEF Stands
    <2>3. \A e \in E1 : kind'[e.document] = "learned" /\ e.term \in DOMAIN content'[e.document]
      BY <1>10, <2>1, <2>2, Zenon
    <2> QED BY <1>6, <1>10, <2>3, Zenon DEF Stands, AddsOnly
  <1>12. AlikeRows(kind', rows', S2) /\ AlikeRecords(recordRows', S2)
    <2>1. CASE Changed(standing, S1) \/ Changed(S1, S2)
      BY <1>1, <2>1, RebuiltIsAlike
    <2>2. CASE ~(Changed(standing, S1) \/ Changed(S1, S2))
      <3>1. ActiveTerms(S2) = ActiveTerms(standing)
        BY <2>2, Zenon DEF Changed
      <3>2. Held(kind') = Held(kind) \union {r}
        <4>1. d \in Held(kind) /\ d \in Held(kind') /\ r \in Held(kind')
          BY <1>1, <1>10 DEF Held
        <4>2. \A x \in Documents : x # d /\ x # r => (x \in Held(kind') <=> x \in Held(kind))
          BY <1>10 DEF Held
        <4>3. Held(kind) \subseteq Documents /\ Held(kind') \subseteq Documents
          BY DEF Held
        <4> QED BY <4>1, <4>2, <4>3, Zenon
      <3>3. \A x \in Documents : x # r /\ kind'[x] = "learned" => kind[x] = "learned"
        BY <1>10
      <3>4. AlikeRows(kind', With(rows, r, ActiveTerms(standing)), S2)
        BY <1>2, <3>1, <3>2, <3>3, AddedIsAlike, Zenon
      <3>5. AlikeRecords(records, S2)
        BY <1>2, <3>1, RecordsStayAlike DEF records
      <3> QED BY <1>1, <2>2, <3>1, <3>4, <3>5
    <2> QED BY <2>1, <2>2
  <1> QED  BY <1>1, <1>7, <1>8, <1>11, <1>12, LexiconInvFrom

LEMMA DeleteTextKeeps ==
    ASSUME LexiconInv, NEW d \in Documents, DeleteText(d)
    PROVE  LexiconInv'
  <1> DEFINE E == Removed(evidence, d)
             S == Refreshed(standing, E, TermsOf(evidence, d))
             records == Without(recordRows, d)
  <1>1. /\ d \in Held(kind)
        /\ kind' = [kind EXCEPT ![d] = "deleted"] /\ content' = [content EXCEPT ![d] = Blank]
        /\ evidence' = E /\ standing' = S
        /\ IF Changed(standing, S) THEN Rebuilt(kind', records, S)
           ELSE rows' = Without(rows, d) /\ recordRows' = records
    BY Zenon DEF DeleteText
  <1>2. /\ kind \in [Documents -> Kinds] /\ content \in [Documents -> Contents]
        /\ Carries(evidence, standing) /\ Stands(evidence, kind, content)
        /\ AlikeRows(kind, rows, standing) /\ AlikeRecords(recordRows, standing)
    BY LexiconInvGives
  <1>3. evidence \subseteq EvidenceRows /\ IsFiniteSet(evidence)
    BY <1>2 DEF Carries
  <1>4. /\ E \subseteq EvidenceRows /\ IsFiniteSet(E)
        /\ AlikeBut(E, evidence, TermsOf(evidence, d))
        /\ \A e \in E : e \in evidence /\ e.document # d
    BY <1>3, RemovedRows, Zenon
  <1> HIDE DEF E
  <1>5. Carries(E, S)
    BY <1>2, <1>4, RefreshCarries, Zenon
  <1> HIDE DEF S, records
  <1>6. kind' \in [Documents -> Kinds] /\ content' \in [Documents -> Contents]
    BY <1>1, <1>2, BlankIsContent DEF Kinds
  <1>7. /\ kind'[d] = "deleted"
        /\ \A x \in Documents : x # d => kind'[x] = kind[x] /\ content'[x] = content[x]
    BY <1>1, <1>2
  <1>8. Stands(E, kind', content')
    <2>1. \A e \in E : e.document \in Documents
      BY <1>4 DEF EvidenceRows
    <2>2. \A e \in E : kind[e.document] = "learned" /\ e.term \in DOMAIN content[e.document]
      BY <1>2, <1>4, Zenon DEF Stands
    <2> QED BY <1>4, <1>7, <2>1, <2>2, Zenon DEF Stands
  <1>9. AlikeRows(kind', rows', S) /\ AlikeRecords(recordRows', S)
    <2>1. CASE Changed(standing, S)
      BY <1>1, <2>1, RebuiltIsAlike
    <2>2. CASE ~Changed(standing, S)
      <3>1. ActiveTerms(S) = ActiveTerms(standing)
        BY <2>2, Zenon DEF Changed
      <3>2. Held(kind') = Held(kind) \ {d}
        BY <1>7 DEF Held
      <3>3. AlikeRows(kind', Without(rows, d), S)
        <4>1. DOMAIN Without(rows, d) = Held(kind')
          BY <1>2, <3>2, Zenon DEF Without, AlikeRows
        <4>2. \A x \in DOMAIN Without(rows, d) :
                 /\ Without(rows, d)[x] = rows[x] /\ x \in DOMAIN rows /\ kind'[x] = kind[x]
          <5>1. \A x \in DOMAIN Without(rows, d) : Without(rows, d)[x] = rows[x]
            BY Zenon DEF Without
          <5>2. \A x \in Held(kind') : x \in Documents /\ x # d /\ x \in Held(kind)
            BY <3>2, Zenon DEF Held
          <5>3. DOMAIN rows = Held(kind)
            BY <1>2, Zenon DEF AlikeRows
          <5> QED BY <1>7, <4>1, <5>1, <5>2, <5>3, Zenon
        <4> QED BY <1>2, <3>1, <4>1, <4>2, Zenon DEF AlikeRows
      <3>4. AlikeRecords(records, S)
        BY <1>2, <3>1, RecordsStayAlike DEF records
      <3> QED BY <1>1, <2>2, <3>3, <3>4
    <2> QED BY <2>1, <2>2
  <1> QED  BY <1>1, <1>5, <1>6, <1>8, <1>9, LexiconInvFrom

LEMMA ApplyProposalKeeps ==
    ASSUME LexiconInv, NEW d \in Documents, NEW adds, NEW T \in SUBSET Terms,
           ApplyProposal(d, adds, T)
    PROVE  LexiconInv'
  <1> DEFINE S == [t \in Terms |-> IF t \in T THEN "active" ELSE standing[t]]
             records == IF adds THEN With(recordRows, d, ActiveTerms(standing)) ELSE recordRows
  <1>1. /\ \A t \in T : Activatable(d, t)
        /\ standing' = S /\ kind' = kind /\ content' = content /\ evidence' = evidence
        /\ IF Changed(standing, S) THEN Rebuilt(kind, records, S)
           ELSE recordRows' = records /\ rows' = rows
    BY Zenon DEF ApplyProposal
  <1>2. /\ kind \in [Documents -> Kinds] /\ content \in [Documents -> Contents]
        /\ Carries(evidence, standing) /\ Stands(evidence, kind, content)
        /\ AlikeRows(kind, rows, standing) /\ AlikeRecords(recordRows, standing)
    BY LexiconInvGives
  <1>3. Carries(evidence, S)
    <2>1. \A t \in T : Support(evidence, t) # {} /\ Frequency(evidence, t) >= 2
      <3>1. \A t \in T : t \in TermsOf(evidence, d) /\ Frequency(evidence, t) >= 2
        BY <1>1, Zenon DEF Activatable
      <3> QED BY <3>1 DEF TermsOf, Support
    <2>2. S \in [Terms -> Standings]
      BY <1>2 DEF Carries, Standings
    <2>3. \A t \in Terms : S[t] = IF t \in T THEN "active" ELSE standing[t]
      BY Zenon
    <2> HIDE DEF S
    <2> QED BY <1>2, <2>1, <2>2, <2>3, Zenon DEF Carries
  <1>4. records = With(recordRows, d, ActiveTerms(standing)) \/ records = recordRows
    BY Zenon
  <1> HIDE DEF S, records
  <1>5. AlikeRows(kind, rows', S) /\ AlikeRecords(recordRows', S)
    <2>1. CASE Changed(standing, S)
      BY <1>1, <2>1, RebuiltIsAlike
    <2>2. CASE ~Changed(standing, S)
      <3>1. ActiveTerms(S) = ActiveTerms(standing)
        BY <2>2, Zenon DEF Changed
      <3>2. AlikeRows(kind, rows, S)
        BY <1>2, <3>1, Zenon DEF AlikeRows
      <3>3. AlikeRecords(records, S)
        BY <1>2, <1>4, <3>1, RecordsStayAlike
      <3> QED BY <1>1, <2>2, <3>2, <3>3
    <2> QED BY <2>1, <2>2
  <1>6. /\ Carries(evidence', standing') /\ Stands(evidence', kind', content')
        /\ AlikeRows(kind', rows', standing') /\ AlikeRecords(recordRows', standing')
        /\ kind' \in [Documents -> Kinds] /\ content' \in [Documents -> Contents]
    BY <1>1, <1>2, <1>3, <1>5
  <1> QED  BY <1>6, LexiconInvFrom

LEMMA LexiconInvKept == ASSUME LexiconInv, [LexiconNext]_lexiconVars PROVE LexiconInv'
  <1>1. ASSUME NEW d \in Documents, NEW text \in Contents, RememberText(d, text) PROVE LexiconInv'
    BY <1>1, RememberTextKeeps
  <1>2. ASSUME NEW d \in Documents, NEW text \in Contents, NEW mutates, SubmitText(d, text, mutates)
        PROVE  LexiconInv'
    BY <1>2, SubmitTextKeeps
  <1>3. ASSUME NEW d \in Documents, NEW r \in Documents, NEW text \in Contents, CorrectText(r, d, text)
        PROVE  LexiconInv'
    BY <1>3, CorrectTextKeeps
  <1>4. ASSUME NEW d \in Documents, DeleteText(d) PROVE LexiconInv'
    BY <1>4, DeleteTextKeeps
  <1>5. ASSUME NEW d \in Documents, NEW adds, NEW T \in SUBSET Terms, ApplyProposal(d, adds, T)
        PROVE  LexiconInv'
    BY <1>5, ApplyProposalKeeps
  <1>6. CASE UNCHANGED lexiconVars
    BY <1>6, Zenon DEF lexiconVars, LexiconInv, VocabularyForgets, SegmentedAlike
  <1> QED  BY <1>1, <1>2, <1>3, <1>4, <1>5, <1>6, Zenon DEF LexiconNext

(* Queries and rows are segmented by the same terms, whichever transactions *)
(* activate or retire a term, for any texts and any finite vocabulary.      *)
THEOREM RowsFollowTheLexicon == LexiconSpec => []SegmentedAlike
  <1>1. LexiconInv => SegmentedAlike
    BY DEF LexiconInv
  <1> QED  BY <1>1, LexiconInvInit, LexiconInvKept, PTL DEF LexiconSpec

(* CorrectReceipt and DeleteReceipt reach the vocabulary: no term outlives  *)
(* the remembered receipts that support it, and none stays active that      *)
(* fewer than two do.                                                       *)
THEOREM LexiconForgets == LexiconSpec => []VocabularyForgets
  <1>1. LexiconInv => VocabularyForgets
    BY DEF LexiconInv
  <1> QED  BY <1>1, LexiconInvInit, LexiconInvKept, PTL DEF LexiconSpec
=============================================================================

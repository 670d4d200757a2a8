---------------------------- MODULE ReadsProofs -----------------------------
(***************************************************************************)
(* A host that follows the change ledger page by page misses no change and *)
(* invents none, for any Spaces, Views, limits and number of restores.  And*)
(* the owner, who reads pages, traces and search results while receipts are*)
(* filed, corrected and forgotten, is told the truth and told of every limit*)
(* met, for any number of receipts and Records and any page size.          *)
(***************************************************************************)
EXTENDS ChangeFeed, OwnerReads, TLAPS, FiniteSetTheorems, WellFoundedInduction

Replies == [kind : {"changes", "background"}, rows : SUBSET Rows, cursor : Cursors]

FeedTypes ==
    /\ ledger \in SUBSET Rows /\ IsFiniteSet(ledger)
    /\ backup \in SUBSET Rows /\ IsFiniteSet(backup)
    /\ generation \in Generations /\ scope \in Scopes
    /\ cursor \in Cursors /\ known \in SUBSET Rows
    /\ reply \in {NoReply, [kind |-> "reset"]} \union Replies

(* Cursor c stands for the rows R: as long as its generation lives, R is of *)
(* the ledger, and holds every row of c's Spaces up to c.  Rows to come are *)
(* beyond c.                                                                *)
StandsFor(c, R) ==
    /\ c.generation <= generation
    /\ c.generation = generation =>
          /\ c.sequence <= LastOf(Sequences)
          /\ R \subseteq ledger
          /\ \A r \in ledger : r.space \in c.scope /\ r.sequence <= c.sequence => r \in R

(* So it is of the cursor the host holds, and of the one under way.         *)
FeedInv ==
    /\ FeedTypes
    /\ StandsFor(cursor, known)
    /\ reply.kind = "background" => StandsFor(reply.cursor, reply.rows)
    /\ reply.kind = "changes" => StandsFor(reply.cursor, known \union reply.rows)

-----------------------------------------------------------------------------
(* A nonempty set of naturals has a least element. *)
LEMMA Least ==
    ASSUME NEW S \in SUBSET Nat, S # {}
    PROVE  \E n \in S : \A k \in S : n <= k
  <1> DEFINE R == OpToRel(<, Nat)
  <1>1. IsWellFoundedOn(R, Nat)
    BY NatLessThanWellFounded, Zenon
  <1>2. PICK n \in S : \A k \in S : ~(<<k, n>> \in R)
    <2> HIDE DEF R
    <2> QED  BY <1>1, WFMin, Zenon
  <1>3. \A k \in S : ~(k < n)
    BY <1>2, Zenon DEF OpToRel
  <1> QED  BY <1>3

(* LastOf is the largest of a bounded set, or zero. *)
LEMMA LastIsLargest ==
    ASSUME NEW N \in Nat, NEW S \in SUBSET (1..N)
    PROVE  /\ LastOf(S) \in 0..N
           /\ \A k \in S : k <= LastOf(S)
           /\ S # {} => LastOf(S) \in S
           /\ S = {} => LastOf(S) = 0
  <1>1. CASE S = {}
    BY <1>1 DEF LastOf
  <1>2. CASE S # {}
    <2> DEFINE D == {N - k : k \in S}
    <2>1. D \in SUBSET Nat /\ D # {}
      <3>1. \A k \in S : k \in 1..N
        OBVIOUS
      <3>2. \A k \in 1..N : N - k \in Nat
        OBVIOUS
      <3>3. D # {}
        BY <1>2
      <3> QED  BY <3>1, <3>2, <3>3
    <2>2. PICK d \in D : \A e \in D : d <= e
      <3> HIDE DEF D
      <3> QED  BY <2>1, Least
    <2>3. PICK m \in S : d = N - m
      BY <2>2
    <2>4. \A k \in S : N - k \in D
      OBVIOUS
    <2>5. \A k \in S : k <= m
      BY <2>2, <2>3, <2>4
    <2>6. LastOf(S) \in S /\ \A k \in S : k <= LastOf(S)
      BY <1>2, <2>5, Zenon DEF LastOf
    <2>7. LastOf(S) \in 0..N
      <3>1. LastOf(S) \in 1..N
        BY <2>6, Zenon
      <3> QED  BY <3>1
    <2> QED  BY <1>2, <2>6, <2>7
  <1> QED  BY <1>1, <1>2

(* FactCursor is a cursor, and no row of its Spaces is beyond it. *)
LEMMA CursorIsLast ==
    ASSUME FeedTypes
    PROVE  /\ FactCursor \in Cursors
           /\ FactCursor.sequence <= LastOf(Sequences)
           /\ \A r \in InScope(ledger) : r.sequence <= FactCursor.sequence
  <1> DEFINE S == {r.sequence : r \in InScope(ledger)}
  <1>1. MaxChanges \in Nat /\ S \in SUBSET (1..MaxChanges) /\ Sequences \in SUBSET (1..MaxChanges)
    BY FeedAssumption DEF FeedTypes, Rows, InScope, Sequences
  <1>2. S \subseteq Sequences
    BY DEF InScope, Sequences
  <1>3. \A r \in InScope(ledger) : r.sequence \in S
    OBVIOUS
  <1>4. FactCursor = [generation |-> generation, scope |-> scope, sequence |-> LastOf(S)]
    BY DEF FactCursor
  <1> HIDE DEF S
  <1>5. /\ LastOf(S) \in 0..MaxChanges /\ \A k \in S : k <= LastOf(S)
        /\ S # {} => LastOf(S) \in S
        /\ S = {} => LastOf(S) = 0
    BY <1>1, LastIsLargest
  <1>6. LastOf(Sequences) \in 0..MaxChanges /\ \A k \in Sequences : k <= LastOf(Sequences)
    BY <1>1, LastIsLargest
  <1>7. LastOf(S) <= LastOf(Sequences)
    BY <1>1, <1>2, <1>5, <1>6
  <1> QED  BY <1>3, <1>4, <1>5, <1>7 DEF FeedTypes, Cursors

-----------------------------------------------------------------------------
(* Paging *)

Pending(space) == {r \in ledger : r.space = space /\ r.sequence > cursor.sequence}
AllPending == {r \in ledger : r.space \in scope /\ r.sequence > cursor.sequence}
Answered(limit) == UNION {Fetched(space, cursor.sequence, limit) : space \in scope}

(* What is fetched is pending; and a pending row that is not fetched leaves *)
(* more than limit fetched rows of smaller sequence, the least such row     *)
(* having been pushed out by rows of its own Space.                         *)
LEMMA PushedOut ==
    ASSUME FeedTypes, NEW limit \in Nat \ {0}, NEW r \in AllPending, r \notin Answered(limit)
    PROVE  \E B \in SUBSET Answered(limit) :
              /\ \A q \in B : q.sequence < r.sequence
              /\ IsFiniteSet(B) /\ Cardinality(B) > limit
  <1> DEFINE U == AllPending \ Answered(limit)
             S == {u.sequence : u \in U}
  <1>1. \A u \in AllPending : u \in ledger /\ u.sequence \in Nat /\ u.space \in scope
    BY DEF AllPending, FeedTypes, Rows
  <1>2. r \in U /\ S \in SUBSET Nat /\ S # {}
    BY <1>1
  <1>3. PICK n \in S : \A k \in S : n <= k
    <2> HIDE DEF S
    <2> QED  BY <1>2, Least
  <1>4. PICK u \in U : u.sequence = n
    BY <1>3
  <1> DEFINE B == Behind(u, Pending(u.space))
  <1>5. \A v \in U : u.sequence <= v.sequence
    BY <1>3, <1>4
  <1>6. B \subseteq AllPending
    BY <1>1 DEF Behind, Pending, AllPending
  <1>7. \A q \in B : q.sequence < u.sequence
    BY DEF Behind
  <1>8. B \subseteq Answered(limit)
    BY <1>1, <1>5, <1>6, <1>7
  <1>9. IsFiniteSet(B) /\ Cardinality(B) \in Nat
    <2>1. B \in SUBSET ledger
      BY <1>1, <1>6
    <2> HIDE DEF B
    <2> QED  BY <2>1, FS_Subset, FS_CardinalityType DEF FeedTypes
  <1>10. ~(Cardinality(B) < limit + 1)
    <2>1. u \notin Fetched(u.space, cursor.sequence, limit)
      BY <1>1 DEF Answered
    <2>2. u \in Pending(u.space)
      BY DEF AllPending, Pending
    <2> QED  BY <2>1, <2>2 DEF Fetched, Pending
  <1>11. \A q \in B : q.sequence < r.sequence
    <2>1. u.sequence <= r.sequence
      BY <1>2, <1>5
    <2> QED  BY <1>1, <1>6, <1>7, <2>1
  <1> HIDE DEF B
  <1>12. Cardinality(B) > limit
    BY <1>9, <1>10
  <1> QED  BY <1>8, <1>9, <1>11, <1>12

(* Whatever Changes answers but a reset is a reply whose cursor stands for  *)
(* the rows the host will know.                                             *)
LEMMA PageIsComplete ==
    ASSUME FeedTypes, StandsFor(cursor, known), ~ResetRequired, NEW limit \in Nat \ {0}
    PROVE  LET a == Answer(limit)
           IN  /\ a \in Replies /\ a.kind = "changes"
               /\ StandsFor(a.cursor, known \union a.rows)
  <1> DEFINE F == Answered(limit)
             page == Page(F, limit)
             P == {r.sequence : r \in page}
             cut == [FactCursor EXCEPT !.sequence = LastOf(P)]
  <1>1. F \in SUBSET AllPending /\ F \in SUBSET ledger /\ page \in SUBSET F
    BY Zenon DEF Answered, Fetched, AllPending, Page
  <1>2. /\ \A r \in ledger : r.sequence \in 1..MaxChanges /\ r.sequence \in Nat
        /\ MaxChanges \in Nat /\ cursor.sequence \in Nat /\ generation \in Nat
    BY FeedAssumption DEF FeedTypes, Rows, Cursors, Generations
  <1>3. /\ FactCursor \in Cursors /\ FactCursor.sequence <= LastOf(Sequences)
        /\ FactCursor.generation = generation /\ FactCursor.scope = scope
        /\ FactCursor = [generation |-> generation, scope |-> scope, sequence |-> FactCursor.sequence]
    BY CursorIsLast DEF FactCursor
  <1>4. IsFiniteSet(F) /\ Cardinality(F) \in Nat
    <2> HIDE DEF F
    <2> QED  BY <1>1, FS_Subset, FS_CardinalityType DEF FeedTypes
  <1>5. /\ known \subseteq ledger
        /\ \A r \in ledger : r.space \in scope /\ r.sequence <= cursor.sequence => r \in known
    BY DEF StandsFor, ResetRequired
  <1>6. \A r \in ledger : r.space \in scope /\ r \notin AllPending => r \in known
    BY <1>2, <1>5 DEF AllPending
  <1>7. CASE Cardinality(F) > limit
    <2>1. Answer(limit) = [kind |-> "changes", rows |-> page, cursor |-> cut]
      BY <1>7 DEF Answer, Answered
    <2>2. P \in SUBSET (1..MaxChanges) /\ P \in SUBSET Sequences
      BY <1>1, <1>2 DEF Sequences
    <2>3. Sequences \in SUBSET (1..MaxChanges)
      BY <1>2 DEF Sequences
    <2>4. /\ LastOf(P) \in 0..MaxChanges /\ \A k \in P : k <= LastOf(P)
          /\ P # {} => LastOf(P) \in P
          /\ P = {} => LastOf(P) = 0
      <3> HIDE DEF P
      <3> QED  BY <1>2, <2>2, LastIsLargest
    <2>5. LastOf(Sequences) \in 0..MaxChanges /\ \A k \in Sequences : k <= LastOf(Sequences)
      BY <1>2, <2>3, LastIsLargest
    <2>6. /\ cut \in Cursors /\ cut.sequence = LastOf(P)
          /\ cut.generation = generation /\ cut.scope = scope
      <3> HIDE DEF P
      <3> QED  BY <1>3, <2>4 DEF Cursors
    <2>7. LastOf(P) <= LastOf(Sequences)
      <3> HIDE DEF P
      <3> QED  BY <2>2, <2>4, <2>5, <1>2
    <2>8. ASSUME NEW r \in AllPending, r.sequence <= LastOf(P)
          PROVE  r \in page
      <3>1. r \in ledger /\ r.sequence \in 1..MaxChanges
        BY <1>2 DEF AllPending
      <3>2. PICK p \in page : p.sequence = LastOf(P)
        <4>1. LastOf(P) \in P
          <5> HIDE DEF P
          <5> QED  BY <2>4, <2>8, <3>1
        <4> QED  BY <4>1
      <3> DEFINE Q == Behind(p, F)
      <3>3. IsFiniteSet(Q) /\ Cardinality(Q) \in Nat /\ Cardinality(Q) < limit
        <4>1. Q \in SUBSET F
          BY DEF Behind
        <4>2. Cardinality(Q) < limit
          BY DEF Page
        <4> HIDE DEF F, Q
        <4> QED  BY <1>4, <4>1, <4>2, FS_Subset, FS_CardinalityType
      <3>4. p \in ledger /\ p.sequence \in Nat /\ r.sequence <= p.sequence
        BY <1>1, <1>2, <2>8, <3>2
      <3>5. CASE r \in F
        <4>1. Behind(r, F) \in SUBSET Q
          <5>1. \A q \in F : q.sequence \in Nat
            BY <1>1, <1>2
          <5> HIDE DEF F
          <5> QED  BY <3>1, <3>4, <5>1 DEF Behind
        <4>2. Cardinality(Behind(r, F)) \in Nat /\ Cardinality(Behind(r, F)) < limit
          <5> HIDE DEF F, Q
          <5> QED  BY <3>3, <4>1, FS_Subset, FS_CardinalityType
        <4> QED  BY <3>5, <4>2 DEF Page
      <3>6. CASE r \notin F
        <4>1. PICK B \in SUBSET F : /\ \A q \in B : q.sequence < r.sequence
                                    /\ IsFiniteSet(B) /\ Cardinality(B) > limit
          BY <3>6, PushedOut
        <4>2. B \in SUBSET Q
          <5>1. \A q \in F : q.sequence \in Nat
            BY <1>1, <1>2
          <5> HIDE DEF F
          <5> QED  BY <3>1, <3>4, <4>1, <5>1 DEF Behind
        <4>3. Cardinality(B) <= Cardinality(Q) /\ Cardinality(B) \in Nat
          <5> HIDE DEF Q
          <5> QED  BY <3>3, <4>1, <4>2, FS_Subset, FS_CardinalityType
        <4> HIDE DEF Q
        <4> QED  BY <3>3, <4>1, <4>3
      <3> QED  BY <3>5, <3>6
    <2> HIDE DEF page, cut, P
    <2>9. Answer(limit) \in Replies
      BY <1>1, <2>1, <2>6 DEF Replies, FeedTypes
    <2>10. StandsFor(cut, known \union page)
      BY <1>1, <1>2, <1>5, <1>6, <2>6, <2>7, <2>8 DEF StandsFor
    <2> QED  BY <2>1, <2>9, <2>10
  <1>8. CASE ~(Cardinality(F) > limit)
    <2>1. Answer(limit) = [kind |-> "changes", rows |-> F, cursor |-> FactCursor]
      BY <1>8 DEF Answer, Answered
    <2>2. ASSUME NEW r \in AllPending
          PROVE  r \in F
      <3>1. SUFFICES ASSUME r \notin F
                     PROVE  FALSE
        OBVIOUS
      <3>2. PICK B \in SUBSET F : IsFiniteSet(B) /\ Cardinality(B) > limit
        BY <3>1, PushedOut
      <3>3. Cardinality(B) <= Cardinality(F) /\ Cardinality(B) \in Nat
        <4> HIDE DEF F
        <4> QED  BY <1>4, <3>2, FS_Subset, FS_CardinalityType
      <3> HIDE DEF F
      <3> QED  BY <1>4, <1>8, <3>2, <3>3
    <2> HIDE DEF F
    <2>3. Answer(limit) \in Replies
      BY <1>1, <1>3, <2>1 DEF Replies, FeedTypes
    <2>4. StandsFor(FactCursor, known \union F)
      BY <1>1, <1>2, <1>3, <1>5, <1>6, <2>2 DEF StandsFor
    <2> QED  BY <2>1, <2>3, <2>4
  <1> QED  BY <1>7, <1>8

-----------------------------------------------------------------------------
(* A new row is beyond every cursor that stood for something. *)
LEMMA StandsAfterChange ==
    ASSUME FeedTypes, FeedTypes', NEW space, RecordMemoryChange(space),
           NEW c \in Cursors, NEW R, StandsFor(c, R)
    PROVE  StandsFor(c, R)'
  <1> DEFINE new == [sequence |-> LastOf(Sequences) + 1, space |-> space, generation |-> generation]
  <1>1. ledger' = ledger \union {new} /\ generation' = generation
    BY DEF RecordMemoryChange
  <1>2. /\ MaxChanges \in Nat /\ Sequences \in SUBSET (1..MaxChanges)
        /\ Sequences' \in SUBSET (1..MaxChanges)
    BY FeedAssumption DEF FeedTypes, Rows, Sequences
  <1>3. LastOf(Sequences) \in 0..MaxChanges
    BY <1>2, LastIsLargest
  <1>4. LastOf(Sequences') \in 0..MaxChanges /\ \A k \in Sequences' : k <= LastOf(Sequences')
    BY <1>2, LastIsLargest
  <1>5. LastOf(Sequences) + 1 <= LastOf(Sequences')
    <2>1. new \in ledger' /\ new.sequence = LastOf(Sequences) + 1
      BY <1>1
    <2>2. LastOf(Sequences) + 1 \in Sequences'
      BY <2>1, Zenon DEF Sequences
    <2> QED  BY <1>4, <2>2
  <1>6. LastOf(Sequences)' = LastOf(Sequences')
    BY DEF LastOf
  <1>7. c.sequence \in Nat /\ new.sequence = LastOf(Sequences) + 1
    BY DEF Cursors
  <1> HIDE DEF new
  <1> QED  BY <1>1, <1>3, <1>4, <1>5, <1>6, <1>7 DEF StandsFor

(* Without a change of the ledger or the generation nothing is lost. *)
LEMMA StandsStill ==
    ASSUME UNCHANGED <<ledger, generation>>, NEW c, NEW R, StandsFor(c, R)
    PROVE  StandsFor(c, R)'
  BY DEF StandsFor, Sequences, LastOf

(* After a restore no cursor stands for anything. *)
LEMMA StandsAfterRestore ==
    ASSUME FeedTypes, RestoreBackup, NEW c \in Cursors, NEW R, StandsFor(c, R)
    PROVE  StandsFor(c, R)'
  BY DEF StandsFor, RestoreBackup, RestoredGeneration, FeedTypes, Cursors, Generations

(* Every step keeps the types. *)
LEMMA TypesKept ==
    ASSUME FeedInv, [FeedNext]_feedVars
    PROVE  FeedTypes'
  <1> USE FeedAssumption
  <1>1. ASSUME NEW space \in Spaces, RecordMemoryChange(space)
        PROVE  FeedTypes'
    <2> DEFINE new == [sequence |-> LastOf(Sequences) + 1, space |-> space, generation |-> generation]
    <2>1. Sequences \in SUBSET (1..MaxChanges)
      BY DEF FeedInv, FeedTypes, Rows, Sequences
    <2>2. LastOf(Sequences) \in 0..MaxChanges
      BY <2>1, LastIsLargest
    <2>3. new \in Rows
      BY <1>1, <2>2 DEF FeedInv, FeedTypes, Rows, RecordMemoryChange
    <2>4. ledger' = ledger \union {new} /\ IsFiniteSet(ledger)
      BY <1>1 DEF RecordMemoryChange, FeedInv, FeedTypes
    <2> HIDE DEF new
    <2>5. IsFiniteSet(ledger')
      BY <2>4, FS_AddElement
    <2> QED  BY <1>1, <2>3, <2>4, <2>5 DEF FeedInv, FeedTypes, RecordMemoryChange
  <1>2. CASE Backup
    BY <1>2 DEF FeedInv, FeedTypes, Backup
  <1>3. CASE RestoreBackup
    BY <1>3 DEF FeedInv, FeedTypes, RestoreBackup, RestoredGeneration, Generations
  <1>4. ASSUME NEW limit \in Limits, Changes(limit)
        PROVE  FeedTypes'
    <2>1. Answer(limit) \in {[kind |-> "reset"]} \union Replies
      <3>1. CASE ResetRequired
        BY <3>1 DEF Answer
      <3>2. CASE ~ResetRequired
        BY <3>2, PageIsComplete, Zenon DEF FeedInv
      <3> QED  BY <3>1, <3>2
    <2> QED  BY <1>4, <2>1 DEF FeedInv, FeedTypes, Changes
  <1>5. CASE ReadBackground
    <2>1. FactCursor \in Cursors
      BY CursorIsLast DEF FeedInv
    <2>2. [kind |-> "background", rows |-> InScope(ledger), cursor |-> FactCursor] \in Replies
      BY <2>1 DEF FeedInv, FeedTypes, Replies, InScope
    <2> QED  BY <1>5, <2>2 DEF FeedInv, FeedTypes, ReadBackground
  <1>6. CASE HostReceives
    BY <1>6 DEF FeedInv, FeedTypes, HostReceives, NoReply, Replies
  <1>7. CASE ReplyLost
    BY <1>7 DEF FeedInv, FeedTypes, ReplyLost
  <1>8. CASE HostChangesView
    BY <1>8 DEF FeedInv, FeedTypes, HostChangesView
  <1>9. CASE UNCHANGED feedVars
    BY <1>9 DEF FeedInv, FeedTypes, feedVars
  <1> QED  BY <1>1, <1>2, <1>3, <1>4, <1>5, <1>6, <1>7, <1>8, <1>9 DEF FeedNext

(* Every step keeps the invariant. *)
LEMMA InvKept ==
    ASSUME FeedInv, [FeedNext]_feedVars
    PROVE  FeedInv'
  <1>1. FeedTypes /\ FeedTypes'
    BY TypesKept DEF FeedInv
  <1>2. reply.kind \in {"background", "changes"} => reply.cursor \in Cursors
    BY <1>1 DEF FeedTypes, NoReply, Replies
  <1>3. cursor \in Cursors
    BY <1>1 DEF FeedTypes
  <1>4. ASSUME NEW space \in Spaces, RecordMemoryChange(space)
        PROVE  FeedInv'
    <2>1. UNCHANGED <<cursor, known, reply>>
      BY <1>4 DEF RecordMemoryChange
    <2>2. StandsFor(cursor, known)'
      BY <1>1, <1>3, <1>4, <2>1, StandsAfterChange DEF FeedInv, StandsFor
    <2>3. (reply.kind = "background" => StandsFor(reply.cursor, reply.rows))'
      BY <1>1, <1>2, <1>4, <2>1, StandsAfterChange DEF FeedInv, StandsFor
    <2>4. (reply.kind = "changes" => StandsFor(reply.cursor, known \union reply.rows))'
      BY <1>1, <1>2, <1>4, <2>1, StandsAfterChange DEF FeedInv, StandsFor
    <2> QED  BY <1>1, <2>2, <2>3, <2>4 DEF FeedInv
  <1>5. CASE RestoreBackup
    <2>1. UNCHANGED <<cursor, known, reply>>
      BY <1>5 DEF RestoreBackup
    <2>2. StandsFor(cursor, known)'
      BY <1>1, <1>3, <1>5, <2>1, StandsAfterRestore DEF FeedInv, StandsFor
    <2>3. (reply.kind = "background" => StandsFor(reply.cursor, reply.rows))'
      BY <1>1, <1>2, <1>5, <2>1, StandsAfterRestore DEF FeedInv, StandsFor
    <2>4. (reply.kind = "changes" => StandsFor(reply.cursor, known \union reply.rows))'
      BY <1>1, <1>2, <1>5, <2>1, StandsAfterRestore DEF FeedInv, StandsFor
    <2> QED  BY <1>1, <2>2, <2>3, <2>4 DEF FeedInv
  <1>6. ASSUME UNCHANGED <<ledger, generation, cursor, known>>
        PROVE  StandsFor(cursor, known)'
    BY <1>6, StandsStill DEF FeedInv, StandsFor
  <1>7. ASSUME UNCHANGED <<ledger, generation, cursor, known, reply>>
        PROVE  FeedInv'
    BY <1>1, <1>6, <1>7, StandsStill, Zenon DEF FeedInv, StandsFor
  <1>8. ASSUME NEW limit \in Limits, Changes(limit)
        PROVE  FeedInv'
    <2>1. UNCHANGED <<ledger, generation, cursor, known>> /\ reply' = Answer(limit)
      BY <1>8 DEF Changes
    <2>2. CASE ResetRequired
      <3>1. reply' = [kind |-> "reset"]
        BY <2>1, <2>2 DEF Answer
      <3> QED  BY <1>1, <1>6, <2>1, <3>1 DEF FeedInv
    <2>3. CASE ~ResetRequired
      <3>1. /\ reply'.kind = "changes"
            /\ StandsFor(Answer(limit).cursor, known \union Answer(limit).rows)
        BY <1>1, <2>1, <2>3, FeedAssumption, PageIsComplete DEF FeedInv
      <3>2. StandsFor(reply.cursor, known \union reply.rows)'
        BY <2>1, <3>1, StandsStill DEF StandsFor
      <3> QED  BY <1>1, <1>6, <2>1, <3>1, <3>2 DEF FeedInv
    <2> QED  BY <2>2, <2>3
  <1>9. CASE ReadBackground
    <2>1. /\ UNCHANGED <<ledger, generation, cursor, known>>
          /\ reply' = [kind |-> "background", rows |-> InScope(ledger), cursor |-> FactCursor]
      BY <1>9 DEF ReadBackground
    <2>2. StandsFor(FactCursor, InScope(ledger))
      <3>1. FactCursor.generation = generation /\ FactCursor.scope = scope
        BY DEF FactCursor
      <3>2. FactCursor.sequence <= LastOf(Sequences) /\ generation <= generation
        BY <1>1, CursorIsLast DEF FeedTypes, Generations
      <3> QED  BY <3>1, <3>2 DEF StandsFor, InScope
    <2>3. StandsFor(reply.cursor, reply.rows)'
      BY <2>1, <2>2, StandsStill DEF StandsFor
    <2> QED  BY <1>1, <1>6, <2>1, <2>3 DEF FeedInv
  <1>10. CASE HostReceives
    <2>1. UNCHANGED <<ledger, generation>> /\ reply' = NoReply
      BY <1>10 DEF HostReceives
    <2>2. reply.kind \in {"reset", "background", "changes"}
      BY <1>1, <1>10 DEF FeedTypes, HostReceives, Replies
    <2>3. StandsFor(cursor', known')
      BY <1>10, <2>2 DEF HostReceives, FeedInv
    <2>4. StandsFor(cursor, known)'
      BY <2>1, <2>3, StandsStill DEF StandsFor
    <2> QED  BY <1>1, <2>1, <2>4 DEF FeedInv, NoReply
  <1>11. CASE ReplyLost
    BY <1>1, <1>6, <1>11 DEF ReplyLost, FeedInv, NoReply
  <1>12. CASE Backup \/ HostChangesView \/ UNCHANGED feedVars
    BY <1>7, <1>12 DEF Backup, HostChangesView, feedVars
  <1> QED  BY <1>4, <1>5, <1>8, <1>9, <1>10, <1>11, <1>12 DEF FeedNext

LEMMA InvHolds == FeedSpec => []FeedInv
  <1>1. FeedInit => FeedInv
    <2> SUFFICES ASSUME FeedInit
                 PROVE  FeedInv
      OBVIOUS
    <2>1. FeedTypes
      BY FeedAssumption, FS_EmptySet DEF FeedInit, FeedTypes, Cursors, Generations
    <2>2. LastOf(Sequences) = 0
      BY DEF FeedInit, Sequences, LastOf
    <2> QED  BY <2>1, <2>2 DEF FeedInit, FeedInv, StandsFor, NoReply
  <1>2. FeedInv /\ [FeedNext]_feedVars => FeedInv'
    BY InvKept
  <1> QED  BY <1>1, <1>2, PTL DEF FeedSpec

(* NoChangeSkipped of ChangeFeed: however Changes cuts its pages, whatever   *)
(* answers are lost and whatever is restored meanwhile, a host whose cursor  *)
(* the store accepts knows every change of its View up to the cursor.        *)
THEOREM NothingSkipped == FeedSpec => []NoChangeSkipped
  <1>1. FeedInv => NoChangeSkipped
    BY DEF FeedInv, NoChangeSkipped, StandsFor, ResetRequired, InScope
  <1> QED  BY <1>1, InvHolds, PTL

(* NoChangeInvented of ChangeFeed: while its cursor is accepted, the host    *)
(* knows nothing that the ledger does not hold, although a restore uses      *)
(* sequence numbers again.                                                   *)
THEOREM NothingInvented == FeedSpec => []NoChangeInvented
  <1>1. FeedInv => NoChangeInvented
    BY DEF FeedInv, NoChangeInvented, StandsFor, ResetRequired
  <1> QED  BY <1>1, InvHolds, PTL

-----------------------------------------------------------------------------
(* What the owner reads: rows in order *)

Increasing(s) == \A i, k \in DOMAIN s : i < k => s[i] < s[k]

(* A finite set of numbers can be listed: its least one first, then the     *)
(* others.                                                                  *)
LEMMA ListingExists ==
    ASSUME NEW X \in SUBSET Nat, IsFiniteSet(X)
    PROVE  \E s \in [1..Cardinality(X) -> X] : Increasing(s)
  <1> DEFINE Listable(Y) == \E s \in [1..Cardinality(Y) -> Y] : Increasing(s)
             Bad == {n \in Nat : \E Y \in SUBSET Nat : IsFiniteSet(Y) /\ Cardinality(Y) = n /\ ~Listable(Y)}
  <1> SUFFICES ASSUME ~Listable(X) PROVE FALSE
    OBVIOUS
  <1>1. Cardinality(X) \in Bad
    <2>1. Cardinality(X) \in Nat
      BY FS_CardinalityType
    <2> HIDE DEF Listable
    <2> QED BY <2>1
  <1>2. PICK n \in Bad : \A k \in Bad : n <= k
    <2>1. Bad \in SUBSET Nat /\ Bad # {}
      <3> HIDE DEF Listable
      <3> QED BY <1>1, Zenon
    <2> HIDE DEF Bad
    <2> QED BY <2>1, Least
  <1>3. PICK Y \in SUBSET Nat : IsFiniteSet(Y) /\ Cardinality(Y) = n /\ ~Listable(Y)
    <2> HIDE DEF Listable
    <2> QED BY <1>2, Zenon
  <1>4. n \in Nat
    BY <1>2, Zenon
  <1>5. Y # {}
    <2> SUFFICES ASSUME Y = {} PROVE FALSE
      OBVIOUS
    <2>1. Cardinality(Y) = 0
      BY FS_EmptySet
    <2>2. [i \in 1..0 |-> i] \in [1..Cardinality(Y) -> Y] /\ Increasing([i \in 1..0 |-> i])
      BY <2>1 DEF Increasing
    <2> QED BY <1>3, <2>2, Zenon
  <1>6. PICK m \in Y : \A k \in Y : m <= k
    BY <1>5, Least
  <1> DEFINE Z == Y \ {m}
  <1>7. Z \in SUBSET Nat /\ IsFiniteSet(Z) /\ Cardinality(Z) = n - 1
    BY <1>3, <1>6, FS_RemoveElement
  <1>8. n - 1 \in Nat
    <2>1. Cardinality(Z) \in Nat
      BY <1>7, FS_CardinalityType
    <2> QED BY <1>7, <2>1
  <1>9. Listable(Z)
    <2>1. n - 1 \notin Bad
      <3>1. ~(n <= n - 1)
        BY <1>4
      <3> HIDE DEF Bad
      <3> QED BY <1>2, <3>1, Zenon
    <2> HIDE DEF Listable, Z
    <2> QED BY <1>7, <1>8, <2>1
  <1>10. PICK t \in [1..(n - 1) -> Z] : Increasing(t)
    BY <1>7, <1>9, Zenon
  <1> DEFINE s == [i \in 1..n |-> IF i = 1 THEN m ELSE t[i - 1]]
  <1>11. s \in [1..n -> Y]
    <2>1. \A i \in 1..n : i # 1 => t[i - 1] \in Y
      BY <1>4, <1>10
    <2> QED BY <1>6, <2>1
  <1>12. Increasing(s)
    <2> SUFFICES ASSUME NEW i \in 1..n, NEW k \in 1..n, i < k PROVE s[i] < s[k]
      BY DEF Increasing
    <2>1. k # 1 /\ k - 1 \in 1..(n - 1) /\ s[k] = t[k - 1] /\ t[k - 1] \in Z
      BY <1>4, <1>10
    <2>2. CASE i = 1
      <3>1. s[i] = m
        BY <2>2
      <3>2. m \in Nat /\ t[k - 1] \in Nat /\ m <= t[k - 1] /\ m # t[k - 1]
        BY <1>6, <1>3, <2>1, Zenon
      <3> QED BY <2>1, <3>1, <3>2
    <2>3. CASE i # 1
      <3>1. i - 1 \in 1..(n - 1) /\ s[i] = t[i - 1] /\ i - 1 < k - 1
        BY <1>4, <2>3
      <3>2. t[i - 1] < t[k - 1]
        BY <1>10, <2>1, <3>1 DEF Increasing
      <3> QED BY <2>1, <3>1, <3>2
    <2> QED BY <2>2, <2>3
  <1> HIDE DEF s
  <1> QED  BY <1>3, <1>11, <1>12

(* ORDER BY record_id: every row, once, in order. *)
LEMMA InOrderLists ==
    ASSUME NEW X \in SUBSET Nat, IsFiniteSet(X)
    PROVE  /\ InOrder(X) \in Seq(X) /\ Len(InOrder(X)) = Cardinality(X) /\ Cardinality(X) \in Nat
           /\ DOMAIN InOrder(X) = 1..Cardinality(X)
           /\ Increasing(InOrder(X))
           /\ \A x \in X : \E i \in DOMAIN InOrder(X) : InOrder(X)[i] = x
  <1> DEFINE n == Cardinality(X)
             s == InOrder(X)
  <1>1. n \in Nat
    BY FS_CardinalityType
  <1>2. s \in [1..n -> X] /\ Increasing(s)
    <2>1. \E q \in [1..n -> X] : \A i, k \in DOMAIN q : i < k => q[i] < q[k]
      BY ListingExists DEF Increasing
    <2>2. InOrder(X) \in [1..n -> X] /\ \A i, k \in DOMAIN InOrder(X) : i < k => InOrder(X)[i] < InOrder(X)[k]
      BY <2>1, Zenon DEF InOrder
    <2> QED BY <2>2 DEF Increasing
  <1> HIDE DEF n, s
  <1>3. s \in Injection(1..n, X)
    <2>1. ASSUME NEW i \in 1..n, NEW k \in 1..n, s[i] = s[k] PROVE i = k
      <3>1. s[i] \in Nat /\ s[k] \in Nat
        BY <1>2, Zenon
      <3>2. i < k => s[i] < s[k]
        BY <1>2 DEF Increasing
      <3>3. k < i => s[k] < s[i]
        BY <1>2 DEF Increasing
      <3> QED BY <1>1, <2>1, <3>1, <3>2, <3>3
    <2>2. \A i, k \in 1..n : s[i] = s[k] => i = k
      BY <2>1, Zenon
    <2> QED BY <1>2, <2>2 DEF Injection, IsInjective
  <1>4. Cardinality(1..n) = n
    BY <1>1, FS_Interval
  <1>5. s \in Surjection(1..n, X)
    BY <1>3, <1>4, FS_Injection DEF n
  <1>6. s \in Seq(X) /\ Len(s) = n /\ DOMAIN s = 1..n
    BY <1>1, <1>2
  <1>7. \A x \in X : \E i \in 1..n : s[i] = x
    BY <1>5 DEF Surjection
  <1>8. \A x \in X : \E i \in DOMAIN s : s[i] = x
    BY <1>6, <1>7, Zenon
  <1> QED  BY <1>1, <1>2, <1>6, <1>8, Zenon DEF n, s

(* A page of at most limit rows of X, and the cursor that the surplus row   *)
(* gives: the page holds every row up to the cursor, or all.                *)
HoldsItsRange(X, page, next) ==
    /\ page \in Seq(X) /\ Increasing(page)
    /\ next = 0 => \A x \in X : \E i \in DOMAIN page : page[i] = x
    /\ next # 0 => /\ next \in X /\ \A i \in DOMAIN page : page[i] <= next
                   /\ \A x \in X : x <= next => \E i \in DOMAIN page : page[i] = x

LEMMA PageHoldsItsRange ==
    ASSUME NEW X \in SUBSET Nat, IsFiniteSet(X), 0 \notin X, NEW limit \in Nat \ {0},
           NEW rows, rows = UpTo(InOrder(X), limit + 1)
    PROVE  HoldsItsRange(X, UpTo(rows, limit), NextCursor(rows, limit))
  <1> DEFINE page == UpTo(rows, limit)
             next == NextCursor(rows, limit)
  <1>0. page = UpTo(rows, limit) /\ next = NextCursor(rows, limit)
    OBVIOUS
  <1> HIDE DEF page, next
  <1> SUFFICES HoldsItsRange(X, page, next)
    BY <1>0
  <1> USE DEF HoldsItsRange
  <1> DEFINE s == InOrder(X)
             n == Cardinality(X)
             z == Smaller(limit, n)
  <1>1. /\ s \in Seq(X) /\ Len(s) = n /\ n \in Nat /\ DOMAIN s = 1..n /\ Increasing(s)
        /\ \A x \in X : \E i \in DOMAIN s : s[i] = x
    BY InOrderLists
  <1> HIDE DEF s, n
  <1>2. /\ rows \in Seq(X) /\ Len(rows) = Smaller(limit + 1, n)
        /\ \A i \in 1..Smaller(limit + 1, n) : rows[i] = s[i]
    <2>1. rows = SubSeq(s, 1, Smaller(limit + 1, n))
      BY <1>1 DEF UpTo, s
    <2>2. Smaller(limit + 1, n) \in Nat /\ Smaller(limit + 1, n) <= n
      BY <1>1 DEF Smaller
    <2> DEFINE k == Smaller(limit + 1, n)
    <2> HIDE DEF k
    <2>3. rows = SubSeq(s, 1, k) /\ k \in Nat /\ k <= n
      BY <2>1, <2>2, Zenon DEF k
    <2>4. rows \in Seq(X) /\ Len(rows) = k /\ \A i \in 1..k : rows[i] = s[i]
      BY <1>1, <2>3
    <2> QED BY <2>4, Zenon DEF k
  <1>3. /\ page \in Seq(X) /\ Len(page) = z /\ DOMAIN page = 1..z /\ z \in Nat
        /\ \A i \in 1..z : page[i] = s[i] /\ i \in 1..n
    <2>1. /\ Smaller(limit, Smaller(limit + 1, n)) = z /\ z \in Nat
          /\ z <= Smaller(limit + 1, n) /\ z <= n /\ Smaller(limit + 1, n) \in Nat
      BY <1>1 DEF Smaller
    <2> HIDE DEF z
    <2>2. page = SubSeq(rows, 1, z)
      BY <1>0, <1>2, <2>1 DEF UpTo
    <2>3. page \in Seq(X) /\ Len(page) = z /\ \A i \in 1..z : page[i] = rows[i]
      BY <1>2, <2>1, <2>2
    <2>4. \A i \in 1..z : i \in 1..Smaller(limit + 1, n) /\ i \in 1..n
      BY <1>1, <2>1
    <2> QED BY <1>2, <2>1, <2>3, <2>4
  <1>4. Increasing(page)
    <2> HIDE DEF z
    <2> QED BY <1>1, <1>3 DEF Increasing
  <1>5. CASE n <= limit
    <2>1. z = n /\ next = 0
      BY <1>0, <1>1, <1>2, <1>5 DEF Smaller, NextCursor
    <2>2. \A x \in X : \E i \in DOMAIN page : page[i] = x
      <3> HIDE DEF z
      <3> QED BY <1>1, <1>3, <2>1
    <2> QED BY <1>3, <1>4, <2>1, <2>2
  <1>6. CASE n > limit
    <2>1. z = limit /\ limit \in 1..n /\ limit \in 1..Smaller(limit + 1, n)
      BY <1>1, <1>6 DEF Smaller
    <2>2. next = s[limit] /\ next \in X
      <3>1. Len(rows) > limit
        BY <1>1, <1>2, <1>6 DEF Smaller
      <3> QED BY <1>0, <1>1, <1>2, <2>1, <3>1 DEF NextCursor
    <2>3. \A i \in DOMAIN page : page[i] <= next
      <3> SUFFICES ASSUME NEW i \in 1..limit PROVE s[i] <= s[limit]
        BY <1>3, <2>1, <2>2
      <3>0. i \in 1..n
        BY <1>1, <2>1
      <3>1. i \in 1..n /\ s[i] \in Nat /\ s[limit] \in Nat
        <4>1. s[i] \in X /\ s[limit] \in X
          BY <1>1, <2>1, <3>0
        <4> QED BY <3>0, <4>1, Zenon
      <3>2. i < limit => s[i] < s[limit]
        BY <1>1, <2>1, <3>1 DEF Increasing
      <3> QED BY <3>1, <3>2
    <2>4. ASSUME NEW x \in X, x <= next PROVE \E i \in DOMAIN page : page[i] = x
      <3>1. PICK i \in 1..n : s[i] = x
        BY <1>1
      <3>2. limit < i => s[limit] < s[i]
        BY <1>1, <2>1 DEF Increasing
      <3>3. s[i] \in Nat /\ s[limit] \in Nat /\ s[i] <= s[limit]
        BY <2>2, <2>4, <3>1
      <3>4. i \in 1..limit
        BY <2>1, <3>2, <3>3
      <3> QED BY <1>3, <2>1, <3>1, <3>4
    <2>5. next # 0
      BY <2>2
    <2> QED BY <1>3, <1>4, <2>2, <2>3, <2>4, <2>5
  <1> QED  BY <1>1, <1>5, <1>6

-----------------------------------------------------------------------------
(* What the owner reads: the calls *)

Trails == {"absent", "active", "corrected", "deleted"}
TraceCalls == [op : {"trace"}, receipt : Evidence, began : Trails, statement : {1, 2},
               answer : Trails \union {"none", "not found"}]
RecordCalls == [op : {"record"}, record : RecordIDs,
                step : {"head", "fenced head", "revision", "answered"},
                revision : Nat, kind : BOOLEAN, text : BOOLEAN, late : BOOLEAN]
ListCalls == [op : {"list"}, limit : Nat \ {0}, before : SUBSET RecordIDs, listed : Seq(RecordIDs),
              cursor : Nat]

(* Without a row in the first table, the receipt was unknown or has its     *)
(* tombstone for good. *)
TraceOK(c, T) ==
    /\ c \in TraceCalls
    /\ c.answer = "none" => c.statement = 1 /\ (c.began # "absent" => T[c.receipt] = "deleted")
    /\ c.answer = "not found" => c.began = "absent"

RecordOK(c, B) ==
    /\ c \in RecordCalls
    /\ c.step = "revision" /\ c.late => c.record \in B
    /\ c.step = "answered" /\ c.text => ~c.late

(* What has been listed ends at the cursor and lacks nothing before it. *)
ListOK(c, X) ==
    /\ c \in ListCalls /\ Increasing(c.listed) /\ c.before \subseteq X
    /\ c.cursor = 0 => \A x \in c.before : \E i \in DOMAIN c.listed : c.listed[i] = x
    /\ c.cursor # 0 =>
          /\ \A i \in DOMAIN c.listed : c.listed[i] <= c.cursor
          /\ \A x \in c.before : x <= c.cursor => \E i \in DOMAIN c.listed : c.listed[i] = x

SearchOK(c) ==
    /\ c.op = "search"
    /\ IF c.truncated THEN Cardinality(c.found) = c.limit ELSE c.found = c.visible

CallOK(c, T, B, X) == c = Idle \/ TraceOK(c, T) \/ RecordOK(c, B) \/ ListOK(c, X) \/ SearchOK(c)

OwnerInv ==
    /\ trail \in [Evidence -> Trails] /\ filed \in [Evidence -> SearchSpaces]
    /\ heads \in [RecordIDs -> Nat]
    /\ CallOK(call, trail, barred, Existing)

LEMMA OwnerInvGives == OwnerInv => AnswersAreTrue /\ LimitsAreSaid
  <1> SUFFICES ASSUME OwnerInv PROVE AnswersAreTrue /\ LimitsAreSaid
    OBVIOUS
  <1>1. CASE call = Idle
    <2>1. call.op = "none"
      BY <1>1 DEF Idle
    <2> QED BY <2>1 DEF AnswersAreTrue, LimitsAreSaid
  <1>2. CASE TraceOK(call, trail)
    <2>1. call.op = "trace" /\ (call.answer = "not found" => call.began = "absent")
      BY <1>2, Zenon DEF TraceOK, TraceCalls
    <2> QED BY <2>1, Zenon DEF AnswersAreTrue, LimitsAreSaid
  <1>3. CASE RecordOK(call, barred)
    <2>1. call.op = "record" /\ (call.step = "answered" /\ call.text => ~call.late)
      BY <1>3, Zenon DEF RecordOK, RecordCalls
    <2> QED BY <2>1 DEF AnswersAreTrue, LimitsAreSaid
  <1>4. CASE ListOK(call, Existing)
    <2>1. call.op = "list"
      BY <1>4 DEF ListOK, ListCalls
    <2>2. call.cursor = 0 => call.before \subseteq Range(call.listed)
      BY <1>4, Zenon DEF ListOK, Range
    <2>3. \A i, k \in DOMAIN call.listed : i < k => call.listed[i] < call.listed[k]
      BY <1>4, Zenon DEF ListOK, Increasing
    <2> QED BY <2>1, <2>2, <2>3 DEF AnswersAreTrue, LimitsAreSaid
  <1>5. CASE SearchOK(call)
    <2>1. AnswersAreTrue
      BY <1>5 DEF SearchOK, AnswersAreTrue
    <2>2. LimitsAreSaid
      BY <1>5 DEF SearchOK, LimitsAreSaid
    <2> QED BY <2>1, <2>2
  <1> QED  BY <1>1, <1>2, <1>3, <1>4, <1>5 DEF OwnerInv, CallOK

LEMMA OwnerInvInit == OwnerInit => OwnerInv
  <1> SUFFICES ASSUME OwnerInit PROVE OwnerInv
    OBVIOUS
  <1>1. trail \in [Evidence -> Trails] /\ heads \in [RecordIDs -> Nat]
    BY DEF OwnerInit, Trails
  <1>2. filed \in [Evidence -> SearchSpaces]
    BY OwnerReadsAssumption DEF OwnerInit
  <1> QED  BY <1>1, <1>2 DEF OwnerInit, OwnerInv, CallOK

(* What other transactions commit while a call waits: tombstones, barriers  *)
(* and Records stay. *)
LEMMA CallStays ==
    ASSUME OwnerInv, trail' \in [Evidence -> Trails], filed' = filed, heads' \in [RecordIDs -> Nat],
           call' = call, \A r \in Evidence : trail[r] = "deleted" => trail'[r] = "deleted",
           barred \subseteq barred', \A x \in RecordIDs : heads[x] > 0 => heads'[x] > 0
    PROVE  OwnerInv'
  <1>1. Existing \subseteq Existing'
    BY DEF Existing
  <1>2. TraceOK(call, trail) => TraceOK(call, trail')
    BY Zenon DEF TraceOK, TraceCalls
  <1>3. RecordOK(call, barred) => RecordOK(call, barred')
    BY Zenon DEF RecordOK
  <1>4. ListOK(call, Existing) => ListOK(call, Existing')
    BY <1>1, Zenon DEF ListOK
  <1>5. CallOK(call, trail', barred', Existing')
    BY <1>2, <1>3, <1>4, Zenon DEF OwnerInv, CallOK
  <1> QED  BY <1>5 DEF OwnerInv

LEMMA TransactionsKeep ==
    ASSUME OwnerInv, NEW r \in Evidence
    PROVE  /\ AcceptEvidence(r) => OwnerInv'
           /\ ForgetReceipt(r) => OwnerInv'
           /\ Cleanse(r) => OwnerInv'
           /\ \A s \in Evidence : ReplaceReceipt(r, s) => OwnerInv'
  <1>1. trail \in [Evidence -> Trails] /\ heads \in [RecordIDs -> Nat]
    BY DEF OwnerInv
  <1>2. ASSUME AcceptEvidence(r) PROVE OwnerInv'
    <2>1. trail' \in [Evidence -> Trails] /\ \A q \in Evidence : trail[q] = "deleted" => trail'[q] = "deleted"
      BY <1>1, <1>2 DEF AcceptEvidence, Trails
    <2> QED BY <1>1, <1>2, <2>1, CallStays DEF AcceptEvidence
  <1>3. ASSUME ForgetReceipt(r) PROVE OwnerInv'
    <2>1. trail' \in [Evidence -> Trails] /\ \A q \in Evidence : trail[q] = "deleted" => trail'[q] = "deleted"
      BY <1>1, <1>3 DEF ForgetReceipt, Trails
    <2>2. barred \subseteq barred' /\ filed' = filed /\ heads' = heads /\ call' = call
      BY <1>3 DEF ForgetReceipt
    <2> QED BY <1>1, <2>1, <2>2, CallStays
  <1>4. ASSUME Cleanse(r) PROVE OwnerInv'
    BY <1>1, <1>4, CallStays DEF Cleanse
  <1>5. ASSUME NEW s \in Evidence, ReplaceReceipt(r, s) PROVE OwnerInv'
    <2>1. trail' \in [Evidence -> Trails] /\ \A q \in Evidence : trail[q] = "deleted" => trail'[q] = "deleted"
      BY <1>1, <1>5 DEF ReplaceReceipt, Trails
    <2> QED BY <1>1, <1>5, <2>1, CallStays DEF ReplaceReceipt
  <1> QED  BY <1>2, <1>3, <1>4, <1>5, Zenon

LEMMA OrganizeKeeps ==
    ASSUME OwnerInv, NEW x \in RecordIDs, NEW R, Organize(x, R)
    PROVE  OwnerInv'
  <1>1. trail \in [Evidence -> Trails] /\ heads \in [RecordIDs -> Nat]
    BY DEF OwnerInv
  <1>2. heads' \in [RecordIDs -> Nat] /\ \A y \in RecordIDs : heads[y] > 0 => heads'[y] > 0
    BY <1>1 DEF Organize
  <1> QED  BY <1>1, <1>2, CallStays DEF Organize

(* A read changes the call alone. *)
LEMMA ReadKeeps ==
    ASSUME OwnerInv, UNCHANGED stored, CallOK(call', trail, barred, Existing)
    PROVE  OwnerInv'
  <1>1. /\ trail' = trail /\ filed' = filed /\ heads' = heads /\ barred' = barred
        /\ Existing' = Existing
    BY DEF stored, Existing
  <1> QED  BY <1>1 DEF OwnerInv

LEMMA OpOfCall ==
    ASSUME NEW c, NEW T, NEW B, NEW X, CallOK(c, T, B, X)
    PROVE  /\ c.op = "trace" => TraceOK(c, T)
           /\ c.op = "record" => RecordOK(c, B)
           /\ c.op = "list" => ListOK(c, X)
  <1>1. c = Idle => c.op = "none"
    BY DEF Idle
  <1>2. TraceOK(c, T) => c.op = "trace"
    BY Zenon DEF TraceOK, TraceCalls
  <1>3. RecordOK(c, B) => c.op = "record"
    BY Zenon DEF RecordOK, RecordCalls
  <1>4. ListOK(c, X) => c.op = "list"
    BY DEF ListOK, ListCalls
  <1>5. SearchOK(c) => c.op = "search"
    BY DEF SearchOK
  <1> QED  BY <1>1, <1>2, <1>3, <1>4, <1>5 DEF CallOK

LEMMA TraceKeeps ==
    ASSUME OwnerInv
    PROVE  /\ \A r \in Evidence : TraceReceipt(r) => OwnerInv'
           /\ TraceContinues => OwnerInv'
  <1>1. trail \in [Evidence -> Trails]
    BY DEF OwnerInv
  <1>2. TraceOrder[1] = "receipts" /\ TraceOrder[2] = "receipt_tombstones" /\ Len(TraceOrder) = 2
    BY DEF TraceOrder
  <1>3. ASSUME NEW r \in Evidence, TraceReceipt(r) PROVE OwnerInv'
    <2>1. call' = [op |-> "trace", receipt |-> r, began |-> trail[r], statement |-> 1,
                   answer |-> IF trail[r] \in {"active", "corrected"} THEN trail[r] ELSE "none"]
      BY <1>2, <1>3 DEF TraceReceipt, TraceStatement, InTable
    <2>2. trail[r] \in Trails
      BY <1>1
    <2>3. TraceOK(call', trail)
      <3>1. call' \in TraceCalls
        BY <2>1, <2>2, Zenon DEF TraceCalls, Trails
      <3> QED BY <2>1, <2>2, <3>1, Zenon DEF TraceOK, Trails
    <2> QED BY <1>3, <2>3, ReadKeeps, Zenon DEF TraceReceipt, CallOK
  <1>4. ASSUME TraceContinues PROVE OwnerInv'
    <2>1. call.op = "trace" /\ call.answer = "none" /\ UNCHANGED stored
      BY <1>4 DEF TraceContinues
    <2>2. TraceOK(call, trail)
      BY <2>1, OpOfCall DEF OwnerInv
    <2>3. /\ call.receipt \in Evidence /\ call.began \in Trails /\ call.statement = 1
          /\ call.began # "absent" => trail[call.receipt] = "deleted"
      BY <2>1, <2>2, Zenon DEF TraceOK, TraceCalls
    <2>4. call' = [op |-> "trace", receipt |-> call.receipt, began |-> call.began, statement |-> 2,
                   answer |-> IF trail[call.receipt] = "deleted" THEN trail[call.receipt]
                              ELSE "not found"]
      <3>1. call' = TraceStatement(call.receipt, 2, call.began)
        BY <1>4, <2>3 DEF TraceContinues
      <3> QED BY <1>2, <3>1, Zenon DEF TraceStatement, InTable
    <2>5. TraceOK(call', trail)
      <3>1. call' \in TraceCalls
        BY <2>3, <2>4, Zenon DEF TraceCalls, Trails
      <3> QED BY <2>3, <2>4, <3>1, Zenon DEF TraceOK, Trails
    <2> QED BY <2>1, <2>5, ReadKeeps, Zenon DEF CallOK
  <1> QED  BY <1>3, <1>4, Zenon

LEMMA RecordCall ==
    ASSUME OwnerInv, call.op = "record"
    PROVE  RecordOK(call, barred)
  BY OpOfCall DEF OwnerInv

LEMMA RecordReadKeeps ==
    ASSUME OwnerInv
    PROVE  /\ \A x \in RecordIDs : GetHead(x) => OwnerInv'
           /\ BlankForgottenRecordHead => OwnerInv'
           /\ GetRevision => OwnerInv'
           /\ FenceRevision => OwnerInv'
  <1>1. ASSUME NEW x \in RecordIDs, GetHead(x) PROVE OwnerInv'
    <2>1. /\ UNCHANGED stored
          /\ call' = [op |-> "record", record |-> x, step |-> "head", revision |-> heads[x],
                      kind |-> x \notin erased, text |-> FALSE, late |-> FALSE]
      BY <1>1, Zenon DEF GetHead
    <2>2. heads[x] \in Nat
      BY DEF OwnerInv
    <2>3. RecordOK(call', barred)
      <3>1. call' \in RecordCalls
        BY <2>1, <2>2 DEF RecordCalls
      <3> QED BY <2>1, <3>1 DEF RecordOK
    <2> QED BY <2>1, <2>3, ReadKeeps, Zenon DEF CallOK
  <1>2. ASSUME BlankForgottenRecordHead PROVE OwnerInv'
    <2>1. /\ call.op = "record" /\ call.step = "head" /\ UNCHANGED stored
          /\ call' = [call EXCEPT !.step = "fenced head", !.kind = call.kind /\ call.record \notin barred]
      BY <1>2, Zenon DEF BlankForgottenRecordHead
    <2>2. call \in RecordCalls
      BY <2>1, RecordCall DEF RecordOK
    <2>3. RecordOK(call', barred)
      <3>1. call' \in RecordCalls /\ call'.step = "fenced head"
        BY <2>1, <2>2, Zenon DEF RecordCalls
      <3> QED BY <3>1, Zenon DEF RecordOK
    <2> QED BY <2>1, <2>3, ReadKeeps, Zenon DEF CallOK
  <1>3. ASSUME GetRevision PROVE OwnerInv'
    <2>1. /\ call.op = "record" /\ call.step = "fenced head" /\ UNCHANGED stored
          /\ call' = [call EXCEPT !.step = "revision", !.text = call.record \notin erased,
                                  !.late = call.record \in barred]
      BY <1>3, Zenon DEF GetRevision
    <2>2. call \in RecordCalls
      BY <2>1, RecordCall, Zenon DEF RecordOK
    <2>3. RecordOK(call', barred)
      <3> DEFINE read == [call EXCEPT !.step = "revision", !.text = call.record \notin erased]
      <3>1. call' = [read EXCEPT !.late = call.record \in barred]
        BY <2>1, Zenon
      <3>2. read \in RecordCalls /\ read.step = "revision" /\ read.record = call.record
        BY <2>2, Zenon DEF RecordCalls
      <3> HIDE DEF read
      <3>3. call' \in RecordCalls /\ call'.step = "revision" /\ call'.record = call.record
        <4>0. (call.record \in barred) \in BOOLEAN
          OBVIOUS
        <4>1. PICK late \in BOOLEAN : late = (call.record \in barred)
          BY <4>0, Zenon
        <4>2. call' = [read EXCEPT !.late = late]
          BY <3>1, <4>1, Zenon
        <4> QED BY <3>2, <4>2, Zenon DEF RecordCalls
      <3>4. call'.late => call.record \in barred
        BY <3>1, <3>2, Zenon DEF RecordCalls
      <3> QED BY <3>3, <3>4 DEF RecordOK
    <2> QED BY <2>1, <2>3, ReadKeeps, Zenon DEF CallOK
  <1>4. ASSUME FenceRevision PROVE OwnerInv'
    <2>1. /\ call.op = "record" /\ call.step = "revision" /\ UNCHANGED stored
          /\ call' = [call EXCEPT !.step = "answered", !.text = call.text /\ call.record \notin barred]
      BY <1>4, Zenon DEF FenceRevision
    <2>2. call \in RecordCalls /\ (call.late => call.record \in barred)
      BY <2>1, RecordCall DEF RecordOK
    <2>3. RecordOK(call', barred)
      <3>1. call' \in RecordCalls /\ call'.step = "answered" /\ call'.late = call.late
        BY <2>1, <2>2, Zenon DEF RecordCalls
      <3>2. call'.text => call.record \notin barred
        BY <2>1, <2>2, Zenon DEF RecordCalls
      <3> QED BY <2>2, <3>1, <3>2 DEF RecordOK
    <2> QED BY <2>1, <2>3, ReadKeeps, Zenon DEF CallOK
  <1> QED  BY <1>1, <1>2, <1>3, <1>4, Zenon

(* One page: the rows after the cursor, joined to what was listed before. *)
LEMMA ListingOK ==
    ASSUME OwnerInv, NEW limit \in Nat \ {0}, NEW after \in Nat, NEW earlier \in Seq(RecordIDs),
           NEW before \in SUBSET Existing, Increasing(earlier),
           \A i \in DOMAIN earlier : earlier[i] <= after,
           \A x \in before : x <= after => \E i \in DOMAIN earlier : earlier[i] = x
    PROVE  ListOK(Listing(limit, after, earlier, before), Existing)
  <1> DEFINE X == {x \in Existing : x > after}
             rows == UpTo(InOrder(X), limit + 1)
             page == UpTo(rows, limit)
             next == NextCursor(rows, limit)
             listed == earlier \o page
  <1>1. Existing \subseteq RecordIDs /\ RecordIDs \subseteq Nat \ {0} /\ IsFiniteSet(RecordIDs)
    BY OwnerReadsAssumption, FS_Interval DEF Existing, RecordIDs
  <1>2. X \in SUBSET Nat /\ X \subseteq RecordIDs /\ 0 \notin X
    BY <1>1, Zenon
  <1>3. IsFiniteSet(X)
    BY <1>1, <1>2, FS_Subset
  <1>4. \A x \in X : x > after
    OBVIOUS
  <1>5. \A x \in before : x \in RecordIDs /\ (x > after => x \in X)
    BY <1>1
  <1> HIDE DEF X
  <1>6. /\ page \in Seq(X) /\ Increasing(page)
        /\ next = 0 => \A x \in X : \E i \in DOMAIN page : page[i] = x
        /\ next # 0 => /\ next \in X /\ \A i \in DOMAIN page : page[i] <= next
                       /\ \A x \in X : x <= next => \E i \in DOMAIN page : page[i] = x
    <2>1. rows = UpTo(InOrder(X), limit + 1)
      OBVIOUS
    <2> HIDE DEF rows
    <2>2. HoldsItsRange(X, UpTo(rows, limit), NextCursor(rows, limit))
      BY <1>2, <1>3, <2>1, PageHoldsItsRange
    <2> QED BY <2>2 DEF HoldsItsRange
  <1>7. Listing(limit, after, earlier, before) =
           [op |-> "list", limit |-> limit, before |-> before, listed |-> listed, cursor |-> next]
    BY Zenon DEF Listing, X
  <1> HIDE DEF page, next
  <1> DEFINE m == Len(earlier)
             n == Len(page)
  <1>8. page \in Seq(RecordIDs)
    <2>1. page \in [1..Len(page) -> X] /\ Len(page) \in Nat
      BY <1>6
    <2>2. page \in [1..Len(page) -> RecordIDs]
      BY <1>2, <2>1, Zenon
    <2> QED BY <2>1, <2>2
  <1>9. /\ listed \in Seq(RecordIDs) /\ m \in Nat /\ n \in Nat
        /\ DOMAIN earlier = 1..m /\ DOMAIN page = 1..n /\ DOMAIN listed = 1..(m + n)
        /\ \A i \in 1..m : listed[i] = earlier[i]
        /\ \A i \in 1..n : listed[m + i] = page[i]
    BY <1>8
  <1>20. \A i \in 1..m : earlier[i] <= after /\ earlier[i] \in Nat
    <2>1. \A i \in 1..m : earlier[i] \in RecordIDs
      BY <1>9
    <2> QED BY <1>1, <1>9, <2>1, Zenon
  <1> HIDE DEF listed, m, n
  <1>10. \A i \in 1..(m + n) : i \in 1..m \/ (i - m \in 1..n /\ listed[i] = page[i - m])
    <2> SUFFICES ASSUME NEW i \in 1..(m + n), i \notin 1..m
                 PROVE  i - m \in 1..n /\ listed[i] = page[i - m]
      BY Zenon
    <2>1. i - m \in 1..n /\ m + (i - m) = i
      BY <1>9
    <2> QED BY <1>9, <2>1
  <1>11. Increasing(listed)
    <2> SUFFICES ASSUME NEW i \in 1..(m + n), NEW k \in 1..(m + n), i < k PROVE listed[i] < listed[k]
      BY <1>9 DEF Increasing
    <2>1. CASE k \in 1..m
      <3>1. i \in 1..m /\ listed[i] = earlier[i] /\ listed[k] = earlier[k]
        BY <1>9, <2>1
      <3> QED BY <1>9, <2>1, <3>1 DEF Increasing
    <2>2. CASE k \notin 1..m
      <3>1. k - m \in 1..n /\ listed[k] = page[k - m] /\ page[k - m] \in X
        BY <1>6, <1>9, <1>10, <2>2
      <3>2. CASE i \in 1..m
        <4>1. earlier[i] <= after /\ listed[i] = earlier[i] /\ earlier[i] \in Nat
          BY <1>9, <1>20, <3>2, Zenon
        <4>2. page[k - m] > after /\ page[k - m] \in Nat
          BY <1>2, <1>4, <3>1, Zenon
        <4> QED BY <3>1, <4>1, <4>2
      <3>3. CASE i \notin 1..m
        <4>1. i - m \in 1..n /\ listed[i] = page[i - m]
          BY <1>10, <3>3
        <4>2. i - m < k - m
          BY <1>9
        <4> QED BY <1>6, <1>9, <3>1, <4>1, <4>2, ZenonT(30) DEF Increasing
      <3> QED BY <3>2, <3>3
    <2> QED BY <2>1, <2>2
  <1>12. /\ \A i \in DOMAIN earlier : i \in DOMAIN listed /\ listed[i] = earlier[i]
         /\ \A i \in DOMAIN page : m + i \in DOMAIN listed /\ listed[m + i] = page[i]
    BY <1>9
  <1>13. ASSUME NEW x \in before, x <= after \/ \E i \in DOMAIN page : page[i] = x
         PROVE  \E i \in DOMAIN listed : listed[i] = x
    <2>1. CASE x <= after
      <3>1. PICK i \in DOMAIN earlier : earlier[i] = x
        BY <2>1
      <3> QED BY <1>12, <3>1
    <2>2. CASE \E i \in DOMAIN page : page[i] = x
      <3>1. PICK i \in DOMAIN page : page[i] = x
        BY <2>2
      <3> QED BY <1>12, <3>1
    <2> QED BY <1>13, <2>1, <2>2
  <1>14. \A x \in before : x <= after \/ x \in X
    BY <1>1, <1>5
  <1>15. next \in Nat
    <2>1. next = 0 \/ next \in X
      BY <1>6, Zenon
    <2>2. 0 \in Nat
      OBVIOUS
    <2> QED BY <1>2, <2>1, <2>2, Zenon
  <1>16. next = 0 => \A x \in before : \E i \in DOMAIN listed : listed[i] = x
    BY <1>6, <1>13, <1>14
  <1>17. ASSUME next # 0
         PROVE  /\ \A i \in DOMAIN listed : listed[i] <= next
                /\ \A x \in before : x <= next => \E i \in DOMAIN listed : listed[i] = x
    <2>1. \A x \in before : x <= next => \E i \in DOMAIN listed : listed[i] = x
      BY <1>6, <1>13, <1>14, <1>17
    <2>2. ASSUME NEW i \in 1..(m + n) PROVE listed[i] <= next
      <3>1. CASE i \in 1..m
        <4>1. listed[i] = earlier[i] /\ earlier[i] <= after /\ earlier[i] \in Nat
          BY <1>9, <1>20, <3>1, Zenon
        <4>2. next > after
          BY <1>4, <1>6, <1>17
        <4> QED BY <1>15, <4>1, <4>2
      <3>2. CASE i \notin 1..m
        <4>1. i - m \in DOMAIN page /\ listed[i] = page[i - m]
          BY <1>9, <1>10, <3>2
        <4> QED BY <1>6, <1>17, <4>1
      <3> QED BY <3>1, <3>2
    <2> QED BY <1>9, <2>1, <2>2
  <1> DEFINE c == [op |-> "list", limit |-> limit, before |-> before, listed |-> listed, cursor |-> next]
  <1>18. /\ c \in ListCalls /\ c.listed = listed /\ c.cursor = next /\ c.before = before
    <2>1. before \in SUBSET RecordIDs
      BY <1>1
    <2> QED BY <1>9, <1>15, <2>1 DEF ListCalls
  <1> HIDE DEF c
  <1>19. ListOK(c, Existing)
    BY <1>11, <1>16, <1>17, <1>18, Zenon DEF ListOK
  <1> QED  BY <1>7, <1>19 DEF c

LEMMA ListKeeps ==
    ASSUME OwnerInv
    PROVE  /\ \A limit \in PageLimits : ListRecords(limit) => OwnerInv'
           /\ ListNextPage => OwnerInv'
  <1>1. ASSUME NEW limit \in PageLimits, ListRecords(limit) PROVE OwnerInv'
    <2>1. call' = Listing(limit, 0, <<>>, Existing) /\ UNCHANGED stored
      BY <1>1, Zenon DEF ListRecords
    <2>2. limit \in Nat \ {0}
      BY OwnerReadsAssumption
    <2> DEFINE nothing == <<>>
    <2>3. nothing \in Seq(RecordIDs) /\ DOMAIN nothing = {}
      OBVIOUS
    <2>4. \A x \in Existing : ~(x <= 0)
      BY DEF Existing, RecordIDs
    <2> HIDE DEF nothing
    <2>5. Increasing(nothing)
      BY <2>3 DEF Increasing
    <2>6. ListOK(Listing(limit, 0, nothing, Existing), Existing)
      BY <2>2, <2>3, <2>4, <2>5, ListingOK, Zenon
    <2>7. ListOK(call', Existing)
      BY <2>1, <2>6 DEF nothing
    <2> QED BY <2>1, <2>7, ReadKeeps, Zenon DEF CallOK
  <1>2. ASSUME ListNextPage PROVE OwnerInv'
    <2>1. /\ call.op = "list" /\ call.cursor # 0 /\ UNCHANGED stored
          /\ call' = Listing(call.limit, call.cursor, call.listed, call.before)
      BY <1>2, Zenon DEF ListNextPage
    <2>2. ListOK(call, Existing)
      BY <2>1, OpOfCall DEF OwnerInv
    <2>3. /\ call.limit \in Nat \ {0} /\ call.cursor \in Nat /\ call.listed \in Seq(RecordIDs)
      BY <2>2 DEF ListOK, ListCalls
    <2>4. /\ call.before \in SUBSET Existing /\ Increasing(call.listed)
          /\ \A i \in DOMAIN call.listed : call.listed[i] <= call.cursor
          /\ \A x \in call.before : x <= call.cursor => \E i \in DOMAIN call.listed : call.listed[i] = x
      BY <2>1, <2>2, Zenon DEF ListOK
    <2>5. ListOK(Listing(call.limit, call.cursor, call.listed, call.before), Existing)
      BY <2>3, <2>4, ListingOK
    <2> QED BY <2>1, <2>5, ReadKeeps, Zenon DEF CallOK
  <1> QED  BY <1>1, <1>2, Zenon

(* Each Space is asked for one row more than the limit: when no more than   *)
(* limit come in all, none was left behind. *)
LEMMA NothingLeftBehind ==
    ASSUME NEW V, IsFiniteSet(V), NEW limit \in Nat, NEW found \in [SearchSpaces -> SUBSET V],
           \A r \in V : filed[r] \in SearchSpaces,
           \A s \in SearchSpaces : found[s] \in FromSpace(s, V, limit),
           NEW C, C = UNION {found[s] : s \in SearchSpaces}, NEW R \in SomeOf(C, limit)
    PROVE  IF Cardinality(C) > limit THEN Cardinality(R) = limit ELSE R = V
  <1>1. C \in SUBSET V
    <2>1. \A s \in SearchSpaces : found[s] \subseteq V
      OBVIOUS
    <2> QED BY <2>1, Zenon
  <1>2. IsFiniteSet(C) /\ Cardinality(C) \in Nat
    BY <1>1, FS_Subset, FS_CardinalityType
  <1>3. R \in SUBSET C /\ Cardinality(R) = Smaller(limit, Cardinality(C))
    BY Zenon DEF SomeOf
  <1>4. CASE Cardinality(C) > limit
    BY <1>2, <1>3, <1>4 DEF Smaller
  <1>5. CASE ~(Cardinality(C) > limit)
    <2>1. Cardinality(R) = Cardinality(C)
      BY <1>2, <1>3, <1>5 DEF Smaller
    <2>2. R = C
      BY <1>2, <1>3, <2>1, FS_Subset
    <2>3. V \subseteq C
      <3> SUFFICES ASSUME NEW r \in V PROVE r \in C
        BY Zenon
      <3> DEFINE s == filed[r]
                 W == {q \in V : filed[q] = s}
      <3>1. s \in SearchSpaces /\ r \in W
        OBVIOUS
      <3>2. IsFiniteSet(W) /\ Cardinality(W) \in Nat
        <4>1. W \in SUBSET V
          OBVIOUS
        <4> HIDE DEF W
        <4> QED BY <4>1, FS_Subset, FS_CardinalityType
      <3>3. found[s] \in SUBSET W /\ Cardinality(found[s]) = Smaller(limit + 1, Cardinality(W))
        <4>1. found[s] \in FromSpace(s, V, limit)
          BY <3>1, Zenon
        <4>2. found[s] \in SomeOf(W, limit + 1)
          BY <4>1, Zenon DEF FromSpace
        <4> HIDE DEF W, s
        <4> QED BY <4>2, Zenon DEF SomeOf
      <3> HIDE DEF W, s
      <3>4. found[s] \in SUBSET C
        BY <3>1, Zenon
      <3>5. Cardinality(found[s]) <= Cardinality(C) /\ Cardinality(found[s]) \in Nat
        BY <1>2, <3>4, FS_Subset, FS_CardinalityType
      <3>6. Cardinality(found[s]) = Cardinality(W)
        BY <1>2, <1>5, <3>2, <3>3, <3>5 DEF Smaller
      <3>7. found[s] = W
        BY <3>2, <3>3, <3>6, FS_Subset
      <3> QED BY <3>1, <3>4, <3>7, Zenon
    <2> QED BY <1>1, <1>5, <2>2, <2>3
  <1> QED  BY <1>4, <1>5

LEMMA SearchKeeps ==
    ASSUME OwnerInv, NEW spaces, NEW includeCorrected, NEW limit \in PageLimits,
           SearchReceipts(spaces, includeCorrected, limit)
    PROVE  OwnerInv'
  <1> DEFINE V == Visible(spaces, includeCorrected)
  <1>1. PICK found \in [SearchSpaces -> SUBSET V] :
           /\ \A s \in SearchSpaces : found[s] \in FromSpace(s, V, limit)
           /\ \E R \in SomeOf(UNION {found[s] : s \in SearchSpaces}, limit) :
                call' = [op |-> "search", limit |-> limit, visible |-> V, found |-> R,
                         truncated |-> Cardinality(UNION {found[s] : s \in SearchSpaces}) > limit]
    BY Zenon DEF SearchReceipts
  <1> DEFINE C == UNION {found[s] : s \in SearchSpaces}
  <1>2. PICK R \in SomeOf(C, limit) :
           call' = [op |-> "search", limit |-> limit, visible |-> V, found |-> R,
                    truncated |-> Cardinality(C) > limit]
    BY <1>1, Zenon
  <1>3. UNCHANGED stored
    BY DEF SearchReceipts
  <1>4. limit \in Nat
    BY OwnerReadsAssumption
  <1>5. V \in SUBSET Evidence /\ \A r \in V : filed[r] \in SearchSpaces
    <2>1. V \in SUBSET Evidence
      BY DEF Visible
    <2>2. \A r \in Evidence : filed[r] \in SearchSpaces
      BY DEF OwnerInv
    <2> QED BY <2>1, <2>2, Zenon
  <1> HIDE DEF V
  <1>6. IsFiniteSet(V)
    BY <1>5, OwnerReadsAssumption, FS_Subset
  <1>7. IF Cardinality(C) > limit THEN Cardinality(R) = limit ELSE R = V
    <2>1. C = UNION {found[s] : s \in SearchSpaces}
      OBVIOUS
    <2> HIDE DEF C
    <2> QED BY <1>1, <1>2, <1>4, <1>5, <1>6, <2>1, NothingLeftBehind
  <1> HIDE DEF C
  <1>8. SearchOK(call')
    <2>1. PICK cut : cut = (Cardinality(C) > limit)
      BY Zenon
    <2>2. cut <=> Cardinality(C) > limit
      BY <2>1, Zenon
    <2>3. call' = [op |-> "search", limit |-> limit, visible |-> V, found |-> R, truncated |-> cut]
      BY <1>2, <2>1, Zenon
    <2>4. /\ call'.op = "search" /\ call'.limit = limit /\ call'.visible = V /\ call'.found = R
          /\ call'.truncated = cut
      BY <2>3, Zenon
    <2> QED BY <1>7, <2>2, <2>4, Zenon DEF SearchOK
  <1> QED  BY <1>3, <1>8, ReadKeeps, Zenon DEF CallOK

LEMMA OwnerInvKept == ASSUME OwnerInv, [OwnerNext]_ownerVars PROVE OwnerInv'
  <1>1. ASSUME NEW x \in RecordIDs, NEW R \in SUBSET Evidence, Organize(x, R) PROVE OwnerInv'
    BY <1>1, OrganizeKeeps
  <1>2. ASSUME NEW limit \in PageLimits, NEW S \in Scopings, NEW corrected \in BOOLEAN,
               SearchReceipts(S, corrected, limit)
        PROVE  OwnerInv'
    BY <1>2, SearchKeeps
  <1>3. CASE CallEnds
    <2>1. CallOK(call', trail, barred, Existing) /\ UNCHANGED stored
      BY <1>3, Zenon DEF CallEnds, CallOK
    <2> QED BY <2>1, ReadKeeps
  <1>4. CASE UNCHANGED ownerVars
    <2>1. call' = call /\ UNCHANGED stored
      BY <1>4 DEF ownerVars, stored
    <2> QED BY <2>1, ReadKeeps DEF OwnerInv
  <1> QED
    BY <1>1, <1>2, <1>3, <1>4, TransactionsKeep, TraceKeeps, RecordReadKeeps, ListKeeps, Zenon
    DEF OwnerNext

(* TraceReceipt and GetSemanticRecord, whose statements other transactions  *)
(* come between, never deny a receipt that was stored when it was asked for *)
(* nor answer a text read after its deletion.                               *)
THEOREM OwnerIsToldTheTruth == OwnerSpec => []AnswersAreTrue
  BY OwnerInvInit, OwnerInvKept, OwnerInvGives, PTL DEF OwnerSpec

(* ListRecords and SearchReceipts lose nothing silently, for any number of  *)
(* Records, receipts and Spaces and any limit, and whatever is added or     *)
(* forgotten between two pages.                                             *)
THEOREM NothingLostSilently == OwnerSpec => []LimitsAreSaid
  BY OwnerInvInit, OwnerInvKept, OwnerInvGives, PTL DEF OwnerSpec
=============================================================================

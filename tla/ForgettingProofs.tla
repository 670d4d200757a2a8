--------------------------- MODULE ForgettingProofs ---------------------------
(***************************************************************************)
(* Proofs, for any receipts, Records, limits and crashes, that governed    *)
(* forgetting keeps its promises: nothing stemming from a forgotten        *)
(* receipt is served, recalled or in a worker's hands, a completed cleanup *)
(* has erased it, and nothing but a deletion erases.                       *)
(*                                                                         *)
(* The argument has no induction over derivations.  Sets X of Records and  *)
(* J of jobs "cover" receipt r if they contain what cites or reads r and   *)
(* are closed under derivation.  The invariant says that whatever stems    *)
(* from r is in every pair that covers r; forgettingClosure returns such a *)
(* pair, so the barrier names all of it.                                   *)
(***************************************************************************)
EXTENDS Forgetting, TLAPS

Revision == [job : Receipts \union {None}, evidence : SUBSET Receipts, payload : BOOLEAN,
             fact : Adoption, related : Records \union {None}, taint : SUBSET Receipts]
ReadRow == [job : Receipts, attempt : Nat, record : Records, revision : Nat,
            receipt : Receipts]
Barrier == [kind : {"deleted", "corrected"}, receipt : Receipts, records : SUBSET Records,
            status : {"pending", "cleaned"}]
JobRow == [state : {"none", "pending", "leased", "completed", "failed"}, attempts : Nat]

TypeInv ==
    /\ receipt \in [Receipts -> {"absent", "live", "corrected", "deleted"}]
    /\ job \in [Receipts -> JobRow]
    /\ shown \in [Receipts -> SUBSET (Records \X Nat)]
    /\ readSet \subseteq ReadRow
    /\ status \in [Records -> {"absent", "active", "invalidated"}]
    /\ revs \in [Records -> Seq(Revision)]
    /\ legacy \subseteq Records
    /\ barriers \in Seq(Barrier)
    /\ handlers \subseteq DOMAIN barriers

(* A Record without a row has no Revision, every Revision cites evidence,   *)
(* what a lease was shown is in the read set, and only the job of a receipt *)
(* that was neither corrected nor deleted is open.                          *)
RowsInv ==
    /\ \A x \in Records : status[x] = "absent" <=> revs[x] = <<>>
    /\ \A x \in legacy : revs[x] # <<>>
    /\ \A x \in Records : \A v \in RevisionsOf(x) : v.evidence # {}
    /\ \A d \in readSet : receipt[d.job] # "absent"
    /\ \A r \in Receipts : \A s \in shown[r] :
          /\ s[2] \in DOMAIN revs[s[1]]
          /\ \E d \in readSet : d.job = r /\ d.record = s[1]
    /\ \A r \in Receipts : Open(job[r]) => receipt[r] = "live"

(* What a barrier names is invalidated for ever and closed under derivation *)
(* for ever.                                                                *)
BarrierOK(b) ==
    /\ receipt[b.receipt] \in {"corrected", "deleted"}
    /\ \A x \in b.records : status[x] = "invalidated"
    /\ b.records # {} => legacy \subseteq b.records
    /\ Referrers(b.records) \subseteq b.records
    /\ \A r \in Readers(b.records) : ~Open(job[r]) /\ Produced({r}) \subseteq b.records

BarrierInv == \A i \in DOMAIN barriers : BarrierOK(barriers[i])

(* The Records a finished deletion has erased. *)
Erased == UNION {barriers[i].records :
                    i \in {k \in DOMAIN barriers : /\ barriers[k].kind = "deleted"
                                                   /\ barriers[k].status = "cleaned"}}

Covers(r, X, J) ==
    /\ Citing(r) \subseteq X /\ {r} \union ReadersOfReceipt(r) \subseteq J
    /\ Closed(X, J)
    /\ X # {} => legacy \subseteq X

TaintInv ==
    \A r \in Receipts, X \in SUBSET Records, J \in SUBSET Receipts :
        Covers(r, X, J) =>
            \A x \in Records \ Erased : \A v \in RevisionsOf(x) : r \in v.taint => x \in X

(* Text of a deleted receipt that is still stored is under a pending        *)
(* barrier of that receipt, and what a finished deletion names is blank.    *)
PendingNames(r, x) ==
    \E i \in Pending : /\ barriers[i].kind = "deleted" /\ barriers[i].receipt = r
                       /\ x \in barriers[i].records

GoneInv ==
    /\ \A x \in Records : \A v \in RevisionsOf(x) : \A r \in v.taint \intersect Deleted :
          v.payload => PendingNames(r, x)
    /\ \A x \in Erased : \A v \in RevisionsOf(x) : ~v.payload

Inv == TypeInv /\ RowsInv /\ BarrierInv /\ TaintInv /\ GoneInv /\ ActiveIsFresh /\ LeaseIsFresh

-----------------------------------------------------------------------------
(* The forgetting closure *)

LEMMA ClosureRows ==
    ASSUME TypeInv, NEW X \in SUBSET Records, NEW J \in SUBSET Receipts
    PROVE  /\ Produced(J) \subseteq Records /\ Referrers(X) \subseteq Records
           /\ Readers(X) \subseteq Receipts
  BY DEF TypeInv, Produced, Referrers, Readers, ReadRow

LEMMA ClosureMonotone ==
    ASSUME NEW X, NEW Y, X \subseteq Y, NEW I, NEW J, I \subseteq J
    PROVE  /\ Produced(I) \subseteq Produced(J) /\ Referrers(X) \subseteq Referrers(Y)
           /\ Readers(X) \subseteq Readers(Y)
  BY DEF Produced, Referrers, Readers

(* The least closed pair is closed, contains what it starts from, and is    *)
(* within every closed pair that does.                                      *)
LEMMA ExpandCloses ==
    ASSUME TypeInv, NEW X0 \in SUBSET Records, NEW J0 \in SUBSET Receipts
    PROVE  LET c == Expand(X0, J0) IN
           /\ c.records \in SUBSET Records /\ c.jobs \in SUBSET Receipts
           /\ X0 \subseteq c.records /\ J0 \subseteq c.jobs
           /\ Closed(c.records, c.jobs)
           /\ \A X \in SUBSET Records, J \in SUBSET Receipts :
                 X0 \subseteq X /\ J0 \subseteq J /\ Closed(X, J) =>
                     c.records \subseteq X /\ c.jobs \subseteq J
<1> DEFINE C == ClosedFrom(X0, J0)
           R == {x \in Records : \A c \in C : x \in c[1]}
           K == {r \in Receipts : \A c \in C : r \in c[2]}
<1>1. Expand(X0, J0).records = R /\ Expand(X0, J0).jobs = K
  BY DEF Expand
<1>2. \A X \in SUBSET Records, J \in SUBSET Receipts :
         X0 \subseteq X /\ J0 \subseteq J /\ Closed(X, J) => <<X, J>> \in C
  BY DEF ClosedFrom
<1>3. ASSUME NEW c \in C
      PROVE  /\ c[1] \in SUBSET Records /\ c[2] \in SUBSET Receipts
             /\ X0 \subseteq c[1] /\ J0 \subseteq c[2] /\ Closed(c[1], c[2])
             /\ R \subseteq c[1] /\ K \subseteq c[2]
  BY DEF ClosedFrom
<1>4. X0 \subseteq R /\ J0 \subseteq K
  BY <1>3
<1>5. Closed(R, K)
  <2>1. ASSUME NEW c \in C
        PROVE  Produced(K) \subseteq c[1] /\ Referrers(R) \subseteq c[1] /\ Readers(R) \subseteq c[2]
    <3>1. /\ Produced(c[2]) \subseteq c[1] /\ Referrers(c[1]) \subseteq c[1]
          /\ Readers(c[1]) \subseteq c[2] /\ R \subseteq c[1] /\ K \subseteq c[2]
      BY <1>3, <2>1 DEF Closed
    <3> HIDE DEF R, K, C
    <3> QED BY <3>1, ClosureMonotone
  <2>2. Produced(K) \subseteq Records /\ Referrers(R) \subseteq Records /\ Readers(R) \subseteq Receipts
    BY ClosureRows, Zenon
  <2>3. Produced(K) \subseteq R
    BY <2>1, <2>2
  <2>4. Referrers(R) \subseteq R
    BY <2>1, <2>2
  <2>5. Readers(R) \subseteq K
    BY <2>1, <2>2
  <2> QED BY <2>3, <2>4, <2>5 DEF Closed
<1>6. ASSUME NEW X \in SUBSET Records, NEW J \in SUBSET Receipts,
             X0 \subseteq X, J0 \subseteq J, Closed(X, J)
      PROVE  R \subseteq X /\ K \subseteq J
  <2>1. <<X, J>> \in C
    BY <1>2, <1>6
  <2> QED BY <2>1
<1>7. R \in SUBSET Records /\ K \in SUBSET Receipts
  OBVIOUS
<1> HIDE DEF R, K
<1> QED BY <1>1, <1>4, <1>5, <1>6, <1>7

(* forgettingClosure covers its receipt, and names only Records that exist. *)
LEMMA ClosureCovers ==
    ASSUME TypeInv, RowsInv, NEW r \in Receipts
    PROVE  LET c == ForgettingClosure(r) IN
           /\ c.records \in SUBSET Records /\ c.jobs \in SUBSET Receipts
           /\ Covers(r, c.records, c.jobs)
           /\ \A x \in c.records : revs[x] # <<>>
<1> DEFINE J0 == {r} \union ReadersOfReceipt(r)
           a == Expand(Citing(r), J0)
           W == Widened(a.records)
           K == a.jobs
           w == Expand(W, K)
<1>1. ForgettingClosure(r) = w
  BY DEF ForgettingClosure
<1>2. Citing(r) \in SUBSET Records /\ J0 \in SUBSET Receipts
  BY DEF Citing, ReadersOfReceipt, TypeInv, ReadRow
<1>3. /\ a.records \in SUBSET Records /\ a.jobs \in SUBSET Receipts
      /\ Citing(r) \subseteq a.records /\ J0 \subseteq a.jobs /\ Closed(a.records, a.jobs)
      /\ \A X \in SUBSET Records, J \in SUBSET Receipts :
            Citing(r) \subseteq X /\ J0 \subseteq J /\ Closed(X, J) =>
                a.records \subseteq X /\ a.jobs \subseteq J
  <2> HIDE DEF J0
  <2> QED BY <1>2, ExpandCloses, Zenon
<1> HIDE DEF a
<1>4. /\ W \in SUBSET Records /\ a.records \subseteq W
      /\ W # {} => legacy \subseteq W
      /\ a.records = {} => W = {}
  BY <1>3 DEF Widened, TypeInv
<1> HIDE DEF W
<1>5. /\ w.records \in SUBSET Records /\ w.jobs \in SUBSET Receipts
      /\ W \subseteq w.records /\ K \subseteq w.jobs /\ Closed(w.records, w.jobs)
      /\ \A X \in SUBSET Records, J \in SUBSET Receipts :
            W \subseteq X /\ K \subseteq J /\ Closed(X, J) =>
                w.records \subseteq X /\ w.jobs \subseteq J
  <2>1. W \in SUBSET Records /\ K \in SUBSET Receipts
    BY <1>3, <1>4
  <2> HIDE DEF K
  <2> QED BY <2>1, ExpandCloses, Zenon
<1> HIDE DEF w
<1>6. w.records # {} => legacy \subseteq w.records
  <2>1. CASE a.records = {}
    <3>1. w.records \subseteq a.records
      BY <1>3, <1>4, <1>5, <2>1
    <3> QED BY <2>1, <3>1
  <2>2. CASE a.records # {}
    BY <1>4, <1>5, <2>2
  <2> QED BY <2>1, <2>2
<1>7. \A x \in w.records : revs[x] # <<>>
  <2> DEFINE E == {x \in Records : revs[x] # <<>>}
  <2>1. \A J : Produced(J) \subseteq E
    BY DEF Produced, RevisionsOf, TypeInv
  <2>2. \A X : Referrers(X) \subseteq E
    BY DEF Referrers, RevisionsOf, TypeInv
  <2>3. Citing(r) \subseteq E
    BY DEF Citing, RevisionsOf, TypeInv
  <2>4. legacy \subseteq E
    BY DEF RowsInv, TypeInv
  <2> HIDE DEF E
  <2>5. ASSUME NEW X, NEW J, Closed(X, J) PROVE Closed(X \intersect E, J)
    <3>1. Referrers(X \intersect E) \subseteq Referrers(X) /\ Readers(X \intersect E) \subseteq Readers(X)
      BY ClosureMonotone
    <3> QED BY <2>1, <2>2, <2>5, <3>1 DEF Closed
  <2>6. a.records \subseteq E
    <3>1. /\ a.records \intersect E \in SUBSET Records /\ Citing(r) \subseteq a.records \intersect E
          /\ Closed(a.records \intersect E, a.jobs)
      BY <1>3, <2>3, <2>5
    <3> QED BY <1>3, <3>1
  <2>7. W \subseteq E
    BY <2>4, <2>6 DEF W, Widened
  <2>8. w.records \subseteq E
    <3>1. /\ w.records \intersect E \in SUBSET Records /\ W \subseteq w.records \intersect E
          /\ Closed(w.records \intersect E, w.jobs)
      BY <1>5, <2>7, <2>5
    <3> QED BY <1>5, <3>1
  <2> QED BY <2>8 DEF E
<1>8. Covers(r, w.records, w.jobs)
  BY <1>3, <1>4, <1>5, <1>6 DEF Covers
<1> QED BY <1>1, <1>5, <1>7, <1>8

-----------------------------------------------------------------------------
(* Steps that add: evidence, facts, claims and proposals *)

LEMMA Appended ==
    ASSUME NEW q \in Seq(Revision), NEW v \in Revision
    PROVE  LET t == Append(q, v) IN
           /\ t \in Seq(Revision) /\ t # <<>> /\ t[Len(t)] = v
           /\ \A i \in DOMAIN q : i \in DOMAIN t /\ t[i] = q[i]
           /\ \A i \in DOMAIN t : i \in DOMAIN q \/ t[i] = v
           /\ Len(t) \in DOMAIN t
  OBVIOUS

LEMMA RevisionTypes ==
    ASSUME TypeInv, NEW x \in Records
    PROVE  /\ revs[x] \in Seq(Revision) /\ RevisionsOf(x) \subseteq Revision
           /\ revs[x] # <<>> => HeadOf(x) \in RevisionsOf(x) /\ Len(revs[x]) \in DOMAIN revs[x]
  BY DEF TypeInv, RevisionsOf, HeadOf

Unbarred(x) == \A i \in DOMAIN barriers : x \notin barriers[i].records

LEMMA ActiveUnbarred ==
    ASSUME BarrierInv, NEW x, status[x] # "invalidated" PROVE Unbarred(x)
  BY DEF BarrierInv, BarrierOK, Unbarred

LEMMA UnbarredNotErased == ASSUME NEW x, Unbarred(x) PROVE x \notin Erased
  BY DEF Unbarred, Erased

LEMMA BarrierTypes ==
    ASSUME TypeInv, NEW i \in DOMAIN barriers
    PROVE  /\ barriers[i] \in Barrier /\ barriers[i].records \in SUBSET Records
           /\ barriers[i].receipt \in Receipts
           /\ barriers[i].status \in {"pending", "cleaned"}
<1>1. barriers[i] \in Barrier
  BY DEF TypeInv
<1> QED BY <1>1 DEF Barrier

LEMMA ErasedRecords ==
    ASSUME TypeInv, BarrierInv, NEW x \in Erased
    PROVE  x \in Records /\ status[x] = "invalidated"
<1>1. PICK i \in DOMAIN barriers : x \in barriers[i].records
  BY DEF Erased
<1> QED BY <1>1, BarrierTypes DEF BarrierInv, BarrierOK

(* Why Revision v may be appended to Record x: what it repeats it cites,    *)
(* was shown, or takes from a Record it names or from x itself.             *)
Derived(x, v) ==
    /\ status[x] \in {"absent", "active"}
    /\ v.evidence # {}
    /\ v.related # None => Unbarred(v.related)
    /\ v.job # None => job[v.job].state = "leased"
    /\ v.taint \intersect Stale = {}
    /\ \A r \in v.taint :
          \/ r \in v.evidence
          \/ v.job # None /\ r \in Context(v.job)
          \/ v.related # None /\ \E w \in RevisionsOf(v.related) : r \in w.taint
          \/ \E w \in RevisionsOf(x) : r \in w.taint

(* Receipt r's job is claimed and shown active heads. *)
Shows(r) ==
    /\ Open(job[r])
    /\ \A s \in shown'[r] : /\ status[s[1]] = "active" /\ s[2] \in DOMAIN revs[s[1]]
                            /\ \E d \in readSet' : d.job = r /\ d.record = s[1]

Growth ==
    /\ barriers' = barriers /\ legacy' = legacy /\ readSet \subseteq readSet'
    /\ \A r \in Receipts :
          /\ receipt'[r] = receipt[r] \/ (receipt[r] = "absent" /\ receipt'[r] = "live")
          /\ Open(job'[r]) => Open(job[r]) \/ (receipt[r] = "absent" /\ receipt'[r] = "live")
          /\ \/ shown'[r] = shown[r] /\ (job'[r].state = "leased" => job[r].state = "leased")
             \/ Shows(r)
    /\ \A d \in readSet' : d \in readSet \/ (status[d.record] = "active" /\ Open(job[d.job])
                                                            /\ receipt[d.job] # "absent")
    /\ \A x \in Records :
          \/ revs'[x] = revs[x] /\ status'[x] = status[x]
          \/ /\ status'[x] \in {"active", "invalidated"}
             /\ \E v \in Revision : revs'[x] = Append(revs[x], v) /\ Derived(x, v)

LEMMA GrowthRevisions ==
    ASSUME TypeInv, Growth, NEW x \in Records
    PROVE  /\ RevisionsOf(x) \subseteq RevisionsOf(x)'
           /\ \A i \in DOMAIN revs[x] : i \in DOMAIN revs'[x] /\ revs'[x][i] = revs[x][i]
           /\ \A v \in RevisionsOf(x)' :
                 v \in RevisionsOf(x) \/ (v \in Revision /\ Derived(x, v)
                                             /\ status'[x] \in {"active", "invalidated"})
           /\ revs'[x] # revs[x] => status[x] \in {"absent", "active"}
<1>1. CASE revs'[x] = revs[x]
  BY <1>1 DEF RevisionsOf
<1>2. ASSUME NEW v \in Revision, revs'[x] = Append(revs[x], v), Derived(x, v),
             status'[x] \in {"active", "invalidated"}
      PROVE  /\ RevisionsOf(x) \subseteq RevisionsOf(x)'
             /\ \A i \in DOMAIN revs[x] : i \in DOMAIN revs'[x] /\ revs'[x][i] = revs[x][i]
             /\ \A w \in RevisionsOf(x)' : w \in RevisionsOf(x) \/ w = v
             /\ status[x] \in {"absent", "active"}
  <2>1. revs[x] \in Seq(Revision)
    BY DEF TypeInv
  <2>2. /\ \A i \in DOMAIN revs[x] : i \in DOMAIN revs'[x] /\ revs'[x][i] = revs[x][i]
        /\ \A i \in DOMAIN revs'[x] : i \in DOMAIN revs[x] \/ revs'[x][i] = v
    BY <1>2, <2>1, Appended
  <2> QED BY <1>2, <2>2 DEF RevisionsOf, Derived
<1> QED BY <1>1, <1>2 DEF Growth

LEMMA GrowthStale ==
    ASSUME TypeInv, TypeInv', Growth PROVE Stale' = Stale /\ Deleted' = Deleted
  BY DEF TypeInv, Growth, Stale, Deleted

LEMMA GrowthCovers ==
    ASSUME TypeInv, Growth, NEW r \in Receipts, NEW X \in SUBSET Records,
           NEW J \in SUBSET Receipts, Covers(r, X, J)'
    PROVE  Covers(r, X, J)
<1>1. \A x \in Records : RevisionsOf(x) \subseteq RevisionsOf(x)'
  BY GrowthRevisions
<1>2. /\ Citing(r) \subseteq Citing(r)' /\ Produced(J) \subseteq Produced(J)'
      /\ Referrers(X) \subseteq Referrers(X)'
  BY <1>1 DEF Citing, Produced, Referrers
<1>3. Readers(X) \subseteq Readers(X)' /\ ReadersOfReceipt(r) \subseteq ReadersOfReceipt(r)'
  BY DEF Readers, ReadersOfReceipt, Growth
<1> QED BY <1>2, <1>3 DEF Covers, Closed, Growth

(* Whoever holds a lease that shows text of r is in every pair covering r.  *)
LEMMA LeaseCovered ==
    ASSUME Inv, NEW r \in Receipts, NEW X \in SUBSET Records, NEW J \in SUBSET Receipts,
           Covers(r, X, J), NEW j \in Receipts, job[j].state = "leased", r \in Context(j)
    PROVE  j \in J
<1>1. CASE r = j
  BY <1>1 DEF Covers
<1>2. CASE r # j
  <2>1. PICK s \in shown[j] : r \in revs[s[1]][s[2]].taint
    BY <1>2 DEF Context
  <2>2. s[1] \in Records /\ s[2] \in DOMAIN revs[s[1]]
    BY DEF Inv, TypeInv, RowsInv
  <2>3. PICK d \in readSet : d.job = j /\ d.record = s[1]
    BY DEF Inv, RowsInv
  <2>4. \A Y : s[1] \in Y => j \in Readers(Y)
    BY <2>3 DEF Readers
  <2>5. s[1] \notin Erased
    <3>1. Open(job[j])
      BY DEF Open
    <3>2. Unbarred(s[1])
      BY <2>4, <3>1, Zenon DEF Inv, BarrierInv, BarrierOK, Unbarred
    <3> QED BY <3>2, UnbarredNotErased
  <2>6. revs[s[1]][s[2]] \in RevisionsOf(s[1])
    BY <2>2 DEF RevisionsOf
  <2>7. s[1] \in X
    BY <2>1, <2>2, <2>5, <2>6 DEF Inv, TaintInv
  <2> QED BY <2>4, <2>7 DEF Covers, Closed
<1> QED BY <1>1, <1>2

LEMMA GrowthRows == ASSUME Inv, TypeInv', Growth PROVE RowsInv'
<1> USE DEF Inv
<1>1. ASSUME NEW x \in Records PROVE status'[x] = "absent" <=> revs'[x] = <<>>
  <2>1. CASE revs'[x] = revs[x] /\ status'[x] = status[x]
    BY <2>1 DEF RowsInv
  <2>2. CASE /\ status'[x] \in {"active", "invalidated"}
             /\ \E v \in Revision : revs'[x] = Append(revs[x], v) /\ Derived(x, v)
    BY <2>2, Appended, RevisionTypes
  <2> QED BY <2>1, <2>2 DEF Growth
<1>2. \A x \in legacy' : revs'[x] # <<>>
  <2>1. \A x \in Records : revs[x] # <<>> => revs'[x] # <<>>
    BY Appended, RevisionTypes DEF Growth
  <2> QED BY <2>1 DEF RowsInv, TypeInv, Growth
<1>3. \A x \in Records : \A v \in RevisionsOf(x)' : v.evidence # {}
  BY GrowthRevisions DEF RowsInv, Derived
<1>4. \A d \in readSet' : receipt'[d.job] # "absent"
  <2>1. \A d \in readSet' : d.job \in Receipts
    BY DEF TypeInv, ReadRow
  <2> QED BY <2>1 DEF RowsInv, Growth
<1>5. ASSUME NEW r \in Receipts, NEW t \in shown'[r]
      PROVE  t[2] \in DOMAIN revs'[t[1]] /\ \E d \in readSet' : d.job = r /\ d.record = t[1]
  <2>1. t[1] \in Records
    BY DEF TypeInv
  <2>2. t[2] \in DOMAIN revs[t[1]] /\ \E d \in readSet' : d.job = r /\ d.record = t[1]
    BY DEF Growth, Shows, RowsInv
  <2> QED BY <2>1, <2>2, GrowthRevisions
<1>6. \A r \in Receipts : Open(job'[r]) => receipt'[r] = "live"
  BY DEF Growth, RowsInv
<1> QED BY <1>1, <1>2, <1>3, <1>4, <1>5, <1>6 DEF RowsInv

LEMMA GrowthBarriers == ASSUME Inv, TypeInv', Growth PROVE BarrierInv'
<1> USE DEF Inv
<1> SUFFICES ASSUME NEW i \in DOMAIN barriers PROVE BarrierOK(barriers[i])'
  BY DEF BarrierInv, Growth
<1> DEFINE b == barriers[i]
<1>1. /\ b \in Barrier /\ BarrierOK(b) /\ b' = b
  BY DEF TypeInv, BarrierInv, Growth
<1>2. b.records \in SUBSET Records /\ b.receipt \in Receipts
  BY <1>1 DEF Barrier
<1> HIDE DEF b
<1>3. receipt'[b.receipt] \in {"corrected", "deleted"}
  BY <1>1, <1>2, Zenon DEF Growth, BarrierOK
<1>4. \A x \in b.records : status'[x] = "invalidated" /\ revs'[x] = revs[x]
  <2>1. \A x \in b.records : x \in Records /\ status[x] = "invalidated"
    BY <1>1, <1>2, Zenon DEF BarrierOK
  <2>2. \A x \in Records : \A v : Derived(x, v) => status[x] # "invalidated"
    BY DEF Derived
  <2> QED BY <2>1, <2>2, Zenon DEF Growth
<1>5. Referrers(b.records)' \subseteq b.records
  <2> SUFFICES ASSUME NEW x \in Records, NEW v \in RevisionsOf(x)', v.related \in b.records
               PROVE  x \in b.records
    BY <1>1 DEF Referrers
  <2>1. v \in RevisionsOf(x)
    <3>1. v.related # None
      BY <1>2, ForgettingAssumption
    <3>2. ~Derived(x, v)
      BY <3>1 DEF Derived, Unbarred, b
    <3> QED BY <3>2, GrowthRevisions
  <2> QED BY <1>1, <2>1 DEF BarrierOK, Referrers
<1>6. ASSUME NEW r \in Readers(b.records)'
      PROVE  ~Open(job'[r]) /\ Produced({r})' \subseteq b.records
  <2>1. PICK d \in readSet' : d.job = r /\ d.record \in b.records
    BY <1>1, <1>6 DEF Readers
  <2>2. d \in readSet
    BY <1>1, <2>1 DEF Growth, BarrierOK
  <2>3. r \in Receipts /\ receipt[r] # "absent"
    BY <2>1, <2>2 DEF TypeInv, ReadRow, RowsInv
  <2>4. ~Open(job[r]) /\ Produced({r}) \subseteq b.records
    BY <1>1, <2>1, <2>2 DEF BarrierOK, Readers
  <2>5. ~Open(job'[r])
    BY <2>3, <2>4 DEF Growth
  <2>6. ASSUME NEW x \in Records, NEW v \in RevisionsOf(x)', v.job = r PROVE x \in b.records
    <3>1. v.job # None /\ job[v.job].state # "leased"
      BY <2>3, <2>4, <2>6, ForgettingAssumption DEF Open
    <3>2. v \in RevisionsOf(x)
      BY <3>1, GrowthRevisions DEF Derived
    <3> QED BY <2>4, <2>6, <3>2 DEF Produced
  <2> QED BY <2>5, <2>6 DEF Produced
<1>7. b.records # {} => legacy' \subseteq b.records
  BY <1>1 DEF BarrierOK, Growth
<1> QED BY <1>1, <1>3, <1>4, <1>5, <1>6, <1>7 DEF BarrierOK, b

LEMMA GrowthErased == ASSUME Growth PROVE Erased' = Erased
  BY DEF Growth, Erased

LEMMA GrowthTaint == ASSUME Inv, TypeInv', Growth PROVE TaintInv'
<1> USE DEF Inv
<1> SUFFICES ASSUME NEW r \in Receipts, NEW X \in SUBSET Records, NEW J \in SUBSET Receipts,
                    Covers(r, X, J)', NEW x \in Records \ Erased, NEW v \in RevisionsOf(x)',
                    r \in v.taint
             PROVE  x \in X
  BY GrowthErased DEF TaintInv
<1>1. Covers(r, X, J)
  BY GrowthCovers
<1>2. CASE v \in RevisionsOf(x)
  BY <1>1, <1>2 DEF TaintInv
<1>3. CASE v \in Revision /\ Derived(x, v)
  <2>1. CASE r \in v.evidence
    <3>1. x \in Citing(r)'
      BY <2>1 DEF Citing
    <3> QED BY <3>1 DEF Covers
  <2>2. CASE v.job # None /\ r \in Context(v.job)
    <3>1. v.job \in Receipts /\ job[v.job].state = "leased"
      BY <1>3, <2>2 DEF Derived, Revision
    <3>2. v.job \in J
      BY <1>1, <2>2, <3>1, LeaseCovered
    <3>3. x \in Produced(J)'
      BY <3>2 DEF Produced
    <3> QED BY <3>3 DEF Covers, Closed
  <2>3. CASE v.related # None /\ \E w \in RevisionsOf(v.related) : r \in w.taint
    <3>1. v.related \in Records \ Erased
      BY <1>3, <2>3, UnbarredNotErased DEF Derived, Revision
    <3>2. v.related \in X
      BY <1>1, <2>3, <3>1 DEF TaintInv
    <3>3. x \in Referrers(X)'
      BY <3>2 DEF Referrers
    <3> QED BY <3>3 DEF Covers, Closed
  <2>4. CASE \E w \in RevisionsOf(x) : r \in w.taint
    BY <1>1, <2>4 DEF TaintInv
  <2> QED BY <1>3, <2>1, <2>2, <2>3, <2>4 DEF Derived
<1> QED BY <1>2, <1>3, GrowthRevisions

LEMMA GrowthGone == ASSUME Inv, TypeInv', Growth PROVE GoneInv'
<1> USE DEF Inv
<1>1. ASSUME NEW x \in Records, NEW v \in RevisionsOf(x)', NEW r \in v.taint \intersect Deleted,
             v.payload
      PROVE  PendingNames(r, x)'
  <2>1. r \in Stale
    BY DEF Stale, Deleted
  <2>2. v \in RevisionsOf(x)
    BY <2>1, GrowthRevisions DEF Derived
  <2>3. PendingNames(r, x)
    BY <1>1, <2>2 DEF GoneInv
  <2> QED BY <2>3 DEF PendingNames, Pending, Growth
<1>2. ASSUME NEW x \in Erased, NEW v \in RevisionsOf(x)' PROVE ~v.payload
  <2>1. x \in Records /\ status[x] = "invalidated"
    BY ErasedRecords
  <2>2. v \in RevisionsOf(x)
    BY <2>1, GrowthRevisions DEF Derived
  <2> QED BY <2>2 DEF GoneInv
<1> QED BY <1>1, <1>2, GrowthErased, GrowthStale DEF GoneInv

LEMMA GrowthFresh == ASSUME Inv, TypeInv', Growth PROVE ActiveIsFresh' /\ LeaseIsFresh'
<1> USE DEF Inv
<1>1. \A x \in Records : status'[x] = "active" =>
         \A v \in RevisionsOf(x)' : v.taint \intersect Stale = {}
  <2> SUFFICES ASSUME NEW x \in Records, status'[x] = "active", NEW v \in RevisionsOf(x)'
               PROVE  v.taint \intersect Stale = {}
    OBVIOUS
  <2>1. status[x] \in {"absent", "active"}
    BY DEF Growth, Derived
  <2>2. v \in RevisionsOf(x) => status[x] = "active"
    BY <2>1 DEF RowsInv, RevisionsOf
  <2> QED BY <2>2, GrowthRevisions, Zenon DEF Derived, ActiveIsFresh
<1>2. ASSUME NEW r \in Receipts, job'[r].state = "leased" PROVE Context(r)' \intersect Stale = {}
  <2>1. r \notin Stale
    <3>1. Open(job[r])
      BY <1>2 DEF Growth, Shows, Open
    <3> QED BY <3>1 DEF RowsInv, Stale
  <2>2. ASSUME NEW t \in shown'[r] PROVE revs'[t[1]][t[2]].taint \intersect Stale = {}
    <3>1. t[1] \in Records
      BY DEF TypeInv
    <3>2. t[2] \in DOMAIN revs[t[1]] /\ revs[t[1]][t[2]].taint \intersect Stale = {}
      <4>1. CASE shown'[r] = shown[r] /\ job[r].state = "leased"
        BY <4>1 DEF LeaseIsFresh, Context, RowsInv
      <4>2. CASE Shows(r)
        BY <3>1, <4>2 DEF Shows, ActiveIsFresh, RevisionsOf
      <4> QED BY <1>2, <4>1, <4>2 DEF Growth
    <3>3. revs'[t[1]][t[2]] = revs[t[1]][t[2]]
      BY <3>1, <3>2, GrowthRevisions
    <3> QED BY <3>2, <3>3
  <2> QED BY <2>1, <2>2 DEF Context
<1> QED BY <1>1, <1>2, GrowthStale DEF ActiveIsFresh, LeaseIsFresh

LEMMA GrowthKeeps == ASSUME Inv, TypeInv', Growth PROVE Inv'
  BY GrowthRows, GrowthBarriers, GrowthTaint, GrowthGone, GrowthFresh DEF Inv

(* The actions that add are growth. *)
LEMMA AcceptKeeps ==
    ASSUME Inv, NEW r \in Receipts, NEW hostSource \in BOOLEAN, Accept(r, hostSource)
    PROVE  Inv'
<1> USE DEF Inv
<1>1. Queued \in JobRow /\ Queued.state = "pending"
  BY DEF Queued, JobRow
<1>2. TypeInv'
  BY <1>1 DEF Accept, TypeInv
<1>3. Growth
  BY <1>1 DEF Accept, Growth, TypeInv, Open
<1> QED BY <1>2, <1>3, GrowthKeeps

LEMMA SubmitKeeps ==
    ASSUME Inv, NEW r \in Receipts, NEW x \in Records, NEW v \in Revision,
           SubmitFact(r, x, v), Derived(x, v)
    PROVE  Inv'
<1> USE DEF Inv
<1>1. revs[x] \in Seq(Revision)
  BY RevisionTypes
<1>2. TypeInv'
  <2>1. revs' \in [Records -> Seq(Revision)]
    BY <1>1, Appended DEF SubmitFact, TypeInv
  <2> QED BY <2>1 DEF SubmitFact, TypeInv
<1>3. Growth
  <2>1. \A y \in Records : y # x => revs'[y] = revs[y] /\ status'[y] = status[y]
    BY DEF SubmitFact, TypeInv
  <2>2. revs'[x] = Append(revs[x], v) /\ status'[x] \in {"active", "invalidated"}
    BY DEF SubmitFact, TypeInv
  <2>3. \A y \in Records :
          \/ revs'[y] = revs[y] /\ status'[y] = status[y]
          \/ /\ status'[y] \in {"active", "invalidated"}
             /\ \E u \in Revision : revs'[y] = Append(revs[y], u) /\ Derived(y, u)
    BY <2>1, <2>2
  <2> QED BY <2>3 DEF SubmitFact, Growth, TypeInv
<1> QED BY <1>2, <1>3, GrowthKeeps

LEMMA FactRevisionFields ==
    ASSUME NEW a \in Adoption, NEW E \in SUBSET Receipts, NEW y \in Records \union {None},
           NEW T \in SUBSET Receipts, NEW v, v = FactRevision(a, E, y, T)
    PROVE  /\ v \in Revision /\ v.evidence = E /\ v.related = y /\ v.taint = T
           /\ v.job = None
  BY DEF FactRevision, Revision

(* The head of an active Record is a Revision without stale text. *)
LEMMA ActiveHead ==
    ASSUME Inv, NEW x \in Records, status[x] = "active"
    PROVE  /\ HeadOf(x) \in RevisionsOf(x) /\ HeadOf(x) \in Revision
           /\ HeadOf(x).taint \in SUBSET Receipts /\ HeadOf(x).evidence \in SUBSET Receipts
           /\ HeadOf(x).related \in Records \union {None}
           /\ HeadOf(x).taint \intersect Stale = {} /\ Unbarred(x)
           /\ HeadOf(x).related # None => Unbarred(HeadOf(x).related)
<1> USE DEF Inv
<1>1. revs[x] # <<>>
  BY DEF RowsInv
<1>2. HeadOf(x) \in RevisionsOf(x) /\ HeadOf(x) \in Revision
  BY <1>1, RevisionTypes
<1>3. HeadOf(x).taint \intersect Stale = {}
  BY <1>2 DEF ActiveIsFresh
<1>4. Unbarred(x)
  BY ActiveUnbarred
<1>5. HeadOf(x).related # None => Unbarred(HeadOf(x).related)
  BY <1>2, <1>4 DEF Unbarred, BarrierInv, BarrierOK, Referrers
<1> QED BY <1>2, <1>3, <1>4, <1>5 DEF Revision

LEMMA FactsKeep ==
    ASSUME Inv, NEW r \in Receipts, NEW x \in Records,
           \/ ConfirmFact(r, x)
           \/ \E a \in Adoption : EstablishFact(r, x, a) \/ ReviseFact(r, x, a)
           \/ \E y \in Records : ExceptFact(r, x, y)
    PROVE  Inv'
<1>1. receipt[r] = "absent" => {r} \intersect Stale = {}
  BY DEF Stale
<1>2. CASE ConfirmFact(r, x)
  <2> DEFINE E == {r} \union HeadOf(x).evidence
             T == {r} \union HeadOf(x).taint
             v == FactRevision("confirmed", E, None, T)
  <2>1. status[x] = "active" /\ receipt[r] = "absent" /\ SubmitFact(r, x, v)
    BY <1>2, Zenon DEF ConfirmFact, SubmitFact
  <2>2. E \in SUBSET Receipts /\ T \in SUBSET Receipts /\ T \intersect Stale = {}
    BY <1>1, <2>1, ActiveHead, Zenon
  <2>3. v \in Revision /\ v.evidence = E /\ v.related = None /\ v.taint = T /\ v.job = None
    <3>1. "confirmed" \in Adoption /\ None \in Records \union {None}
      BY DEF Adoption
    <3>2. v = FactRevision("confirmed", E, None, T)
      BY Zenon
    <3> HIDE DEF E, T, v
    <3> QED BY <2>2, <3>1, <3>2, FactRevisionFields
  <2> HIDE DEF v
  <2>4. Derived(x, v)
    BY <2>1, <2>2, <2>3, ActiveHead, Zenon DEF Derived
  <2> QED BY <2>1, <2>3, <2>4, SubmitKeeps, Zenon
<1>3. ASSUME NEW a \in Adoption, EstablishFact(r, x, a) PROVE Inv'
  <2> DEFINE v == FactRevision(a, {r}, None, {r})
  <2>1. status[x] = "absent" /\ receipt[r] = "absent" /\ SubmitFact(r, x, v)
    BY <1>3 DEF EstablishFact, SubmitFact
  <2>2. v \in Revision /\ v.evidence = {r} /\ v.related = None /\ v.taint = {r} /\ v.job = None
    <3>1. {r} \in SUBSET Receipts /\ None \in Records \union {None}
      BY Zenon
    <3>2. v = FactRevision(a, {r}, None, {r})
      BY Zenon
    <3> HIDE DEF v
    <3> QED BY <3>1, <3>2, FactRevisionFields
  <2> HIDE DEF v
  <2>3. Derived(x, v)
    BY <1>1, <2>1, <2>2, Zenon DEF Derived
  <2> QED BY <2>1, <2>2, <2>3, SubmitKeeps, Zenon
<1>4. ASSUME NEW a \in Adoption, ReviseFact(r, x, a) PROVE Inv'
  <2> DEFINE y == HeadOf(x).related
             v == FactRevision(a, {r}, y, {r})
  <2>1. status[x] = "active" /\ receipt[r] = "absent" /\ SubmitFact(r, x, v)
    BY <1>4 DEF ReviseFact, SubmitFact
  <2>2. y \in Records \union {None} /\ (y # None => Unbarred(y))
    BY <2>1, ActiveHead, Zenon
  <2>3. v \in Revision /\ v.evidence = {r} /\ v.related = y /\ v.taint = {r} /\ v.job = None
    <3>1. {r} \in SUBSET Receipts
      BY Zenon
    <3>2. v = FactRevision(a, {r}, y, {r})
      BY Zenon
    <3> HIDE DEF y, v
    <3> QED BY <2>2, <3>1, <3>2, FactRevisionFields
  <2> HIDE DEF v, y
  <2>4. Derived(x, v)
    BY <1>1, <2>1, <2>2, <2>3, Zenon DEF Derived
  <2> QED BY <2>1, <2>3, <2>4, SubmitKeeps, Zenon
<1>5. ASSUME NEW y \in Records, ExceptFact(r, x, y) PROVE Inv'
  <2> DEFINE T == {r} \union HeadOf(y).taint
             v == FactRevision("confirmed", {r}, y, T)
  <2>1. status[x] = "absent" /\ status[y] = "active" /\ receipt[r] = "absent" /\ SubmitFact(r, x, v)
    BY <1>5, Zenon DEF ExceptFact, SubmitFact
  <2>2. T \in SUBSET Receipts /\ T \intersect Stale = {}
    BY <1>1, <2>1, ActiveHead, Zenon
  <2>3. v \in Revision /\ v.evidence = {r} /\ v.related = y /\ v.taint = T /\ v.job = None
    <3>1. "confirmed" \in Adoption /\ {r} \in SUBSET Receipts /\ y \in Records \union {None}
      BY DEF Adoption
    <3>2. v = FactRevision("confirmed", {r}, y, T)
      BY Zenon
    <3> HIDE DEF T, v
    <3> QED BY <2>2, <3>1, <3>2, FactRevisionFields
  <2> HIDE DEF v
  <2>4. HeadOf(y) \in RevisionsOf(y) /\ Unbarred(y) /\ y # None
    BY <2>1, ActiveHead, ForgettingAssumption, Zenon
  <2>5. \A q \in T : q \in {r} \/ \E w \in RevisionsOf(y) : q \in w.taint
    BY <2>4, Zenon
  <2> HIDE DEF T
  <2>6. Derived(x, v)
    BY <2>1, <2>2, <2>3, <2>4, <2>5, Zenon DEF Derived
  <2> QED BY <2>1, <2>3, <2>6, SubmitKeeps, Zenon
<1> QED BY <1>2, <1>3, <1>4, <1>5

LEMMA ClaimKeeps ==
    ASSUME Inv, NEW r \in Receipts, NEW X \in SUBSET Records, Claim(r, X) PROVE Inv'
<1> USE DEF Inv
<1> DEFINE n == job[r].attempts + 1
           row == [state |-> "leased", attempts |-> n]
<1>1. /\ Open(job[r]) /\ receipt[r] # "absent" /\ \A x \in X : status[x] = "active"
      /\ job[r].attempts \in Nat
  BY Zenon DEF Claim, Claimable, ContextRecords, RowsInv, TypeInv, JobRow
<1>2. row \in JobRow /\ row.state = "leased" /\ job' = [job EXCEPT ![r] = row]
  <2>1. job' = [job EXCEPT ![r] = row]
    BY Zenon DEF Claim
  <2>2. n \in Nat
    BY <1>1
  <2> HIDE DEF n
  <2>3. row \in JobRow /\ row.state = "leased"
    BY <2>2, Zenon DEF JobRow
  <2> QED BY <2>1, <2>3
<1> HIDE DEF row
<1>3. \A x \in X : x \in Records /\ Len(revs[x]) \in DOMAIN revs[x] /\ Len(revs[x]) \in Nat
                   /\ HeadOf(x).evidence \in SUBSET Receipts /\ HeadOf(x).evidence # {}
  <2> SUFFICES ASSUME NEW x \in X
               PROVE  x \in Records /\ Len(revs[x]) \in DOMAIN revs[x] /\ Len(revs[x]) \in Nat
                      /\ HeadOf(x).evidence \in SUBSET Receipts /\ HeadOf(x).evidence # {}
    BY Zenon
  <2>1. x \in Records /\ revs[x] # <<>> /\ revs[x] \in Seq(Revision)
    BY <1>1, RevisionTypes DEF RowsInv
  <2>2. Len(revs[x]) \in DOMAIN revs[x] /\ HeadOf(x) \in RevisionsOf(x)
    BY <2>1, RevisionTypes
  <2>3. HeadOf(x).evidence \in SUBSET Receipts
    BY <1>1, <2>1, ActiveHead, Zenon
  <2>4. HeadOf(x).evidence # {}
    BY <2>1, <2>2, Zenon DEF RowsInv
  <2>5. Len(revs[x]) \in Nat
    BY <2>1
  <2> QED BY <2>1, <2>2, <2>3, <2>4, <2>5, Zenon
<1> DEFINE D == Dependencies(r, n, X)
<1>4. \A d \in D : d \in ReadRow /\ d.job = r /\ d.record \in X
  <2> SUFFICES ASSUME NEW x \in X, NEW e \in HeadOf(x).evidence,
                      NEW d, d = [job |-> r, attempt |-> n, record |-> x,
                                  revision |-> Len(revs[x]), receipt |-> e]
               PROVE  d \in ReadRow /\ d.job = r /\ d.record \in X
    BY ZenonT(40) DEF Dependencies
  <2>1. x \in Records /\ Len(revs[x]) \in Nat /\ e \in Receipts
    BY <1>3, Zenon
  <2>2. n \in Nat
    BY <1>1
  <2> HIDE DEF n
  <2> QED BY <2>1, <2>2 DEF ReadRow
<1>5. \A x \in X : \E d \in D : d.job = r /\ d.record = x
  <2> SUFFICES ASSUME NEW x \in X PROVE \E d \in D : d.job = r /\ d.record = x
    OBVIOUS
  <2>1. PICK e : e \in HeadOf(x).evidence
    BY <1>3
  <2>2. [job |-> r, attempt |-> n, record |-> x, revision |-> Len(revs[x]), receipt |-> e] \in D
    BY <2>1 DEF Dependencies
  <2> QED BY <2>2
<1> HIDE DEF D, n
<1>6. /\ readSet' = readSet \union D
      /\ shown' = [shown EXCEPT ![r] = {<<x, Len(revs[x])>> : x \in X}]
      /\ UNCHANGED <<receipt, status, revs, barriers, handlers, legacy>>
  BY DEF Claim, D, n
<1>7. TypeInv'
  BY <1>2, <1>3, <1>4, <1>6 DEF TypeInv
<1>8. Shows(r)
  <2>1. ASSUME NEW t \in shown'[r]
        PROVE  /\ status[t[1]] = "active" /\ t[2] \in DOMAIN revs[t[1]]
               /\ \E d \in readSet' : d.job = r /\ d.record = t[1]
    <3>1. PICK x \in X : t = <<x, Len(revs[x])>>
      BY <1>6, <2>1 DEF TypeInv
    <3> QED BY <1>1, <1>3, <1>5, <1>6, <3>1, Zenon
  <2> QED BY <1>1, <2>1 DEF Shows
<1>9. Growth
  <2>1. \A q \in Receipts :
          /\ Open(job'[q]) => Open(job[q])
          /\ \/ shown'[q] = shown[q] /\ (job'[q].state = "leased" => job[q].state = "leased")
             \/ Shows(q)
    BY <1>1, <1>2, <1>6, <1>8, Zenon DEF TypeInv
  <2> QED BY <1>1, <1>4, <1>6, <2>1, Zenon DEF Growth
<1> QED BY <1>7, <1>9, GrowthKeeps

LEMMA ReleaseKeeps ==
    ASSUME Inv, NEW r \in Receipts, NEW newState \in {"pending", "failed"}, Release(r, newState)
    PROVE  Inv'
<1> USE DEF Inv
<1> DEFINE row == [state |-> newState, attempts |-> job[r].attempts]
<1>1. row \in JobRow /\ row.state = newState /\ job' = [job EXCEPT ![r] = row]
  BY DEF Release, TypeInv, JobRow
<1> HIDE DEF row
<1>2. TypeInv'
  BY <1>1, Zenon DEF Release, TypeInv
<1>3. Growth
  BY <1>1, Zenon DEF Release, Growth, TypeInv, Open
<1> QED BY <1>2, <1>3, GrowthKeeps

LEMMA ApplyKeeps ==
    ASSUME Inv, NEW r \in Receipts, NEW T \in SUBSET Records, NEW ev \in [T -> SUBSET Citable(r)],
           ApplyStewardProposal(r, ev)
    PROVE  Inv'
<1> USE DEF Inv
<1> DEFINE row == [state |-> "completed", attempts |-> job[r].attempts]
<1>1. row \in JobRow /\ row.state = "completed" /\ job' = [job EXCEPT ![r] = row]
  BY DEF ApplyStewardProposal, TypeInv, JobRow
<1> HIDE DEF row
<1>2. job[r].state = "leased" /\ DOMAIN ev = T
  BY DEF ApplyStewardProposal
<1>3. Context(r) \in SUBSET Receipts /\ Context(r) \intersect Stale = {}
  <2>1. ASSUME NEW t \in shown[r] PROVE revs[t[1]][t[2]].taint \in SUBSET Receipts
    <3>1. t[1] \in Records /\ t[2] \in DOMAIN revs[t[1]]
      <4>1. t[1] \in Records
        BY DEF TypeInv
      <4> QED BY <4>1, Zenon DEF RowsInv
    <3>2. revs[t[1]][t[2]] \in Revision
      BY <3>1 DEF TypeInv
    <3> QED BY <3>2 DEF Revision
  <2> QED BY <1>2, <2>1 DEF Context, LeaseIsFresh
<1>4. Citable(r) \in SUBSET Receipts
  BY DEF Citable, CurrentReads, TypeInv, ReadRow
<1>5. ASSUME NEW x \in T
      PROVE  StewardRevision(r, x, ev[x]) \in Revision /\ Derived(x, StewardRevision(r, x, ev[x]))
  <2> DEFINE v == StewardRevision(r, x, ev[x])
  <2>1. /\ r \in ev[x] /\ ev[x] \in SUBSET Receipts /\ status[x] \in {"absent", "active"}
    BY <1>2, <1>4 DEF ApplyStewardProposal, Target
  <2>2. /\ v \in Revision /\ v.evidence = ev[x] /\ v.related = None /\ v.job = r
        /\ v.taint = Context(r)
    BY <1>3, <2>1, Zenon DEF StewardRevision, Revision, Adoption
  <2> HIDE DEF v
  <2>3. Derived(x, v)
    BY <1>2, <1>3, <2>1, <2>2, ForgettingAssumption, Zenon DEF Derived
  <2> QED BY <2>2, <2>3, Zenon DEF v
<1>6. \A x \in Records :
         \/ revs'[x] = revs[x] /\ status'[x] = status[x]
         \/ /\ status'[x] \in {"active", "invalidated"}
            /\ \E v \in Revision : revs'[x] = Append(revs[x], v) /\ Derived(x, v)
  BY <1>2, <1>5 DEF ApplyStewardProposal
<1>7. TypeInv'
  <2>1. revs' \in [Records -> Seq(Revision)]
    <3>1. \A x \in T : Append(revs[x], StewardRevision(r, x, ev[x])) \in Seq(Revision)
      BY <1>5, RevisionTypes, Appended, Zenon
    <3> QED BY <1>2, <3>1 DEF ApplyStewardProposal, TypeInv
  <2>2. status' \in [Records -> {"absent", "active", "invalidated"}]
    BY DEF ApplyStewardProposal, TypeInv
  <2> QED BY <1>1, <2>1, <2>2 DEF ApplyStewardProposal, TypeInv
<1>8. Growth
  BY <1>1, <1>6, Zenon DEF ApplyStewardProposal, Growth, TypeInv, Open
<1> QED BY <1>7, <1>8, GrowthKeeps

-----------------------------------------------------------------------------
(* The barrier transaction *)

LEMMA BarrierAfter ==
    ASSUME NEW i, NEW c, barriers'[i] = c, BarrierOK(c)' PROVE BarrierOK(barriers[i])'
<1>1. Referrers(barriers[i].records)' = Referrers(c.records)'
  BY DEF Referrers
<1>2. Readers(barriers[i].records)' = Readers(c.records)'
  BY DEF Readers
<1> QED BY <1>1, <1>2, Zenon DEF BarrierOK

LEMMA BarrierAppended ==
    ASSUME NEW B \in Seq(Barrier), NEW b \in Barrier, NEW C, C = Append(B, b)
    PROVE  /\ DOMAIN C = DOMAIN B \union {Len(B) + 1} /\ C[Len(B) + 1] = b
           /\ Len(B) + 1 \notin DOMAIN B /\ C \in Seq(Barrier)
           /\ \A i \in DOMAIN B : C[i] = B[i]
  OBVIOUS

LEMMA ReadersKnown ==
    ASSUME TypeInv, RowsInv, NEW Y, NEW q \in Readers(Y)
    PROVE  q \in Receipts /\ receipt[q] # "absent"
<1>1. PICK d \in readSet : d.job = q
  BY DEF Readers
<1>2. d.job \in Receipts
  BY DEF TypeInv, ReadRow
<1> QED BY <1>1, <1>2 DEF RowsInv

LEMMA ErasedStays ==
    ASSUME NEW n, DOMAIN barriers' = DOMAIN barriers \union {n}, n \notin DOMAIN barriers,
           barriers'[n].status = "pending", \A i \in DOMAIN barriers : barriers'[i] = barriers[i]
    PROVE  Erased' = Erased
  BY DEF Erased

(* Covers depends on what is cited, read and produced alone. *)
LEMMA TaintStays ==
    ASSUME TaintInv, UNCHANGED <<readSet, revs, legacy>>, Erased' = Erased
    PROVE  TaintInv'
<1>1. /\ \A x : RevisionsOf(x)' = RevisionsOf(x)
      /\ \A q : Citing(q)' = Citing(q) /\ ReadersOfReceipt(q)' = ReadersOfReceipt(q)
  BY Zenon DEF RevisionsOf, Citing, ReadersOfReceipt
<1>2. /\ \A K : Produced(K)' = Produced(K)
      /\ \A Y : Referrers(Y)' = Referrers(Y) /\ Readers(Y)' = Readers(Y)
  BY Zenon DEF RevisionsOf, Produced, Referrers, Readers
<1>3. \A q, Y, K : Covers(q, Y, K)' => Covers(q, Y, K)
  BY <1>1, <1>2, Zenon DEF Covers, Closed
<1> QED BY <1>1, <1>3, Zenon DEF TaintInv

LEMMA RaiseKeeps ==
    ASSUME Inv, NEW r \in Receipts, NEW kind \in {"deleted", "corrected"},
           receipt[r] \in {"live", "corrected"}, RaiseBarrier(kind, r, ForgettingClosure(r)),
           UNCHANGED <<shown, readSet, revs, legacy>>,
           receipt' \in [Receipts -> {"absent", "live", "corrected", "deleted"}],
           job' \in [Receipts -> JobRow], receipt'[r] = kind,
           \A q \in Receipts : q # r =>
              receipt'[q] = receipt[q] \/ (receipt[q] = "absent" /\ receipt'[q] = "live"),
           \A q \in Receipts : job'[q].state = "leased" => job[q].state = "leased",
           \A q \in Receipts : Open(job'[q]) =>
              \/ Open(job[q]) /\ q \notin ForgettingClosure(r).jobs
              \/ receipt[q] = "absent" /\ receipt'[q] = "live"
    PROVE  Inv'
<1> USE DEF Inv
<1>1. PICK X \in SUBSET Records, J \in SUBSET Receipts :
         /\ X = ForgettingClosure(r).records /\ J = ForgettingClosure(r).jobs
         /\ Covers(r, X, J) /\ \A x \in X : revs[x] # <<>>
  BY ClosureCovers, Zenon
<1>2. PICK b : b = [kind |-> kind, receipt |-> r, records |-> X, status |-> "pending"]
  BY Zenon
<1>3. /\ b \in Barrier /\ b.kind = kind /\ b.receipt = r /\ b.records = X
      /\ b.status = "pending"
  BY <1>2, Zenon DEF Barrier
<1>4. /\ barriers' = Append(barriers, b) /\ handlers' = handlers \union {Len(barriers) + 1}
      /\ status' = Invalidated(X)
  BY <1>1, <1>2, Zenon DEF RaiseBarrier
<1>5. /\ DOMAIN barriers' = DOMAIN barriers \union {Len(barriers) + 1}
      /\ barriers'[Len(barriers) + 1] = b /\ Len(barriers) + 1 \notin DOMAIN barriers
      /\ \A i \in DOMAIN barriers : barriers'[i] = barriers[i]
      /\ barriers' \in Seq(Barrier)
  <2>1. barriers \in Seq(Barrier) /\ b \in Barrier /\ barriers' = Append(barriers, b)
    BY <1>3, <1>4, Zenon DEF TypeInv
  <2> QED BY <2>1, BarrierAppended
<1>6. \A x \in Records : /\ status'[x] = IF x \in X /\ status[x] = "active"
                                         THEN "invalidated" ELSE status[x]
                         /\ status'[x] \in {"absent", "active", "invalidated"}
  BY <1>4, Zenon DEF Invalidated, TypeInv
<1>7. TypeInv'
  <2>1. status' \in [Records -> {"absent", "active", "invalidated"}]
    BY <1>4, Zenon DEF Invalidated, TypeInv
  <2>2. handlers' \subseteq DOMAIN barriers'
    BY <1>4, <1>5, Zenon DEF TypeInv
  <2> QED BY <1>5, <2>1, <2>2, Zenon DEF TypeInv
<1>8. /\ \A x \in Records : RevisionsOf(x)' = RevisionsOf(x)
      /\ \A q \in Receipts : Context(q)' = Context(q)
      /\ \A Y : Produced(Y)' = Produced(Y) /\ Referrers(Y)' = Referrers(Y)
                                           /\ Readers(Y)' = Readers(Y)
  BY ZenonT(40) DEF RevisionsOf, Context, Produced, Referrers, Readers
<1>9. Stale' = Stale \union {r} /\ Deleted' \subseteq Deleted \union {r}
      /\ (kind = "corrected" => r \notin Deleted')
  BY Zenon DEF Stale, Deleted, TypeInv
<1>10. RowsInv'
  <2>1. \A x \in Records : status'[x] = "absent" <=> revs'[x] = <<>>
    <3>1. \A x \in Records : status'[x] = "absent" <=> status[x] = "absent"
      BY <1>6
    <3>2. revs' = revs /\ \A x \in Records : status[x] = "absent" <=> revs[x] = <<>>
      BY Zenon DEF RowsInv
    <3> QED BY <3>1, <3>2, Zenon
  <2>2. \A d \in readSet' : receipt'[d.job] # "absent"
    <3>1. \A d \in readSet : d.job \in Receipts /\ receipt[d.job] # "absent"
      BY Zenon DEF TypeInv, ReadRow, RowsInv
    <3> QED BY <3>1, Zenon
  <2>3. \A q \in Receipts : Open(job'[q]) => receipt'[q] = "live"
    <3>1. r \in J
      BY <1>1, Zenon DEF Covers
    <3> QED BY <1>1, <3>1, Zenon DEF RowsInv
  <2>4. /\ \A x \in legacy' : revs'[x] # <<>>
        /\ \A x \in Records : \A v \in RevisionsOf(x)' : v.evidence # {}
    <3>1. \A x \in legacy : revs[x] # <<>>
      BY Zenon DEF RowsInv
    <3>2. \A x \in Records : \A v \in RevisionsOf(x) : v.evidence # {}
      BY Zenon DEF RowsInv
    <3>3. legacy' = legacy /\ revs' = revs
      BY Zenon
    <3> QED BY <1>8, <3>1, <3>2, <3>3, Zenon
  <2>5. \A q \in Receipts : \A t \in shown'[q] :
           /\ t[2] \in DOMAIN revs'[t[1]]
           /\ \E d \in readSet' : d.job = q /\ d.record = t[1]
    BY Zenon DEF RowsInv
  <2> QED BY <2>1, <2>2, <2>3, <2>4, <2>5, Zenon DEF RowsInv
<1>11. \A q \in Receipts : receipt[q] # "absent" /\ (~Open(job[q]) \/ q \in J) => ~Open(job'[q])
  BY <1>1, Zenon
<1>12. BarrierInv'
  <2>1. ASSUME NEW i \in DOMAIN barriers PROVE BarrierOK(barriers[i])'
    <3>1. BarrierOK(barriers[i]) /\ barriers'[i] = barriers[i]
      BY <1>5, Zenon DEF BarrierInv
    <3>2. PICK c : c = barriers[i]
      BY Zenon
    <3>3. c.records \in SUBSET Records /\ c.receipt \in Receipts
      BY <3>2, BarrierTypes, Zenon
    <3>4. \A x \in c.records : status'[x] = "invalidated"
      BY <1>6, <3>1, <3>2, <3>3, Zenon DEF BarrierOK
    <3>5. receipt'[c.receipt] \in {"corrected", "deleted"}
      BY <3>1, <3>2, <3>3, Zenon DEF BarrierOK
    <3>6. \A q \in Readers(c.records) : ~Open(job'[q]) /\ Produced({q}) \subseteq c.records
      <4>1. \A q \in Readers(c.records) : q \in Receipts /\ receipt[q] # "absent"
        BY ReadersKnown, Zenon
      <4> QED BY <1>11, <3>1, <3>2, <4>1, Zenon DEF BarrierOK
    <3>7. BarrierOK(c)'
      BY <1>8, <3>1, <3>2, <3>4, <3>5, <3>6, Zenon DEF BarrierOK
    <3> QED BY <3>1, <3>2, <3>7, BarrierAfter, Zenon
  <2>2. BarrierOK(b)'
    <3>1. \A x \in X : status'[x] = "invalidated"
      BY <1>1, <1>6, Zenon DEF RowsInv, TypeInv
    <3>2. /\ X # {} => legacy' \subseteq X
          /\ Referrers(X)' \subseteq X
      BY <1>1, <1>8, Zenon DEF Covers, Closed
    <3>3. \A q \in Readers(X)' : ~Open(job'[q]) /\ Produced({q})' \subseteq X
      <4> SUFFICES ASSUME NEW q \in Readers(X) PROVE ~Open(job'[q]) /\ Produced({q}) \subseteq X
        BY <1>8, Zenon
      <4>1. q \in J /\ Produced(J) \subseteq X
        BY <1>1, Zenon DEF Covers, Closed
      <4>2. Produced({q}) \subseteq Produced(J)
        BY <4>1, Zenon DEF Produced
      <4>3. receipt[q] # "absent"
        BY ReadersKnown, Zenon
      <4> QED BY <1>11, <4>1, <4>2, <4>3, Zenon
    <3> QED BY <1>3, <3>1, <3>2, <3>3, Zenon DEF BarrierOK
  <2>3. ASSUME NEW i \in DOMAIN barriers' PROVE BarrierOK(barriers[i])'
    <3>1. CASE i = Len(barriers) + 1
      BY <1>5, <2>2, <3>1, BarrierAfter, Zenon
    <3> QED BY <1>5, <2>1, <3>1, Zenon
  <2> QED BY <2>3, Zenon DEF BarrierInv
<1>13. Erased' = Erased
  BY <1>3, <1>5, ErasedStays, Zenon
<1>14. TaintInv'
  BY <1>13, TaintStays, Zenon
<1>15. ASSUME NEW x \in Records, NEW v \in RevisionsOf(x), r \in v.taint, x \notin Erased
       PROVE  x \in X
  BY <1>1, <1>15, Zenon DEF TaintInv
<1>16. GoneInv'
  <2>1. ASSUME NEW x \in Records, NEW v \in RevisionsOf(x), NEW q \in v.taint \intersect Deleted',
               v.payload
        PROVE  PendingNames(q, x)'
    <3>1. CASE q \in Deleted
      <4>1. PendingNames(q, x)
        BY <2>1, <3>1, Zenon DEF GoneInv
      <4> QED BY <1>5, <4>1, Zenon DEF PendingNames, Pending
    <3>2. CASE q = r
      <4>1. x \in X
        BY <1>15, <2>1, <3>2, Zenon DEF GoneInv
      <4>2. kind = "deleted"
        BY <1>9, <3>2, Zenon
      <4> QED BY <1>3, <1>5, <3>2, <4>1, <4>2, Zenon DEF PendingNames, Pending
    <3> QED BY <1>9, <3>1, <3>2, Zenon
  <2>2. \A x \in Erased : \A v \in RevisionsOf(x)' : ~v.payload
    BY <1>8, ErasedRecords, Zenon DEF GoneInv
  <2> QED BY <1>8, <1>13, <2>1, <2>2, Zenon DEF GoneInv
<1>17. ActiveIsFresh'
  <2> SUFFICES ASSUME NEW x \in Records, status'[x] = "active", NEW v \in RevisionsOf(x)
               PROVE  v.taint \intersect (Stale \union {r}) = {}
    BY <1>8, <1>9, Zenon DEF ActiveIsFresh
  <2>1. status[x] = "active" /\ x \notin X
    BY <1>6, Zenon
  <2>2. x \notin Erased
    BY <2>1, ErasedRecords, Zenon
  <2> QED BY <1>15, <2>1, <2>2, Zenon DEF ActiveIsFresh
<1>18. LeaseIsFresh'
  <2> SUFFICES ASSUME NEW q \in Receipts, job'[q].state = "leased"
               PROVE  Context(q) \intersect (Stale \union {r}) = {}
    BY <1>8, <1>9, Zenon DEF LeaseIsFresh
  <2>1. job[q].state = "leased"
    BY Zenon
  <2>2. receipt[q] = "live" /\ Open(job'[q])
    BY <2>1, Zenon DEF RowsInv, Open
  <2>3. q \notin J
    BY <1>11, <2>2, Zenon
  <2>4. r \notin Context(q)
    BY <1>1, <2>1, <2>3, LeaseCovered, Zenon
  <2> QED BY <2>1, <2>4, Zenon DEF LeaseIsFresh
<1> QED BY <1>7, <1>10, <1>12, <1>14, <1>16, <1>17, <1>18, Zenon

LEMMA CancelledRows ==
    ASSUME TypeInv, NEW J, NEW q \in Receipts
    PROVE  /\ Cancelled(J)[q] \in JobRow
           /\ Cancelled(J)[q].state = "leased" => job[q].state = "leased"
           /\ Open(Cancelled(J)[q]) => Open(job[q]) /\ q \notin J
  BY DEF TypeInv, Cancelled, JobRow, Open

LEMMA GovernKeeps == ASSUME Inv, NEW r \in Receipts, Govern(r) PROVE Inv'
<1> USE DEF Inv
<1> DEFINE J == ForgettingClosure(r).jobs
<1>1. CASE DeleteReceipt(r)
  <2>1. /\ receipt[r] \in {"live", "corrected"} /\ RaiseBarrier("deleted", r, ForgettingClosure(r))
        /\ receipt' = [receipt EXCEPT ![r] = "deleted"] /\ job' = Cancelled(J)
        /\ UNCHANGED <<shown, readSet, revs, legacy>>
    BY <1>1 DEF DeleteReceipt
  <2>2. job' \in [Receipts -> JobRow]
    BY <2>1, CancelledRows, Zenon DEF Cancelled
  <2>3. /\ receipt' \in [Receipts -> {"absent", "live", "corrected", "deleted"}]
        /\ receipt'[r] = "deleted" /\ \A q \in Receipts : q # r => receipt'[q] = receipt[q]
    BY <2>1 DEF TypeInv
  <2>4. \A q \in Receipts : /\ job'[q].state = "leased" => job[q].state = "leased"
                            /\ Open(job'[q]) => Open(job[q]) /\ q \notin J
    BY <2>1, CancelledRows, Zenon
  <2> QED BY <2>1, <2>2, <2>3, <2>4, RaiseKeeps, Zenon
<1>2. ASSUME NEW s \in Receipts, CorrectReceipt(r, s) PROVE Inv'
  <2>1. /\ receipt[r] = "live" /\ receipt[s] = "absent" /\ RaiseBarrier("corrected", r, ForgettingClosure(r))
        /\ receipt' = [receipt EXCEPT ![r] = "corrected", ![s] = "live"]
        /\ job' = [Cancelled(J) EXCEPT ![s] = Queued]
        /\ UNCHANGED <<shown, readSet, revs, legacy>>
    BY <1>2 DEF CorrectReceipt
  <2>2. Queued \in JobRow /\ Queued.state = "pending"
    BY DEF Queued, JobRow
  <2>3. \A q \in Receipts : job'[q] = IF q = s THEN Queued ELSE Cancelled(J)[q]
    BY <2>1, Zenon DEF Cancelled
  <2>4. job' \in [Receipts -> JobRow]
    <3>1. Cancelled(J) \in [Receipts -> JobRow]
      BY CancelledRows, Zenon DEF Cancelled
    <3> QED BY <2>1, <2>2, <3>1
  <2>5. /\ receipt' \in [Receipts -> {"absent", "live", "corrected", "deleted"}]
        /\ receipt'[r] = "corrected" /\ receipt'[s] = "live"
        /\ \A q \in Receipts : q # r /\ q # s => receipt'[q] = receipt[q]
    BY <2>1, Zenon DEF TypeInv
  <2>6. \A q \in Receipts : /\ job'[q].state = "leased" => job[q].state = "leased"
                            /\ Open(job'[q]) => q = s \/ (Open(job[q]) /\ q \notin J)
    BY <2>2, <2>3, CancelledRows
  <2> QED BY <2>1, <2>4, <2>5, <2>6, RaiseKeeps, ZenonT(40)
<1> QED BY <1>1, <1>2 DEF Govern

-----------------------------------------------------------------------------
(* The cleansing transaction *)

(* The Revisions after barrier b has erased its Records. *)
ErasedBy(b) ==
    \A x \in Records :
        /\ DOMAIN revs'[x] = DOMAIN revs[x]
        /\ \A k \in DOMAIN revs[x] :
              revs'[x][k] = IF x \in b.records THEN Cleared(revs[x][k]) ELSE revs[x][k]

LEMMA ClearedFields ==
    ASSUME NEW v \in Revision
    PROVE  /\ Cleared(v) \in Revision
           /\ Cleared(v).job = v.job /\ Cleared(v).evidence = v.evidence
           /\ Cleared(v).taint = v.taint /\ ~Cleared(v).payload
           /\ Cleared(v).related = None
  BY Zenon DEF Cleared, Revision, Adoption

LEMMA CleansedJobs ==
    ASSUME TypeInv, NEW i \in DOMAIN barriers, CleanseDerivedHistory(barriers[i])
    PROVE  /\ job' \in [Receipts -> JobRow]
           /\ \A q \in Receipts : /\ job'[q].state = "leased" => job[q].state = "leased"
                                  /\ Open(job'[q]) => Open(job[q])
<1> DEFINE K == Cancelled(Unsettled(barriers[i]))
           none == [state |-> "none", attempts |-> 0]
<1>1. none \in JobRow /\ ~Open(none) /\ none.state # "leased"
  BY DEF JobRow, Open
<1>2. K \in [Receipts -> JobRow]
  BY CancelledRows, Zenon DEF Cancelled
<1>3. \A q \in Receipts : /\ K[q].state = "leased" => job[q].state = "leased"
                          /\ Open(K[q]) => Open(job[q])
  BY CancelledRows, Zenon
<1>4. barriers[i].receipt \in Receipts
  BY BarrierTypes
<1>5. job' = K \/ job' = [K EXCEPT ![barriers[i].receipt] = none]
  BY Zenon DEF CleanseDerivedHistory
<1> HIDE DEF K, none
<1> QED BY <1>1, <1>2, <1>3, <1>4, <1>5

LEMMA CleansedRevisions ==
    ASSUME TypeInv, NEW i \in DOMAIN barriers, CleanseDerivedHistory(barriers[i])
    PROVE  revs' \in [Records -> Seq(Revision)] /\ ErasedBy(barriers[i])
<1>1. \A x \in Records : \A k \in DOMAIN revs[x] : revs[x][k] \in Revision
  BY DEF TypeInv
<1>2. \A x \in Records : Len(revs[x]) \in Nat /\ DOMAIN revs[x] = 1..Len(revs[x])
  BY DEF TypeInv
<1>3. ASSUME NEW x \in Records
      PROVE  /\ revs'[x] \in Seq(Revision) /\ DOMAIN revs'[x] = DOMAIN revs[x]
             /\ \A k \in DOMAIN revs[x] :
                   revs'[x][k] = IF x \in barriers[i].records THEN Cleared(revs[x][k])
                                 ELSE revs[x][k]
  <2>1. CASE x \in barriers[i].records
    <3>1. revs'[x] = [k \in DOMAIN revs[x] |-> Cleared(revs[x][k])]
      BY <2>1, Zenon DEF CleanseDerivedHistory
    <3>2. \A k \in DOMAIN revs[x] : Cleared(revs[x][k]) \in Revision
      BY <1>1, ClearedFields
    <3>3. revs'[x] \in [1..Len(revs[x]) -> Revision]
      BY <1>2, <3>1, <3>2, Zenon
    <3> QED BY <1>2, <2>1, <3>1, <3>3
  <2>2. CASE x \notin barriers[i].records
    BY <2>2 DEF CleanseDerivedHistory, TypeInv
  <2> QED BY <2>1, <2>2, Zenon
<1>4. revs' = [x \in Records |-> revs'[x]]
  BY Zenon DEF CleanseDerivedHistory
<1> QED BY <1>3, <1>4 DEF ErasedBy

LEMMA ErasedRevisions ==
    ASSUME TypeInv, NEW b, ErasedBy(b), NEW x \in Records, NEW w \in RevisionsOf(x)'
    PROVE  \E v \in RevisionsOf(x) :
              /\ w.taint = v.taint /\ w.evidence = v.evidence /\ w.job = v.job
              /\ w.related = v.related \/ w.related = None
              /\ x \notin b.records => w = v
              /\ x \in b.records => ~w.payload
<1>1. PICK k \in DOMAIN revs[x] : w = revs'[x][k]
  BY Zenon DEF RevisionsOf, ErasedBy
<1>2. revs[x][k] \in Revision /\ revs[x][k] \in RevisionsOf(x)
  BY DEF TypeInv, RevisionsOf
<1> QED BY <1>1, <1>2, ClearedFields, ZenonT(40) DEF ErasedBy

LEMMA RevisionsErased ==
    ASSUME TypeInv, NEW b, ErasedBy(b), NEW x \in Records, NEW v \in RevisionsOf(x)
    PROVE  \E w \in RevisionsOf(x)' :
              /\ w.taint = v.taint /\ w.evidence = v.evidence /\ w.job = v.job
              /\ x \notin b.records => w = v
<1>1. PICK k \in DOMAIN revs[x] : v = revs[x][k]
  BY DEF RevisionsOf
<1>2. v \in Revision /\ revs'[x][k] \in RevisionsOf(x)'
  BY <1>1 DEF TypeInv, RevisionsOf, ErasedBy
<1> QED BY <1>1, <1>2, ClearedFields, Zenon DEF ErasedBy

(* The closures of what is left: erasing removes references only. *)
LEMMA ErasedClosure ==
    ASSUME TypeInv, NEW b, b.records \in SUBSET Records, ErasedBy(b),
           UNCHANGED <<readSet, legacy>>
    PROVE  /\ \A q \in Receipts : /\ Citing(q)' = Citing(q)
                                  /\ ReadersOfReceipt(q)' = ReadersOfReceipt(q)
           /\ \A K : Produced(K)' = Produced(K)
           /\ \A Y \in SUBSET Records : /\ Referrers(Y)' \subseteq Referrers(Y)
                                        /\ Referrers(Y) \subseteq Referrers(Y)' \union b.records
                                        /\ Readers(Y)' = Readers(Y)
<1>1. \A q \in Receipts : Citing(q)' = Citing(q)
  BY ErasedRevisions, RevisionsErased DEF Citing
<1>2. \A K : Produced(K)' = Produced(K)
  BY ErasedRevisions, RevisionsErased DEF Produced
<1>3. ASSUME NEW Y \in SUBSET Records PROVE Referrers(Y)' \subseteq Referrers(Y)
  BY ErasedRevisions, ForgettingAssumption DEF Referrers
<1>4. ASSUME NEW Y \in SUBSET Records PROVE Referrers(Y) \subseteq Referrers(Y)' \union b.records
  BY RevisionsErased DEF Referrers
<1> QED BY <1>1, <1>2, <1>3, <1>4, Zenon DEF Readers, ReadersOfReceipt

LEMMA MarkedCleaned ==
    ASSUME TypeInv, NEW i \in DOMAIN barriers,
           barriers' = [barriers EXCEPT ![i].status = "cleaned"]
    PROVE  /\ barriers' \in Seq(Barrier) /\ DOMAIN barriers' = DOMAIN barriers
           /\ \A k \in DOMAIN barriers :
                 /\ barriers'[k].kind = barriers[k].kind
                 /\ barriers'[k].receipt = barriers[k].receipt
                 /\ barriers'[k].records = barriers[k].records
                 /\ barriers'[k].status = IF k = i THEN "cleaned" ELSE barriers[k].status
<1>1. \A k \in DOMAIN barriers : barriers[k] \in Barrier
  BY DEF TypeInv
<1>2. [barriers[i] EXCEPT !.status = "cleaned"] \in Barrier
  BY <1>1 DEF Barrier
<1>3. barriers' = [barriers EXCEPT ![i] = [barriers[i] EXCEPT !.status = "cleaned"]]
  OBVIOUS
<1>4. barriers' \in Seq(Barrier) /\ DOMAIN barriers' = DOMAIN barriers
  BY <1>2, <1>3 DEF TypeInv
<1>5. \A k \in DOMAIN barriers :
         barriers'[k] = IF k = i THEN [barriers[i] EXCEPT !.status = "cleaned"] ELSE barriers[k]
  BY <1>3 DEF TypeInv
<1> QED BY <1>1, <1>4, <1>5 DEF Barrier

LEMMA BarriersStay ==
    ASSUME Inv, DOMAIN barriers' = DOMAIN barriers, UNCHANGED <<receipt, status, legacy, readSet>>,
           \A k \in DOMAIN barriers : /\ barriers'[k].receipt = barriers[k].receipt
                                      /\ barriers'[k].records = barriers[k].records,
           \A Y \in SUBSET Records : Referrers(Y)' \subseteq Referrers(Y),
           \A K : Produced(K)' = Produced(K),
           \A q \in Receipts : Open(job'[q]) => Open(job[q])
    PROVE  BarrierInv'
<1> SUFFICES ASSUME NEW k \in DOMAIN barriers PROVE BarrierOK(barriers[k])'
  BY DEF BarrierInv
<1>1. PICK c : c = barriers'[k]
  OBVIOUS
<1>2. BarrierOK(barriers[k])
  BY Zenon DEF Inv, BarrierInv
<1>3. PICK X \in SUBSET Records : X = barriers[k].records
  BY BarrierTypes, Zenon DEF Inv
<1>4. c.receipt = barriers[k].receipt /\ c.records = X
  BY <1>1, <1>3, Zenon
<1>5. \A x \in X : status[x] = "invalidated"
  BY <1>2, <1>3, Zenon DEF BarrierOK
<1>6. Referrers(X) \subseteq X /\ (X # {} => legacy \subseteq X)
  BY <1>2, <1>3, Zenon DEF BarrierOK
<1>7. \A q \in Readers(X) : ~Open(job[q]) /\ Produced({q}) \subseteq X
  BY <1>2, <1>3, Zenon DEF BarrierOK
<1>8. Readers(X)' = Readers(X) /\ Readers(X) \subseteq Receipts
  BY DEF Readers, Inv, TypeInv, ReadRow
<1>9. Referrers(X)' \subseteq X
  BY <1>6
<1>10. \A q \in Readers(X)' : ~Open(job'[q]) /\ Produced({q})' \subseteq X
  BY <1>7, <1>8, Zenon
<1>11. receipt'[c.receipt] \in {"corrected", "deleted"}
  BY <1>2, <1>4, Zenon DEF BarrierOK
<1>12. BarrierOK(c)'
  BY <1>4, <1>5, <1>6, <1>9, <1>10, <1>11, Zenon DEF BarrierOK
<1> QED BY <1>1, <1>12, BarrierAfter

(* What any of the barriers name together is closed under derivation too. *)
LEMMA BarriersClosed ==
    ASSUME Inv, NEW K \in SUBSET DOMAIN barriers, NEW E,
           \A k \in K : barriers[k].records \subseteq E,
           \A x \in E : \E k \in K : x \in barriers[k].records
    PROVE  /\ E \in SUBSET Records
           /\ Produced(Readers(E)) \subseteq E /\ Referrers(E) \subseteq E
           /\ E # {} => legacy \subseteq E
<1>1. ASSUME NEW x \in E
      PROVE  \E k \in K : x \in barriers[k].records
  OBVIOUS
<1>2. \A k \in K : barriers[k].records \subseteq E
  OBVIOUS
<1>3. \A k \in K : BarrierOK(barriers[k])
  BY DEF Inv, BarrierInv
<1>4. \A k \in K : barriers[k].records \in SUBSET Records
  BY BarrierTypes DEF Inv
<1>5. ASSUME NEW x \in Produced(Readers(E)) PROVE x \in E
  <2>1. PICK v \in RevisionsOf(x) : v.job \in Readers(E)
    BY DEF Produced
  <2>2. PICK d \in readSet : d.job = v.job /\ d.record \in E
    BY <2>1 DEF Readers
  <2>3. PICK k \in K : d.record \in barriers[k].records
    BY <1>1, <2>2
  <2>4. v.job \in Readers(barriers[k].records)
    BY <2>2, <2>3 DEF Readers
  <2>5. Produced({v.job}) \subseteq barriers[k].records
    BY <1>3, <2>4, Zenon DEF BarrierOK
  <2>6. x \in Produced({v.job})
    BY <2>1, Zenon DEF Produced
  <2> QED BY <1>2, <2>5, <2>6, Zenon
<1>6. ASSUME NEW x \in Referrers(E) PROVE x \in E
  <2>1. PICK v \in RevisionsOf(x) : x \in Records /\ v.related \in E
    BY DEF Referrers
  <2>2. PICK k \in K : v.related \in barriers[k].records
    BY <1>1, <2>1
  <2>3. x \in Referrers(barriers[k].records)
    BY <2>1, <2>2 DEF Referrers
  <2> QED BY <1>2, <1>3, <2>3, Zenon DEF BarrierOK
<1>7. ASSUME E # {} PROVE legacy \subseteq E
  <2>1. PICK k \in K : barriers[k].records # {}
    BY <1>1, <1>7, Zenon
  <2> QED BY <1>2, <1>3, <2>1, Zenon DEF BarrierOK
<1>8. E \in SUBSET Records
  BY <1>1, <1>4, Zenon
<1> QED BY <1>5, <1>6, <1>7, <1>8

LEMMA EraseKeeps ==
    ASSUME Inv, NEW i \in DOMAIN barriers, barriers[i].kind = "deleted",
           CleanseDerivedHistory(barriers[i]),
           barriers' = [barriers EXCEPT ![i].status = "cleaned"], handlers' \subseteq handlers,
           UNCHANGED <<receipt, shown, readSet, status, legacy>>
    PROVE  Inv'
<1> USE DEF Inv
<1>1. /\ barriers' \in Seq(Barrier) /\ DOMAIN barriers' = DOMAIN barriers
      /\ \A k \in DOMAIN barriers :
            /\ barriers'[k].kind = barriers[k].kind
            /\ barriers'[k].receipt = barriers[k].receipt
            /\ barriers'[k].records = barriers[k].records
            /\ barriers'[k].status = IF k = i THEN "cleaned" ELSE barriers[k].status
  BY MarkedCleaned, Zenon
<1>2. PICK b : b = barriers[i]
  OBVIOUS
<1>3. ErasedBy(b) /\ revs' \in [Records -> Seq(Revision)]
  BY <1>2, CleansedRevisions
<1>4. b.records \in SUBSET Records
  BY <1>2, BarrierTypes
<1>5. /\ job' \in [Receipts -> JobRow]
      /\ \A q \in Receipts : /\ job'[q].state = "leased" => job[q].state = "leased"
                             /\ Open(job'[q]) => Open(job[q])
  BY CleansedJobs
<1>6. /\ \A q \in Receipts : /\ Citing(q)' = Citing(q)
                             /\ ReadersOfReceipt(q)' = ReadersOfReceipt(q)
      /\ \A K : Produced(K)' = Produced(K)
      /\ \A Y \in SUBSET Records : /\ Referrers(Y)' \subseteq Referrers(Y)
                                   /\ Referrers(Y) \subseteq Referrers(Y)' \union b.records
                                   /\ Readers(Y)' = Readers(Y)
  BY <1>3, <1>4, ErasedClosure
<1>7. \A x \in Records : \A w \in RevisionsOf(x)' : \E v \in RevisionsOf(x) :
         /\ w.taint = v.taint /\ w.evidence = v.evidence
         /\ x \notin b.records => w = v
         /\ x \in b.records => ~w.payload
  BY <1>3, ErasedRevisions
<1>8. TypeInv'
  BY <1>1, <1>3, <1>5 DEF TypeInv
<1>9. RowsInv'
  <2>1. \A x \in Records : revs'[x] = <<>> <=> revs[x] = <<>>
    BY <1>3 DEF TypeInv, ErasedBy
  <2>2. \A x \in Records : \A w \in RevisionsOf(x)' : w.evidence # {}
    BY <1>7 DEF RowsInv
  <2>3. \A q \in Receipts : \A t \in shown[q] :
           /\ t[2] \in DOMAIN revs'[t[1]]
           /\ \E d \in readSet : d.job = q /\ d.record = t[1]
    BY <1>3 DEF RowsInv, TypeInv, ErasedBy
  <2>4. \A x \in legacy : revs'[x] # <<>>
    BY <2>1 DEF RowsInv, TypeInv
  <2> QED BY <1>5, <2>1, <2>2, <2>3, <2>4 DEF RowsInv
<1>10. BarrierInv'
  BY <1>1, <1>5, <1>6, BarriersStay
<1>11. PICK E : E = Erased \union b.records
  BY Zenon
<1>12. Erased' = E
  BY <1>1, <1>2, <1>11 DEF Erased
<1>13. /\ E \in SUBSET Records /\ Produced(Readers(E)) \subseteq E /\ Referrers(E) \subseteq E
       /\ E # {} => legacy \subseteq E
  <2>1. PICK K \in SUBSET DOMAIN barriers :
           K = {k \in DOMAIN barriers :
                   barriers[k].kind = "deleted" /\ barriers[k].status = "cleaned"} \union {i}
    BY Zenon
  <2>2. /\ \A k \in K : barriers[k].records \subseteq E
        /\ \A x \in E : \E k \in K : x \in barriers[k].records
    BY <1>2, <1>11, <2>1 DEF Erased
  <2> QED BY <2>2, BarriersClosed, Zenon
<1>14. TaintInv'
  <2> SUFFICES ASSUME NEW q \in Receipts, NEW X \in SUBSET Records, NEW J \in SUBSET Receipts,
                      Covers(q, X, J)', NEW x \in Records \ E, NEW w \in RevisionsOf(x)',
                      q \in w.taint
               PROVE  x \in X
    BY <1>12 DEF TaintInv
  <2>1. /\ Citing(q) \subseteq X /\ {q} \union ReadersOfReceipt(q) \subseteq J
        /\ Produced(J) \subseteq X /\ Referrers(X)' \subseteq X /\ Readers(X) \subseteq J
        /\ X # {} => legacy \subseteq X
    BY <1>6 DEF Covers, Closed
  <2>2. PICK Y \in SUBSET Records : Y = X \union E
    BY <1>13, Zenon
  <2>3. PICK K \in SUBSET Receipts : K = J \union Readers(E)
    BY <1>13, ClosureRows, Zenon
  <2>4. Produced(K) \subseteq Y
    <3>1. Produced(K) \subseteq Produced(J) \union Produced(Readers(E))
      BY <2>3 DEF Produced
    <3> QED BY <1>13, <2>1, <2>2, <3>1
  <2>5. Referrers(Y) \subseteq Y
    <3>1. Referrers(Y) \subseteq Referrers(X) \union Referrers(E)
      BY <2>2 DEF Referrers
    <3>2. Referrers(X) \subseteq X \union b.records
      BY <1>6, <2>1
    <3> QED BY <1>11, <1>13, <2>2, <3>1, <3>2, Zenon
  <2>6. Readers(Y) \subseteq K
    <3>1. Readers(Y) \subseteq Readers(X) \union Readers(E)
      BY <2>2 DEF Readers
    <3> QED BY <2>1, <2>3, <3>1
  <2>7. Y # {} => legacy \subseteq Y
    BY <1>13, <2>1, <2>2
  <2>8. Covers(q, Y, K)
    BY <2>1, <2>2, <2>3, <2>4, <2>5, <2>6, <2>7, Zenon DEF Covers, Closed
  <2>9. PICK v \in RevisionsOf(x) : w.taint = v.taint
    BY <1>7
  <2>10. x \in Y
    BY <1>11, <2>8, <2>9 DEF TaintInv
  <2> QED BY <2>2, <2>10
<1>15. GoneInv'
  <2>1. ASSUME NEW x \in Records, NEW w \in RevisionsOf(x)', NEW q \in w.taint \intersect Deleted,
               w.payload
        PROVE  PendingNames(q, x)'
    <3>1. x \notin b.records /\ w \in RevisionsOf(x)
      BY <1>7, <2>1
    <3>2. PICK k \in Pending : /\ barriers[k].kind = "deleted" /\ barriers[k].receipt = q
                               /\ x \in barriers[k].records
      BY <2>1, <3>1 DEF GoneInv, PendingNames
    <3>3. k # i /\ k \in DOMAIN barriers /\ barriers[k].status = "pending"
      BY <1>2, <3>1, <3>2 DEF Pending
    <3> QED BY <1>1, <3>2, <3>3 DEF PendingNames, Pending
  <2>2. ASSUME NEW x \in E, NEW w \in RevisionsOf(x)' PROVE ~w.payload
    <3>1. CASE x \in b.records
      BY <1>4, <1>7, <3>1
    <3>2. CASE x \notin b.records
      BY <1>7, <1>11, <1>13, <3>2 DEF GoneInv
    <3> QED BY <3>1, <3>2
  <2>3. Deleted' = Deleted
    BY DEF Deleted
  <2> QED BY <1>12, <2>1, <2>2, <2>3 DEF GoneInv
<1>16. Stale' = Stale
  BY DEF Stale
<1>17. ActiveIsFresh'
  BY <1>7, <1>16 DEF ActiveIsFresh
<1>18. LeaseIsFresh'
  <2>1. ASSUME NEW q \in Receipts, NEW t \in shown[q]
        PROVE  revs'[t[1]][t[2]].taint = revs[t[1]][t[2]].taint
    <3>1. t[1] \in Records /\ t[2] \in DOMAIN revs[t[1]]
      <4>1. t[1] \in Records
        BY DEF TypeInv
      <4> QED BY <4>1, Zenon DEF RowsInv
    <3>2. revs[t[1]][t[2]] \in Revision
      BY <3>1 DEF TypeInv
    <3> QED BY <1>3, <3>1, <3>2, ClearedFields DEF ErasedBy
  <2>2. \A q \in Receipts : Context(q)' = Context(q)
    BY <2>1 DEF Context
  <2> QED BY <1>5, <1>16, <2>2 DEF LeaseIsFresh
<1> QED BY <1>8, <1>9, <1>10, <1>14, <1>15, <1>17, <1>18

(* A correction keeps the contents; a barrier already cleaned stays so. *)
LEMMA SpareKeeps ==
    ASSUME Inv, NEW i \in DOMAIN barriers,
           ~(barriers[i].status = "pending" /\ barriers[i].kind = "deleted"),
           barriers' = [barriers EXCEPT ![i].status = "cleaned"], handlers' \subseteq handlers,
           UNCHANGED <<receipt, job, shown, readSet, status, revs, legacy>>
    PROVE  Inv'
<1> USE DEF Inv
<1>1. /\ barriers' \in Seq(Barrier) /\ DOMAIN barriers' = DOMAIN barriers
      /\ \A k \in DOMAIN barriers :
            /\ barriers'[k].kind = barriers[k].kind
            /\ barriers'[k].receipt = barriers[k].receipt
            /\ barriers'[k].records = barriers[k].records
            /\ barriers'[k].status = IF k = i THEN "cleaned" ELSE barriers[k].status
  BY MarkedCleaned, Zenon
<1>2. /\ \A x : RevisionsOf(x)' = RevisionsOf(x)
      /\ \A q : Context(q)' = Context(q)
      /\ \A Y : Produced(Y)' = Produced(Y) /\ Referrers(Y)' = Referrers(Y)
      /\ Stale' = Stale /\ Deleted' = Deleted
  BY DEF RevisionsOf, Context, Produced, Referrers, Stale, Deleted
<1>3. TypeInv'
  BY <1>1 DEF TypeInv
<1>4. RowsInv'
  BY <1>2 DEF RowsInv
<1>5. BarrierInv'
  BY <1>1, <1>2, BarriersStay
<1>6. barriers[i].status \in {"pending", "cleaned"}
  BY BarrierTypes
<1>7. Erased' = Erased
  BY <1>1, <1>6 DEF Erased
<1>8. TaintInv'
  BY <1>7, TaintStays, Zenon
<1>9. \A q, x : PendingNames(q, x) => PendingNames(q, x)'
  BY <1>1 DEF PendingNames, Pending
<1>10. GoneInv'
  BY <1>2, <1>7, <1>9 DEF GoneInv
<1>11. ActiveIsFresh' /\ LeaseIsFresh'
  BY <1>2 DEF ActiveIsFresh, LeaseIsFresh
<1> QED BY <1>3, <1>4, <1>5, <1>8, <1>10, <1>11

LEMMA CleanupKeeps ==
    ASSUME Inv, NEW i \in DOMAIN barriers, CleanupForgettingBarrier(i), handlers' \subseteq handlers,
           UNCHANGED <<receipt, shown, readSet, status, legacy>>
    PROVE  Inv'
<1>1. CASE barriers[i].status = "pending" /\ barriers[i].kind = "deleted"
  BY <1>1, EraseKeeps, Zenon DEF CleanupForgettingBarrier
<1>2. CASE ~(barriers[i].status = "pending" /\ barriers[i].kind = "deleted")
  BY <1>2, SpareKeeps, Zenon DEF CleanupForgettingBarrier
<1> QED BY <1>1, <1>2

(* Failing handlers, crashes and restarts touch no row. *)
LEMMA RowsStay ==
    ASSUME Inv, handlers' \subseteq handlers,
           UNCHANGED <<receipt, job, shown, readSet, status, revs, barriers, legacy>>
    PROVE  Inv'
<1> USE DEF Inv
<1>1. /\ \A x : RevisionsOf(x)' = RevisionsOf(x)
      /\ \A q : Context(q)' = Context(q)
      /\ \A Y : Produced(Y)' = Produced(Y) /\ Referrers(Y)' = Referrers(Y)
      /\ Stale' = Stale /\ Deleted' = Deleted /\ Erased' = Erased
  BY ZenonT(40) DEF RevisionsOf, Context, Produced, Referrers, Stale, Deleted, Erased
<1>2. TypeInv' /\ RowsInv'
  <2>1. TypeInv'
    BY DEF TypeInv
  <2>2. RowsInv'
    BY <1>1, Zenon DEF RowsInv
  <2> QED BY <2>1, <2>2
<1>3. BarrierInv'
  BY <1>1, BarriersStay
<1>4. TaintInv'
  BY <1>1, TaintStays, Zenon
<1>5. \A q, x : PendingNames(q, x) => PendingNames(q, x)'
  BY DEF PendingNames, Pending
<1>6. GoneInv'
  BY <1>1, <1>5, Zenon DEF GoneInv
<1>7. ActiveIsFresh' /\ LeaseIsFresh'
  BY <1>1, Zenon DEF ActiveIsFresh, LeaseIsFresh
<1> QED BY <1>2, <1>3, <1>4, <1>6, <1>7

-----------------------------------------------------------------------------
LEMMA OneRevision ==
    ASSUME NEW v \in Revision, NEW q, q = <<v>>
    PROVE  q \in Seq(Revision) /\ q # <<>> /\ {q[k] : k \in DOMAIN q} = {v}
  OBVIOUS

LEMMA InvInit == Init => Inv
<1> SUFFICES ASSUME Init PROVE Inv
  OBVIOUS
<1>a. PICK L \in SUBSET Receipts :
         /\ legacy \in SUBSET Records
         /\ receipt = [r \in Receipts |-> IF r \in L THEN "live" ELSE "absent"]
         /\ job = [r \in Receipts |-> IF r \in L THEN [state |-> "completed", attempts |-> 1]
                                      ELSE [state |-> "none", attempts |-> 0]]
         /\ \E by \in [legacy -> L], ev \in [legacy -> SUBSET L] :
               /\ \A x \in legacy : by[x] \in ev[x]
               /\ revs = [x \in Records |->
                             IF x \in legacy
                             THEN <<LegacyRevision(by[x], ev[x], UNION {ev[y] : y \in legacy})>>
                             ELSE <<>>]
  BY Zenon DEF Init
<1>b. PICK by \in [legacy -> L], ev \in [legacy -> SUBSET L] :
         /\ \A x \in legacy : by[x] \in ev[x]
         /\ revs = [x \in Records |->
                       IF x \in legacy
                       THEN <<LegacyRevision(by[x], ev[x], UNION {ev[y] : y \in legacy})>>
                       ELSE <<>>]
  BY <1>a, Zenon
<1>c. PICK known \in SUBSET Receipts : known = UNION {ev[y] : y \in legacy}
  BY Zenon
<1>1. /\ legacy \in SUBSET Records
      /\ receipt = [r \in Receipts |-> IF r \in L THEN "live" ELSE "absent"]
      /\ job = [r \in Receipts |-> IF r \in L THEN [state |-> "completed", attempts |-> 1]
                                   ELSE [state |-> "none", attempts |-> 0]]
      /\ \A x \in legacy : by[x] \in ev[x]
      /\ \A r \in known : \E y \in legacy : r \in ev[y]
      /\ revs = [x \in Records |-> IF x \in legacy
                                   THEN <<LegacyRevision(by[x], ev[x], known)>> ELSE <<>>]
  BY <1>a, <1>b, <1>c, Zenon
<1>2. /\ shown = [r \in Receipts |-> {}] /\ readSet = {} /\ barriers = <<>> /\ handlers = {}
      /\ status = [x \in Records |-> IF x \in legacy THEN "active" ELSE "absent"]
  BY Zenon DEF Init
<1> DEFINE V(x) == LegacyRevision(by[x], ev[x], known)
<1>3. ASSUME NEW x \in legacy
      PROVE  V(x) \in Revision /\ V(x).evidence = ev[x] /\ V(x).taint = known
  BY <1>1, Zenon DEF LegacyRevision, Revision, Adoption
<1>4. ASSUME NEW x \in legacy
      PROVE  /\ revs[x] = <<V(x)>> /\ revs[x] \in Seq(Revision) /\ revs[x] # <<>>
             /\ RevisionsOf(x) = {V(x)}
  <2>1. revs[x] = <<V(x)>> /\ V(x) \in Revision
    BY <1>1, <1>3, Zenon
  <2> HIDE DEF V
  <2>2. revs[x] \in Seq(Revision) /\ revs[x] # <<>> /\ {revs[x][k] : k \in DOMAIN revs[x]} = {V(x)}
    BY <2>1, OneRevision
  <2> QED BY <2>1, <2>2, Zenon DEF RevisionsOf
<1>5. ASSUME NEW x \in Records \ legacy
      PROVE  /\ revs[x] = <<>> /\ revs[x] \in Seq(Revision) /\ RevisionsOf(x) = {}
  <2>1. revs[x] = <<>>
    BY <1>1
  <2> QED BY <2>1 DEF RevisionsOf
<1> HIDE DEF V
<1>6. TypeInv
  <2>1. revs \in [Records -> Seq(Revision)]
    BY <1>1, <1>4, <1>5
  <2>2. job \in [Receipts -> JobRow]
    BY <1>1 DEF JobRow
  <2>3. receipt \in [Receipts -> {"absent", "live", "corrected", "deleted"}]
    BY <1>1, Zenon
  <2> QED BY <1>1, <1>2, <2>1, <2>2, <2>3 DEF TypeInv
<1>7. \A r \in Receipts : ~Open(job[r]) /\ job[r].state # "leased"
  BY <1>1 DEF Open
<1>8. RowsInv
  <2>1. \A x \in Records : status[x] = "absent" <=> revs[x] = <<>>
    BY <1>2, <1>4, <1>5
  <2>2. \A x \in legacy : revs[x] # <<>>
    BY <1>4, Zenon
  <2>3. \A x \in Records : \A v \in RevisionsOf(x) : v.evidence # {}
    BY <1>1, <1>3, <1>4, <1>5
  <2>4. readSet = {} /\ \A r \in Receipts : shown[r] = {}
    BY <1>2, Zenon
  <2> QED BY <1>7, <2>1, <2>2, <2>3, <2>4, Zenon DEF RowsInv
<1>9. BarrierInv
  BY <1>2 DEF BarrierInv
<1>10. TaintInv
  <2> SUFFICES ASSUME NEW r \in Receipts, NEW X \in SUBSET Records, NEW J \in SUBSET Receipts,
                      Covers(r, X, J), NEW x \in Records, NEW v \in RevisionsOf(x), r \in v.taint
               PROVE  x \in X
    BY Zenon DEF TaintInv
  <2>1. x \in legacy /\ r \in known
    BY <1>3, <1>4, <1>5, Zenon
  <2>2. PICK y \in legacy : r \in ev[y]
    BY <1>1, <2>1, Zenon
  <2>3. y \in Citing(r)
    BY <1>1, <1>3, <1>4, <2>2, Zenon DEF Citing
  <2> QED BY <2>1, <2>3, Zenon DEF Covers
<1>11. Deleted = {} /\ Stale = {} /\ Erased = {}
  <2>1. \A r \in Receipts : receipt[r] \in {"live", "absent"}
    BY <1>1, Zenon
  <2>2. DOMAIN barriers = {}
    BY <1>2
  <2> QED BY <2>1, <2>2 DEF Deleted, Stale, Erased
<1>12. GoneInv /\ ActiveIsFresh /\ LeaseIsFresh
  BY <1>11, Zenon DEF GoneInv, ActiveIsFresh, LeaseIsFresh
<1> QED BY <1>6, <1>8, <1>9, <1>10, <1>12 DEF Inv

LEMMA InvNext == Inv /\ [Next]_vars => Inv'
<1> SUFFICES ASSUME Inv, [Next]_vars PROVE Inv'
  OBVIOUS
<1>1. ASSUME NEW r \in Receipts, Evidence(r) PROVE Inv'
  BY <1>1, AcceptKeeps, FactsKeep DEF Evidence
<1>2. ASSUME NEW r \in Receipts, StewardStep(r) PROVE Inv'
  BY <1>2, ClaimKeeps, ReleaseKeeps, ApplyKeeps DEF StewardStep
<1>3. ASSUME NEW r \in Receipts, Govern(r) PROVE Inv'
  BY <1>3, GovernKeeps
<1>4. ASSUME NEW i \in handlers, HandlerCleans(i) PROVE Inv'
  <2>1. i \in DOMAIN barriers
    BY DEF Inv, TypeInv
  <2> QED BY <1>4, <2>1, CleanupKeeps DEF HandlerCleans
<1>5. ASSUME NEW i \in handlers, HandlerFails(i) PROVE Inv'
  BY <1>5, RowsStay DEF HandlerFails
<1>6. CASE Crash
  BY <1>6, RowsStay DEF Crash
<1>7. CASE RecoverNext
  <2>1. PICK i \in DOMAIN barriers : CleanupForgettingBarrier(i)
    BY <1>7 DEF RecoverNext, Pending
  <2> QED BY <1>7, <2>1, CleanupKeeps DEF RecoverNext
<1>8. CASE OpenStore \/ Serve
  BY <1>8, RowsStay DEF OpenStore, Serve
<1>9. CASE UNCHANGED vars
  BY <1>9, RowsStay DEF vars
<1> QED BY <1>1, <1>2, <1>3, <1>4, <1>5, <1>6, <1>7, <1>8, <1>9 DEF Next, Restart

LEMMA InvHolds == Spec => []Inv
  BY InvInit, InvNext, PTL DEF Spec

-----------------------------------------------------------------------------
(* A pending deletion that names a Record makes the reads blank it. *)
LEMMA ReadsAreBlank == Inv => ForgottenNeverServed
<1> SUFFICES ASSUME Inv, NEW x \in Records, NEW v \in RevisionsOf(x),
                    BlankForgottenRevision(x, v).payload
             PROVE  BlankForgottenRevision(x, v).taint \intersect Deleted = {}
  BY DEF ForgottenNeverServed, TraceRecord
<1>1. v \in Revision
  BY RevisionTypes, Zenon DEF Inv
<1>2. Naming(x) = {} /\ BlankForgottenRevision(x, v) = v
  BY <1>1, ClearedFields DEF BlankForgottenRevision
<1>3. \A r : ~PendingNames(r, x)
  BY <1>2 DEF Naming, PendingNames, Pending
<1> QED BY <1>2, <1>3, Zenon DEF Inv, GoneInv

LEMMA CompletedIsBlank == Inv => CompletedIsGone
<1> SUFFICES ASSUME Inv PROVE CompletedIsGone
  OBVIOUS
<1>1. ASSUME NEW r \in Deleted, CleanupState(r) = "completed",
             NEW x \in Records, NEW v \in RevisionsOf(x), r \in v.taint
      PROVE  ~v.payload
  <2>1. \A i \in Pending : barriers[i].receipt # r
    BY <1>1 DEF CleanupState, Pending
  <2>2. ~PendingNames(r, x)
    BY <2>1 DEF PendingNames
  <2> QED BY <1>1, <2>2, Zenon DEF Inv, GoneInv
<1>2. ASSUME NEW x \in Records, GovernanceRecordState(x) = "forgotten", NEW v \in RevisionsOf(x)
      PROVE  ~v.payload
  <2>1. status[x] # "forgotten"
    BY Zenon DEF Inv, TypeInv
  <2>2. Naming(x) # {} /\ Naming(x) \intersect Pending = {}
    BY <1>2, <2>1 DEF GovernanceRecordState
  <2>3. PICK i \in DOMAIN barriers : /\ barriers[i].kind = "deleted" /\ x \in barriers[i].records
                                     /\ barriers[i].status # "pending"
    BY <2>2, Zenon DEF Naming, Pending
  <2>4. barriers[i].status = "cleaned"
    BY <2>3, BarrierTypes, Zenon DEF Inv
  <2>5. x \in Erased
    BY <2>3, <2>4 DEF Erased
  <2> QED BY <2>5, Zenon DEF Inv, GoneInv
<1> QED BY <1>1, <1>2 DEF CompletedIsGone

LEMMA BarrierSettles == Inv => NothingLeftToSettle
<1> SUFFICES ASSUME Inv, NEW i \in Pending, NEW r \in Unsettled(barriers[i]) PROVE FALSE
  BY DEF NothingLeftToSettle
<1>1. BarrierOK(barriers[i])
  BY DEF Inv, BarrierInv, Pending
<1> QED BY <1>1, Zenon DEF Unsettled, BarrierOK, Inv, RowsInv

(* No operation that reads stored text, none that answers a request and     *)
(* none that runs after a crash returns text stemming from a deleted        *)
(* receipt: TraceRecord and GetSemanticRecord blank what a deletion barrier *)
(* names, and the closure makes the barrier name all of it.                 *)
THEOREM ForgottenIsNeverServed == Spec => []ForgottenNeverServed
  BY InvHolds, ReadsAreBlank, PTL

(* What is recalled or shown to a worker never stems from a deleted or      *)
(* corrected receipt, through any number of jobs, exceptions and            *)
(* confirmations: the barrier transaction invalidates the whole closure.    *)
THEOREM ActiveStaysFresh == Spec => []ActiveIsFresh
<1>1. Inv => ActiveIsFresh
  BY DEF Inv
<1> QED BY <1>1, InvHolds, PTL

(* No worker keeps a lease on text of a deleted or corrected receipt: the   *)
(* barrier transaction cancels every job that read any of it.               *)
THEOREM LeasesStayFresh == Spec => []LeaseIsFresh
<1>1. Inv => LeaseIsFresh
  BY DEF Inv
<1> QED BY <1>1, InvHolds, PTL

(* A cleanup that CleanupStatus calls complete has erased every Revision    *)
(* stemming from the receipt, and a Record called forgotten is blank,       *)
(* whatever crashed and whatever other barriers name the same Records.      *)
THEOREM CompletedCleanupErases == Spec => []CompletedIsGone
  BY InvHolds, CompletedIsBlank, PTL

(* The jobs that cleanseDerivedHistory looks for are settled already: it    *)
(* never finds an open one.                                                 *)
THEOREM BarrierSettlesJobs == Spec => []NothingLeftToSettle
  BY InvHolds, BarrierSettles, PTL

(* The history after a step that appends to, or erases, some Revisions. *)
HistoryKept ==
    \A x \in Records : \A i \in DOMAIN revs[x] :
        /\ i \in DOMAIN revs'[x]
        /\ \/ revs'[x][i] = revs[x][i]
           \/ Naming(x) # {} /\ Erasure(revs[x][i], revs'[x][i])

LEMMA AppendKeepsHistory ==
    ASSUME TypeInv, NEW x \in Records, NEW v, revs'[x] = Append(revs[x], v)
    PROVE  \A i \in DOMAIN revs[x] : i \in DOMAIN revs'[x] /\ revs'[x][i] = revs[x][i]
<1>1. revs[x] \in Seq(Revision)
  BY DEF TypeInv
<1> QED BY <1>1

LEMMA SubmitKeepsHistory ==
    ASSUME TypeInv, NEW r, NEW x \in Records, NEW v, SubmitFact(r, x, v)
    PROVE  HistoryKept
<1>1. revs'[x] = Append(revs[x], v) /\ \A y \in Records \ {x} : revs'[y] = revs[y]
  BY DEF SubmitFact, TypeInv
<1> QED BY <1>1, AppendKeepsHistory, Zenon DEF HistoryKept

LEMMA CleanupKeepsHistory ==
    ASSUME TypeInv, NEW i \in DOMAIN barriers, CleanupForgettingBarrier(i)
    PROVE  HistoryKept
<1>1. CASE barriers[i].status = "pending" /\ barriers[i].kind = "deleted"
  <2>1. ErasedBy(barriers[i])
    BY <1>1, CleansedRevisions DEF CleanupForgettingBarrier
  <2>2. \A x \in barriers[i].records : Naming(x) # {}
    BY <1>1, Zenon DEF Naming
  <2> QED BY <2>1, <2>2, Zenon DEF HistoryKept, ErasedBy, Erasure
<1>2. CASE ~(barriers[i].status = "pending" /\ barriers[i].kind = "deleted")
  BY <1>2 DEF HistoryKept, CleanupForgettingBarrier
<1> QED BY <1>1, <1>2, Zenon

LEMMA StepKeepsHistory == Inv /\ [Next]_vars => HistoryKept
<1> SUFFICES ASSUME TypeInv, [Next]_vars PROVE HistoryKept
  BY DEF Inv
<1>1. CASE UNCHANGED revs
  BY <1>1 DEF HistoryKept
<1>2. ASSUME NEW r \in Receipts, Evidence(r) PROVE HistoryKept
  BY <1>1, <1>2, SubmitKeepsHistory, Zenon
     DEF Evidence, Accept, ConfirmFact, EstablishFact, ReviseFact, ExceptFact
<1>3. ASSUME NEW r \in Receipts, NEW T \in SUBSET Records, NEW ev \in [T -> SUBSET Citable(r)],
             ApplyStewardProposal(r, ev)
      PROVE  HistoryKept
  <2>1. \A x \in Records : \/ revs'[x] = revs[x]
                           \/ revs'[x] = Append(revs[x], StewardRevision(r, x, ev[x]))
    BY <1>3 DEF ApplyStewardProposal
  <2> QED BY <2>1, AppendKeepsHistory, Zenon DEF HistoryKept
<1>4. ASSUME NEW r \in Receipts, StewardStep(r) PROVE HistoryKept
  BY <1>1, <1>3, <1>4 DEF StewardStep, Claim, Release
<1>5. ASSUME NEW r \in Receipts, Govern(r) PROVE HistoryKept
  BY <1>1, <1>5 DEF Govern, DeleteReceipt, CorrectReceipt
<1>6. ASSUME NEW i \in handlers, HandlerCleans(i) \/ HandlerFails(i) PROVE HistoryKept
  BY <1>1, <1>6, CleanupKeepsHistory DEF HandlerCleans, HandlerFails, TypeInv
<1>7. CASE Restart
  BY <1>1, <1>7, CleanupKeepsHistory, Zenon DEF Restart, OpenStore, RecoverNext, Serve, Pending
<1>8. CASE Crash
  BY <1>1, <1>8 DEF Crash
<1> QED BY <1>1, <1>2, <1>4, <1>5, <1>6, <1>7, <1>8 DEF Next, vars

(* No step loses or rewrites a stored Revision, except that the cleansing   *)
(* erases Records under a deletion barrier: a correction keeps the history  *)
(* and cleanseDerivedHistory touches nothing the barrier does not name.     *)
THEOREM HistoryIsAppendOnly == Spec => OnlyDeletionErases
<1>1. Inv /\ [Next]_vars => [HistoryKept]_vars
  BY StepKeepsHistory
<1>2. Spec => [][HistoryKept]_vars
  BY <1>1, InvHolds, PTL DEF Spec
<1> QED BY <1>2 DEF OnlyDeletionErases, HistoryKept
=============================================================================

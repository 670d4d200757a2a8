----------------------------- MODULE FactsProofs -----------------------------
(***************************************************************************)
(* The facts of one subject and key stay one truth through every lifecycle *)
(* edit, for any conditions, intervals, instants and number of Records.    *)
(***************************************************************************)
EXTENDS Facts, TLAPS, FiniteSetTheorems, WellFoundedInduction

Revisions ==
    [adoption : {"pending", "confirmed", "denied"}, from : Times, until : Times,
     transition : Transitions]

FactRows ==
    [status : {"active", "invalidated"}, conditions : ConditionSets \union {{}}, related : Nat,
     revs : Seq(Revisions)]

IsDenied(revs) == revs[Len(revs)].transition = "deny"

(* The Revisions of a Record: a confirmation follows what was pending, and  *)
(* unless the Record is denied the intervals that count begin one after the *)
(* other.  Only the first of them may begin at an unknown time.             *)
History(revs) ==
    /\ revs \in Seq(Revisions) /\ revs # <<>>
    /\ \A i \in 1..(Len(revs) - 1) :
          revs[i + 1].transition = "confirm" => revs[i].adoption = "pending"
    /\ ~IsDenied(revs) =>
          \A i, j \in Effective(revs) : i < j =>
              /\ Known(revs[j].from)
              /\ Known(revs[i].from) => revs[i].from < revs[j].from

(* An exception is never changed, only corrected. *)
Corrections(revs) == \A i \in 1..(Len(revs) - 1) : revs[i + 1].transition = "correct"

RowOK(row) ==
    /\ History(row.revs)
    /\ row.status = "active" => ~IsDenied(row.revs)
    /\ row.related # 0 /\ ~IsDenied(row.revs) => Corrections(row.revs)

HeadOf(row) == row.revs[Len(row.revs)]
ConfirmedRow(row) == row.status = "active" /\ HeadOf(row).adoption = "confirmed"

Compatible(row, other) ==
    /\ row.related = 0 /\ other.related = 0 => row.conditions # other.conditions
    /\ row.related # 0 /\ row.related = other.related =>
          ~Overlap(<<HeadOf(row).from, HeadOf(row).until>>, <<HeadOf(other).from, HeadOf(other).until>>)

(* NoForkedTruth, of any table. *)
OneTruth(table) ==
    \A x, y \in DOMAIN table : x # y /\ ConfirmedRow(table[x]) /\ ConfirmedRow(table[y]) =>
        Compatible(table[x], table[y])

FactsOK(table) ==
    /\ table \in Seq(FactRows)
    /\ \A x \in DOMAIN table : RowOK(table[x])
    /\ OneTruth(table)

FactsInv == FactsOK(facts)

-----------------------------------------------------------------------------
(* A nonempty set of naturals has a least element. *)
LEMMA Least ==
    ASSUME NEW S \in SUBSET Nat, S # {}
    PROVE  \E n \in S : \A k \in S : n <= k
  <1> DEFINE R == OpToRel(<, Nat)
  <1>1. IsWellFoundedOn(R, Nat)
    BY NatLessThanWellFounded, Zenon
  <1>2. PICK n \in S : \A k \in S : ~(<<k, n>> \in R)
    <2> HIDE DEF R
    <2> QED  BY <1>1, WFMin, Zenon
  <1>3. \A k \in S : ~(k < n)
    BY <1>2, Zenon DEF OpToRel
  <1> QED  BY <1>3

LEMMA MinIsLeast ==
    ASSUME NEW S \in SUBSET Nat, S # {}
    PROVE  Min(S) \in S /\ \A k \in S : Min(S) <= k
  BY Least, Zenon DEF Min

LEMMA MaxIsGreatest ==
    ASSUME NEW n \in Nat, NEW S \in SUBSET (1..n), S # {}
    PROVE  Max(S) \in S /\ \A k \in S : k <= Max(S)
  <1> DEFINE D == {n - k : k \in S}
  <1>1. D \in SUBSET Nat /\ D # {}
    <2>1. \A k \in 1..n : n - k \in Nat
      OBVIOUS
    <2> QED  BY <2>1, Zenon
  <1>2. PICK d \in D : \A e \in D : d <= e
    <2> HIDE DEF D
    <2> QED  BY <1>1, Least
  <1>3. PICK m \in S : d = n - m
    BY <1>2
  <1>4. \A k \in S : n - k \in D
    OBVIOUS
  <1>5. \A k \in S : m >= k
    <2> HIDE DEF D
    <2> QED BY <1>2, <1>3, <1>4
  <1>6. Max(S) \in S /\ \A k \in S : Max(S) >= k
    BY <1>5, Zenon DEF Max
  <1> QED  BY <1>6

-----------------------------------------------------------------------------
(* Histories *)

LEMMA HistoryTypes ==
    ASSUME NEW revs, History(revs)
    PROVE  /\ Len(revs) \in Nat \ {0} /\ DOMAIN revs = 1..Len(revs)
           /\ \A i \in DOMAIN revs : /\ revs[i] \in Revisions
                                    /\ revs[i].from \in Times /\ revs[i].until \in Times
           /\ Effective(revs) \subseteq 1..Len(revs) /\ Len(revs) \in Effective(revs)
  <1>1. revs \in Seq(Revisions) /\ revs # <<>>
    BY DEF History
  <1>2. Len(revs) \in Nat \ {0} /\ DOMAIN revs = 1..Len(revs)
    BY <1>1
  <1>3. \A i \in DOMAIN revs : revs[i] \in Revisions
    BY <1>1
  <1>4. \A v \in Revisions : v.from \in Times /\ v.until \in Times
    BY DEF Revisions
  <1> QED  BY <1>2, <1>3, <1>4 DEF Effective

LEMMA TimesKnown ==
    ASSUME NEW t \in Times, Known(t) PROVE t \in Instants /\ t \in Nat \ {0}
  BY FactsAssumption DEF Times, Known, Instants

(* What one more Revision does to the intervals that count. *)
LEMMA EffectiveGrows ==
    ASSUME NEW revs, NEW w, NEW n \in Nat \ {0}, Len(revs) = n, DOMAIN revs = 1..n,
           Len(w) = n + 1, DOMAIN w = 1..(n + 1), \A i \in 1..n : w[i] = revs[i]
    PROVE  /\ n + 1 \in Effective(w)
           /\ n \in Effective(w) <=> w[n + 1].transition \notin {"correct", "confirm"}
           /\ \A i \in 1..(n - 1) : i \in Effective(w) <=> i \in Effective(revs)
  <1>1. n + 1 \in Effective(w)
    BY DEF Effective
  <1>2. n \in Effective(w) <=> w[n + 1].transition \notin {"correct", "confirm"}
    BY DEF Effective
  <1>3. ASSUME NEW i \in 1..(n - 1) PROVE i \in Effective(w) <=> i \in Effective(revs)
    <2>1. w[i + 1] = revs[i + 1] /\ i \in 1..n /\ i # n /\ i # n + 1 /\ i \in 1..(n + 1)
      OBVIOUS
    <2>2. i \in Effective(w) <=> w[i + 1].transition \notin {"correct", "confirm"}
      BY <2>1, Zenon DEF Effective
    <2>3. i \in Effective(revs) <=> revs[i + 1].transition \notin {"correct", "confirm"}
      BY <2>1, Zenon DEF Effective
    <2> QED BY <2>1, <2>2, <2>3, Zenon
  <1> QED  BY <1>1, <1>2, <1>3

LEMMA AppendRevision ==
    ASSUME NEW revs \in Seq(Revisions), revs # <<>>, NEW v \in Revisions,
           NEW w, w = Append(revs, v)
    PROVE  /\ w \in Seq(Revisions) /\ w # <<>>
           /\ Len(revs) \in Nat \ {0} /\ DOMAIN revs = 1..Len(revs)
           /\ Len(w) = Len(revs) + 1 /\ DOMAIN w = 1..(Len(revs) + 1)
           /\ \A i \in 1..Len(revs) : w[i] = revs[i]
           /\ w[Len(revs) + 1] = v
  OBVIOUS

(* Edits keep a history one, as long as the onset of a change follows that  *)
(* of what it changes, and that of a correction those before it.            *)
LEMMA HistoryGrows ==
    ASSUME NEW revs, History(revs), ~IsDenied(revs), NEW v \in Revisions,
           NEW n, n = Len(revs),
           v.transition \notin {"correct", "confirm", "deny"} =>
              Known(v.from) /\ (Known(revs[n].from) => revs[n].from < v.from),
           v.transition = "confirm" => revs[n].adoption = "pending" /\ v.from = revs[n].from,
           v.transition = "correct" =>
              \A i \in Effective(revs) \ {n} :
                 Known(v.from) /\ (Known(revs[i].from) => revs[i].from < v.from)
    PROVE  History(Append(revs, v))
  <1> DEFINE w == Append(revs, v)
  <1>1. revs \in Seq(Revisions) /\ revs # <<>>
    BY DEF History
  <1>2. /\ w \in Seq(Revisions) /\ w # <<>>
        /\ n \in Nat \ {0} /\ DOMAIN revs = 1..n
        /\ Len(w) = n + 1 /\ DOMAIN w = 1..(n + 1)
        /\ \A i \in 1..n : w[i] = revs[i]
        /\ w[n + 1] = v
    BY <1>1, AppendRevision
  <1> HIDE DEF w
  <1>3. \A i \in 1..n : w[i].from \in Times
    BY <1>2, HistoryTypes, Zenon
  <1>4. \A i \in 1..(Len(w) - 1) : w[i + 1].transition = "confirm" => w[i].adoption = "pending"
    <2> SUFFICES ASSUME NEW i \in 1..n, w[i + 1].transition = "confirm"
                 PROVE  w[i].adoption = "pending"
      BY <1>2
    <2>1. CASE i = n
      BY <1>2, <2>1
    <2>2. CASE i # n
      <3>1. i \in 1..(n - 1) /\ i + 1 \in 1..n
        BY <1>2, <2>2
      <3>2. w[i] = revs[i] /\ w[i + 1] = revs[i + 1]
        BY <1>2, <3>1
      <3> QED BY <3>1, <3>2 DEF History
    <2> QED BY <2>1, <2>2
  <1>5. ASSUME ~IsDenied(w), NEW i \in Effective(w), NEW j \in Effective(w), i < j
        PROVE  Known(w[j].from) /\ (Known(w[i].from) => w[i].from < w[j].from)
    <2>1. i \in 1..n /\ j \in 1..(n + 1) /\ j \in 2..(n + 1)
      BY <1>2, <1>5 DEF Effective
    <2>2. v.transition # "deny"
      BY <1>2, <1>5 DEF IsDenied
    <2>3. \A k \in 1..(n - 1) : k \in Effective(w) <=> k \in Effective(revs)
      BY <1>2, EffectiveGrows, Zenon
    <2>4. n \in Effective(w) <=> v.transition \notin {"correct", "confirm"}
      BY <1>2, EffectiveGrows
    <2>5. n \in Effective(revs)
      BY <1>2 DEF Effective
    <2>6. \A k, l \in Effective(revs) : k < l =>
             Known(revs[l].from) /\ (Known(revs[k].from) => revs[k].from < revs[l].from)
      BY DEF History
    <2>7. CASE j <= n
      <3>1. i \in 1..(n - 1) /\ i \in Effective(revs)
        BY <1>2, <1>5, <2>1, <2>3, <2>7
      <3>2. j \in 1..n /\ j \in Effective(revs)
        BY <1>2, <1>5, <2>1, <2>3, <2>5, <2>7
      <3>3. w[i] = revs[i] /\ w[j] = revs[j]
        BY <1>2, <2>1, <3>2
      <3> QED BY <1>5, <2>6, <3>1, <3>2, <3>3, Zenon
    <2>8. CASE j = n + 1 /\ i < n
      <3>1. i \in 1..(n - 1) /\ i \in Effective(revs)
        BY <1>2, <1>5, <2>1, <2>3, <2>8
      <3>2. Known(revs[n].from) /\ (Known(revs[i].from) => revs[i].from < revs[n].from)
        BY <2>5, <2>6, <2>8, <3>1, Zenon
      <3>3. w[i] = revs[i] /\ w[j] = v /\ i \in Effective(revs) \ {n}
        BY <1>2, <2>1, <2>8, <3>1
      <3>4. CASE v.transition \notin {"correct", "confirm"}
        <4>1. Known(v.from) /\ revs[n].from < v.from
          BY <2>2, <3>2, <3>4
        <4>2. revs[n].from \in Instants /\ v.from \in Instants
              /\ (Known(revs[i].from) => revs[i].from \in Instants)
          <5>1. revs[n].from \in Times /\ revs[i].from \in Times /\ v.from \in Times
            BY <1>2, <1>3, <2>1, <3>3 DEF Revisions
          <5> QED BY <3>2, <4>1, <5>1, TimesKnown
        <4> QED BY <3>2, <3>3, <4>1, <4>2 DEF Instants
      <3>5. CASE v.transition = "confirm"
        BY <3>2, <3>3, <3>5
      <3>6. CASE v.transition = "correct"
        BY <3>3, <3>6
      <3> QED BY <3>4, <3>5, <3>6
    <2>9. CASE j = n + 1 /\ i = n
      <3>1. v.transition \notin {"correct", "confirm"}
        BY <1>5, <2>4, <2>9
      <3>2. w[i] = revs[n] /\ w[j] = v
        BY <1>2, <2>1, <2>9
      <3> QED BY <2>2, <3>1, <3>2
    <2> QED BY <1>2, <1>5, <2>1, <2>7, <2>8, <2>9
  <1>6. History(w)
    BY <1>2, <1>4, <1>5, Zenon DEF History
  <1> QED  BY <1>6 DEF w

LEMMA TimelineEntry ==
    ASSUME NEW revs, NEW i \in DOMAIN revs
    PROVE  /\ DOMAIN FactTimeline(revs) = DOMAIN revs
           /\ FactTimeline(revs)[i].from = revs[i].from
           /\ FactTimeline(revs)[i].state = HistoricalState(revs, i)
           /\ FactTimeline(revs)[i].adoption =
                 IF HistoricalState(revs, i) = "denied" THEN "denied" ELSE revs[i].adoption
           /\ FactTimeline(revs)[i].until =
                 IF i \in Effective(revs) /\ {j \in Effective(revs) : j > i} # {}
                 THEN Cut(revs[i].until, revs[Min({j \in Effective(revs) : j > i})].from)
                 ELSE revs[i].until
  BY Zenon DEF FactTimeline

(* The Revisions that the timeline calls changed are those that count, but  *)
(* for the last.                                                            *)
LEMMA ChangedEntries ==
    ASSUME NEW revs, History(revs), ~IsDenied(revs)
    PROVE  {i \in DOMAIN FactTimeline(revs) : FactTimeline(revs)[i].state = "changed"}
              = Effective(revs) \ {Len(revs)}
  <1>1. /\ Len(revs) \in Nat \ {0} /\ DOMAIN revs = 1..Len(revs)
        /\ Effective(revs) \subseteq 1..Len(revs)
    BY HistoryTypes
  <1>2. ASSUME NEW i \in DOMAIN revs
        PROVE  HistoricalState(revs, i) = "changed" <=> i \in Effective(revs) \ {Len(revs)}
    <2>1. i < Len(revs) <=> i # Len(revs)
      BY <1>1
    <2>2. revs[i + 1].transition = "correct" /\ i # Len(revs) => i \notin Effective(revs)
      BY <1>1 DEF Effective
    <2> QED BY <2>1, <2>2 DEF HistoricalState, IsDenied
  <1>3. DOMAIN FactTimeline(revs) = DOMAIN revs
    BY Zenon DEF FactTimeline
  <1>4. \A i \in DOMAIN revs : FactTimeline(revs)[i].state = HistoricalState(revs, i)
    BY TimelineEntry, Zenon
  <1> QED  BY <1>1, <1>2, <1>3, <1>4

(* What a read may adopt counts, in a Record that is not denied. *)
LEMMA AdoptedCounts ==
    ASSUME NEW revs, History(revs), NEW i \in DOMAIN revs, Adopted(FactTimeline(revs)[i])
    PROVE  ~IsDenied(revs) /\ i \in Effective(revs) /\ revs[i].adoption = "confirmed"
  <1>1. /\ Len(revs) \in Nat \ {0} /\ DOMAIN revs = 1..Len(revs)
        /\ Len(revs) \in Effective(revs)
    BY HistoryTypes
  <1>2. /\ HistoricalState(revs, i) # "corrected"
        /\ HistoricalState(revs, i) # "denied" /\ revs[i].adoption = "confirmed"
    BY TimelineEntry, Zenon DEF Adopted
  <1>3. ~IsDenied(revs)
    BY <1>2 DEF HistoricalState, IsDenied
  <1>4. CASE i = Len(revs)
    BY <1>1, <1>2, <1>3, <1>4
  <1>5. CASE i # Len(revs)
    <2>1. i < Len(revs) /\ i \in 1..(Len(revs) - 1)
      BY <1>1, <1>5
    <2>2. revs[i + 1].transition # "correct"
      BY <1>2, <1>3, <2>1 DEF HistoricalState, IsDenied
    <2>3. revs[i + 1].transition # "confirm"
      BY <1>2, <2>1 DEF History
    <2> QED BY <1>2, <1>3, <2>2, <2>3 DEF Effective
  <1> QED  BY <1>4, <1>5

(* An interval that counts ends, at the latest, where the next one begins.  *)
LEMMA CutIsEarlier ==
    ASSUME NEW until \in Times, NEW onset \in Times, Known(onset)
    PROVE  /\ Known(Cut(until, onset)) /\ Cut(until, onset) \in Instants
           /\ Cut(until, onset) <= onset
  BY TimesKnown DEF Cut, Instants

LEMMA EndsBeforeLater ==
    ASSUME NEW revs, History(revs), ~IsDenied(revs),
           NEW i \in Effective(revs), NEW k \in Effective(revs), i < k
    PROVE  LET end == FactTimeline(revs)[i].until
           IN  /\ Known(end) /\ end \in Instants
               /\ revs[k].from \in Instants /\ Known(revs[k].from) /\ end <= revs[k].from
  <1> DEFINE later == {l \in Effective(revs) : l > i}
             j == Min(later)
  <1>1. /\ Len(revs) \in Nat \ {0} /\ DOMAIN revs = 1..Len(revs)
        /\ \A l \in DOMAIN revs : revs[l].from \in Times /\ revs[l].until \in Times
        /\ Effective(revs) \subseteq 1..Len(revs)
    BY HistoryTypes
  <1>2. \A k1, l1 \in Effective(revs) : k1 < l1 =>
           Known(revs[l1].from) /\ (Known(revs[k1].from) => revs[k1].from < revs[l1].from)
    BY DEF History
  <1>3. k \in later /\ later \in SUBSET Nat
    BY <1>1
  <1>4. j \in later /\ j <= k
    <2> HIDE DEF later
    <2> QED BY <1>3, MinIsLeast
  <1>5. j \in Effective(revs) /\ i < j
    BY <1>1, <1>4
  <1>6. FactTimeline(revs)[i].until = Cut(revs[i].until, revs[j].from)
    <2>1. i \in DOMAIN revs /\ later # {}
      BY <1>1, <1>3
    <2> QED BY <2>1, TimelineEntry, Zenon
  <1> HIDE DEF j, later
  <1>7. Known(revs[j].from) /\ Known(revs[k].from)
    BY <1>2, <1>5, Zenon
  <1>8. revs[j].from \in Instants /\ revs[k].from \in Instants
    BY <1>1, <1>5, <1>7, TimesKnown
  <1>9. revs[j].from <= revs[k].from
    <2>1. j = k \/ j < k
      BY <1>1, <1>4, <1>5
    <2>2. j = k \/ revs[j].from < revs[k].from
      BY <1>2, <1>5, <1>7, <2>1, Zenon
    <2> QED BY <1>8, <2>2 DEF Instants
  <1>10. /\ Known(Cut(revs[i].until, revs[j].from)) /\ Cut(revs[i].until, revs[j].from) \in Instants
         /\ Cut(revs[i].until, revs[j].from) <= revs[j].from
    BY <1>1, <1>5, <1>7, CutIsEarlier
  <1> QED  BY <1>6, <1>7, <1>8, <1>9, <1>10 DEF Instants

LEMMA OneAdopted ==
    ASSUME NEW revs, History(revs), NEW t \in Instants,
           NEW i \in DOMAIN revs, NEW k \in DOMAIN revs, i < k,
           Adopted(FactTimeline(revs)[i]), Adopted(FactTimeline(revs)[k]),
           Covers(FactTimeline(revs)[i], t), Covers(FactTimeline(revs)[k], t)
    PROVE  FALSE
  <1>1. ~IsDenied(revs) /\ i \in Effective(revs) /\ k \in Effective(revs)
    BY AdoptedCounts
  <1> DEFINE end == FactTimeline(revs)[i].until
  <1>2. /\ Known(end) /\ end \in Instants
        /\ revs[k].from \in Instants /\ Known(revs[k].from) /\ end <= revs[k].from
    BY <1>1, EndsBeforeLater
  <1>3. ~(end <= t)
    BY <1>2, Zenon DEF Covers
  <1>4. ~(revs[k].from > t)
    <2>1. FactTimeline(revs)[k].from = revs[k].from
      BY TimelineEntry, Zenon
    <2> QED BY <1>2, <2>1, Zenon DEF Covers
  <1> HIDE DEF end
  <1> QED  BY <1>2, <1>3, <1>4 DEF Instants

LEMMA InvOneValue == FactsInv => OneValuePerInstant
  <1> SUFFICES ASSUME FactsInv, NEW x \in DOMAIN facts, NEW t \in Instants
               PROVE  Cardinality(InForce(x, t, FALSE)) <= 1
    BY Zenon DEF OneValuePerInstant
  <1> DEFINE revs == facts[x].revs
             S == InForce(x, t, FALSE)
  <1>1. History(revs) /\ DOMAIN revs = 1..Len(revs) /\ Len(revs) \in Nat
    BY HistoryTypes DEF FactsInv, FactsOK, RowOK
  <1>2. \A i \in S : /\ i \in DOMAIN revs
                     /\ Adopted(FactTimeline(revs)[i]) /\ Covers(FactTimeline(revs)[i], t)
    <2>1. DOMAIN FactTimeline(revs) = DOMAIN revs
      BY Zenon DEF FactTimeline
    <2> QED BY <2>1, Zenon DEF InForce
  <1> HIDE DEF revs, S
  <1>3. \A i, k \in S : i = k
    <2> SUFFICES ASSUME NEW i \in S, NEW k \in S PROVE ~(i < k) /\ ~(k < i)
      BY <1>1, <1>2
    <2> QED BY <1>1, <1>2, OneAdopted
  <1>4. Cardinality(S) <= 1
    <2>1. CASE S = {}
      BY <2>1, FS_EmptySet
    <2>2. CASE S # {}
      <3>1. PICK i : S = {i}
        BY <1>3, <2>2
      <3>2. Cardinality({i}) = 1
        BY FS_Singleton, Zenon
      <3> QED BY <3>1, <3>2
    <2> QED BY <2>1, <2>2
  <1> QED  BY <1>4, Zenon DEF S

(* A boundary of the timeline is an instant or unknown. *)
LEMMA TimelineTimes ==
    ASSUME NEW revs, History(revs), NEW i \in DOMAIN revs
    PROVE  FactTimeline(revs)[i].from \in Times /\ FactTimeline(revs)[i].until \in Times
  <1> DEFINE later == {l \in Effective(revs) : l > i}
             j == Min(later)
  <1>1. /\ DOMAIN revs = 1..Len(revs)
        /\ \A l \in DOMAIN revs : revs[l].from \in Times /\ revs[l].until \in Times
        /\ Effective(revs) \subseteq 1..Len(revs) /\ Len(revs) \in Nat
    BY HistoryTypes
  <1>2. FactTimeline(revs)[i].from \in Times
    BY <1>1, TimelineEntry, Zenon
  <1>3. CASE i \in Effective(revs) /\ later # {}
    <2>1. later \in SUBSET Nat
      BY <1>1
    <2>2. j \in later
      <3> HIDE DEF later
      <3> QED BY <1>3, <2>1, MinIsLeast
    <2>3. revs[j].from \in Times /\ revs[i].until \in Times
      BY <1>1, <2>2
    <2>4. FactTimeline(revs)[i].until = Cut(revs[i].until, revs[j].from)
      BY <1>3, TimelineEntry, Zenon
    <2> HIDE DEF j
    <2> QED BY <1>2, <2>3, <2>4 DEF Cut
  <1>4. CASE ~(i \in Effective(revs) /\ later # {})
    <2>1. FactTimeline(revs)[i].until = revs[i].until
      BY <1>4, TimelineEntry, Zenon
    <2> QED BY <1>1, <1>2, <2>1
  <1> QED  BY <1>3, <1>4

LEMMA BoundaryOf ==
    ASSUME NEW context, NEW b
    PROVE  b \in Boundaries(context) <=>
              /\ b # Unknown
              /\ \E x \in Matching(context) : \E i \in DOMAIN FactTimeline(facts[x].revs) :
                    LET e == FactTimeline(facts[x].revs)[i]
                    IN  Adopted(e) /\ (b = e.from \/ b = e.until)
  <1>1. b \in Boundaries(context) <=>
           b # Unknown /\ \E x \in Matching(context) : b \in BoundariesOf(x)
    BY Zenon DEF Boundaries
  <1>2. ASSUME NEW x
        PROVE  b \in BoundariesOf(x) <=>
               \E i \in DOMAIN FactTimeline(facts[x].revs) :
                  LET e == FactTimeline(facts[x].revs)[i]
                  IN  Adopted(e) /\ (b = e.from \/ b = e.until)
    BY DEF BoundariesOf
  <1> QED  BY <1>1, <1>2, Zenon

LEMMA InvRefresh == FactsInv => RefreshIsEnough
  <1> SUFFICES ASSUME FactsInv, NEW context \in Contexts, NEW t \in Instants,
                      t + 1 < RefreshAt(context, t)
               PROVE  ReadFacts(context, t + 1, FALSE) = ReadFacts(context, t, FALSE)
    BY Zenon DEF RefreshIsEnough
  <1> DEFINE h(x) == FactTimeline(facts[x].revs)
             bs == Boundaries(context)
             S == {MaxTime + 1} \union {b \in bs : b > t}
  <1>1. \A x \in Matching(context) : x \in DOMAIN facts /\ History(facts[x].revs)
    BY DEF FactsInv, FactsOK, RowOK, Matching, Active
  <1>2. \A x \in Matching(context) : \A i \in DOMAIN h(x) :
           h(x)[i].from \in Times /\ h(x)[i].until \in Times
    <2>1. \A x : DOMAIN h(x) = DOMAIN facts[x].revs
      BY Zenon DEF FactTimeline
    <2> QED BY <1>1, <2>1, TimelineTimes
  <1>3. \A x \in Matching(context) : \A i \in DOMAIN h(x) : Adopted(h(x)[i]) =>
           /\ Known(h(x)[i].from) => h(x)[i].from \in bs
           /\ Known(h(x)[i].until) => h(x)[i].until \in bs
    BY BoundaryOf, Zenon DEF Known
  <1>4. bs \subseteq Nat
    <2> SUFFICES ASSUME NEW b \in bs PROVE b \in Nat
      OBVIOUS
    <2>1. b # Unknown
      BY BoundaryOf, Zenon
    <2>2. PICK x \in Matching(context) : \E i \in DOMAIN h(x) : b = h(x)[i].from \/ b = h(x)[i].until
      BY BoundaryOf
    <2>3. b \in Times
      BY <1>2, <2>2, Zenon
    <2> QED BY <2>1, <2>3, TimesKnown DEF Known
  <1>5. t + 1 \notin bs
    <2>1. t \in Nat /\ S \in SUBSET Nat /\ S # {}
      BY <1>4, FactsAssumption DEF Instants
    <2>2. RefreshAt(context, t) = Min(S)
      BY Zenon DEF RefreshAt
    <2>3. t + 1 \in bs => t + 1 \in S
      BY <2>1
    <2>4. Min(S) \in Nat /\ (t + 1 \in S => Min(S) <= t + 1)
      <3> HIDE DEF S
      <3> QED BY <2>1, MinIsLeast, Zenon
    <2> HIDE DEF S, bs
    <2> QED BY <2>1, <2>2, <2>3, <2>4
  <1>6. ASSUME NEW x \in Matching(context), NEW i \in DOMAIN h(x), Adopted(h(x)[i])
        PROVE  Covers(h(x)[i], t + 1) <=> Covers(h(x)[i], t)
    <2> DEFINE e == h(x)[i]
    <2>1. /\ Known(e.from) => e.from \in bs
          /\ Known(e.until) => e.until \in bs
      BY <1>3, <1>6, Zenon
    <2> HIDE DEF e, bs
    <2>2. t \in Nat
      BY DEF Instants
    <2>3. Covers(e, t + 1) <=> Covers(e, t)
      <3>1. /\ Known(e.from) => e.from \in Nat /\ e.from # t + 1
            /\ Known(e.until) => e.until \in Nat /\ e.until # t + 1
        BY <1>4, <1>5, <2>1, Zenon
      <3>2. Known(e.from) => (e.from > t + 1 <=> e.from > t)
        BY <2>2, <3>1
      <3>3. Known(e.until) => (e.until <= t + 1 <=> e.until <= t)
        BY <2>2, <3>1
      <3> QED BY <3>2, <3>3, Zenon DEF Covers
    <2> QED BY <2>3 DEF e
  <1>7. \A x \in Matching(context) : InForce(x, t + 1, FALSE) = InForce(x, t, FALSE)
    BY <1>6 DEF InForce
  <1>8. Candidates(context, t + 1, FALSE) = Candidates(context, t, FALSE)
    BY <1>7, Zenon DEF Candidates
  <1> QED  BY <1>8, Zenon DEF ReadFacts

-----------------------------------------------------------------------------
(* Tables *)

LEMMA TruthOfTable == (NoForkedTruth <=> OneTruth(facts)) /\ (NoForkedTruth' <=> OneTruth(facts)')
  <1>1. NoForkedTruth <=> OneTruth(facts)
    BY Zenon DEF NoForkedTruth, OneTruth, Confirmed, ConfirmedRow, Compatible, HeadOf, FactHead, Base, Active
  <1>2. NoForkedTruth' <=> OneTruth(facts)'
    BY Zenon DEF NoForkedTruth, OneTruth, Confirmed, ConfirmedRow, Compatible, HeadOf, FactHead, Base, Active
  <1> QED  BY <1>1, <1>2

LEMMA CompatibleBothWays ==
    ASSUME NEW row, NEW other, Compatible(row, other) PROVE Compatible(other, row)
  BY DEF Compatible, Overlap

LEMMA AppendOK ==
    ASSUME NEW table, FactsOK(table), NEW row \in FactRows, RowOK(row),
           ConfirmedRow(row) => \A y \in DOMAIN table : ConfirmedRow(table[y]) => Compatible(row, table[y])
    PROVE  FactsOK(Append(table, row))
  <1> DEFINE w == Append(table, row)
             n == Len(table)
  <1>1. /\ w \in Seq(FactRows) /\ n \in Nat /\ DOMAIN table = 1..n /\ DOMAIN w = 1..(n + 1)
        /\ \A x \in 1..n : w[x] = table[x]
        /\ w[n + 1] = row
    BY DEF FactsOK
  <1> HIDE DEF w, n
  <1>2. \A x \in DOMAIN w : x = n + 1 \/ x \in DOMAIN table
    BY <1>1
  <1>3. \A x \in DOMAIN w : RowOK(w[x])
    BY <1>1, <1>2 DEF FactsOK
  <1>4. OneTruth(w)
    <2> SUFFICES ASSUME NEW x \in DOMAIN w, NEW y \in DOMAIN w, x # y,
                        ConfirmedRow(w[x]), ConfirmedRow(w[y])
                 PROVE  Compatible(w[x], w[y])
      BY Zenon DEF OneTruth
    <2>1. CASE x = n + 1
      BY <1>1, <1>2, <2>1
    <2>2. CASE y = n + 1
      <3>1. x \in DOMAIN table /\ w[x] = table[x] /\ w[y] = row
        BY <1>1, <1>2, <2>2
      <3>2. Compatible(w[y], w[x])
        BY <3>1, Zenon
      <3> QED BY <3>2, CompatibleBothWays, Zenon
    <2>3. CASE x \in DOMAIN table /\ y \in DOMAIN table
      BY <1>1, <2>3 DEF FactsOK, OneTruth
    <2> QED BY <1>2, <2>1, <2>2, <2>3
  <1>5. FactsOK(w)
    BY <1>1, <1>3, <1>4 DEF FactsOK
  <1> QED  BY <1>5 DEF w

LEMMA ReplaceOK ==
    ASSUME NEW table, FactsOK(table), NEW z \in DOMAIN table, NEW row \in FactRows, RowOK(row),
           ConfirmedRow(row) =>
              \A y \in DOMAIN table \ {z} : ConfirmedRow(table[y]) => Compatible(row, table[y])
    PROVE  FactsOK([table EXCEPT ![z] = row])
  <1> DEFINE w == [table EXCEPT ![z] = row]
  <1>1. /\ w \in Seq(FactRows) /\ DOMAIN w = DOMAIN table
        /\ \A x \in DOMAIN table \ {z} : w[x] = table[x]
        /\ w[z] = row
    BY DEF FactsOK
  <1> HIDE DEF w
  <1>2. \A x \in DOMAIN w : RowOK(w[x])
    BY <1>1 DEF FactsOK
  <1>3. OneTruth(w)
    <2> SUFFICES ASSUME NEW x \in DOMAIN w, NEW y \in DOMAIN w, x # y,
                        ConfirmedRow(w[x]), ConfirmedRow(w[y])
                 PROVE  Compatible(w[x], w[y])
      BY Zenon DEF OneTruth
    <2>1. CASE x = z
      BY <1>1, <2>1
    <2>2. CASE y = z
      <3>1. x \in DOMAIN table \ {z} /\ w[x] = table[x] /\ w[y] = row
        BY <1>1, <2>2
      <3>2. Compatible(w[y], w[x])
        BY <3>1, Zenon
      <3> QED BY <3>2, CompatibleBothWays, Zenon
    <2>3. CASE x # z /\ y # z
      BY <1>1, <2>3 DEF FactsOK, OneTruth
    <2> QED BY <2>1, <2>2, <2>3
  <1>4. FactsOK(w)
    BY <1>1, <1>2, <1>3 DEF FactsOK
  <1> QED  BY <1>4 DEF w

-----------------------------------------------------------------------------
(* Edits *)

LEMMA MutationTypes ==
    ASSUME NEW T \in SUBSET Transitions, NEW X, NEW m \in Mutations(T, X)
    PROVE  /\ m.transition \in T /\ m.target \in X /\ m.conditions \in ConditionSets
           /\ m.interval \in Intervals /\ m.interval[1] \in Times /\ m.interval[2] \in Times
  <1>1. /\ m.transition \in T /\ m.target \in X /\ m.conditions \in ConditionSets
        /\ m.interval \in Intervals
    BY DEF Mutations
  <1>2. m.interval \in Times \X Times
    BY <1>1, FactsAssumption, Zenon
  <1> QED  BY <1>1, <1>2

LEMMA RevisionFields ==
    ASSUME NEW adoption \in {"pending", "confirmed", "denied"}, NEW transition \in Transitions,
           NEW interval, interval[1] \in Times, interval[2] \in Times,
           NEW v, v = Revision(adoption, interval, transition)
    PROVE  /\ v \in Revisions
           /\ v.adoption = adoption /\ v.transition = transition
           /\ v.from = interval[1] /\ v.until = interval[2]
  BY DEF Revision, Revisions

LEMMA AdoptionTypes ==
    \A role, transition : AdoptionOf(role, transition) \in {"pending", "confirmed", "denied"}
  BY Zenon DEF AdoptionOf

(* A Record of one Revision. *)
LEMMA NewRow ==
    ASSUME NEW v \in Revisions, v.transition # "deny", NEW related \in Nat,
           NEW conditions \in ConditionSets \union {{}},
           NEW row, row = [status |-> "active", conditions |-> conditions, related |-> related,
                           revs |-> <<v>>]
    PROVE  /\ row \in FactRows /\ RowOK(row)
           /\ HeadOf(row) = v /\ row.related = related /\ row.conditions = conditions
  <1> DEFINE w == <<v>>
  <1>1. w \in Seq(Revisions) /\ w # <<>> /\ Len(w) = 1 /\ DOMAIN w = 1..1 /\ w[1] = v
    OBVIOUS
  <1>2. row.revs = w /\ row.related = related /\ row.conditions = conditions /\ row.status = "active"
    OBVIOUS
  <1>3. row \in FactRows
    BY <1>1 DEF FactRows
  <1> HIDE DEF w
  <1>4. Effective(w) \subseteq {1}
    BY <1>1 DEF Effective
  <1>5. History(w) /\ ~IsDenied(w) /\ Corrections(w)
    BY <1>1, <1>4 DEF History, IsDenied, Corrections
  <1> QED  BY <1>1, <1>2, <1>3, <1>5 DEF RowOK, HeadOf

LEMMA EstablishKeeps ==
    ASSUME FactsInv, NEW role \in Roles, NEW m \in Mutations({"establish"}, {0}),
           SubmitMutation(role, m)
    PROVE  FactsInv'
  <1> DEFINE adoption == AdoptionOf(role, "establish")
             v == Revision(adoption, m.interval, "establish")
             row == [status |-> "active", conditions |-> m.conditions, related |-> 0, revs |-> <<v>>]
  <1>1. /\ m.transition = "establish" /\ m.target = 0 /\ m.conditions \in ConditionSets
        /\ m.interval[1] \in Times /\ m.interval[2] \in Times
    BY MutationTypes DEF Transitions
  <1>2. IntervalOf(m) = m.interval /\ RelatedOf(m) = 0
    BY <1>1 DEF IntervalOf, RelatedOf
  <1>3. facts' = Append(facts, row)
    BY <1>1, <1>2 DEF SubmitMutation, Create
  <1>4. v \in Revisions /\ v.transition = "establish"
    BY <1>1, AdoptionTypes, RevisionFields DEF Transitions
  <1> HIDE DEF v
  <1>5. /\ row \in FactRows /\ RowOK(row)
        /\ row.related = 0 /\ row.conditions = m.conditions
    BY <1>1, <1>4, NewRow
  <1>6. ASSUME NEW y \in DOMAIN facts, ConfirmedRow(facts[y]) PROVE Compatible(row, facts[y])
    <2>1. ~(facts[y].related = 0 /\ facts[y].conditions = m.conditions)
      BY <1>1, <1>6, Zenon DEF SubmitMutation, EstablishIsFree, ConfirmedRow, Active, Base
    <2> HIDE DEF row
    <2> QED BY <1>5, <2>1 DEF Compatible
  <1> HIDE DEF row
  <1> QED  BY <1>3, <1>5, <1>6, AppendOK DEF FactsInv

LEMMA StewardAddKeeps == ASSUME FactsInv, StewardAdd PROVE FactsInv'
  <1> DEFINE v == Revision("pending", <<Unknown, Unknown>>, "establish")
             row == [status |-> "active", conditions |-> {}, related |-> 0, revs |-> <<v>>]
  <1>1. facts' = Append(facts, row)
    BY DEF StewardAdd, Create
  <1>2. v \in Revisions /\ v.transition = "establish" /\ v.adoption = "pending"
    BY RevisionFields DEF Transitions, Times
  <1> HIDE DEF v
  <1>3. row \in FactRows /\ RowOK(row) /\ HeadOf(row) = v
    BY <1>2, NewRow
  <1>4. ~ConfirmedRow(row)
    BY <1>2, <1>3 DEF ConfirmedRow
  <1> HIDE DEF row
  <1> QED  BY <1>1, <1>3, <1>4, AppendOK DEF FactsInv

(* The Record that an edit names. *)
LEMMA TargetOf ==
    ASSUME FactsInv, NEW m \in Mutations(Transitions \ {"establish"}, Active)
    PROVE  LET z == m.target IN
           /\ z \in DOMAIN facts /\ z \in Nat \ {0} /\ facts[z] \in FactRows /\ RowOK(facts[z])
           /\ facts[z].status = "active" /\ History(facts[z].revs) /\ ~IsDenied(facts[z].revs)
           /\ FactHead(z) = HeadOf(facts[z])
           /\ HeadOf(facts[z]).from \in Times /\ HeadOf(facts[z]).until \in Times
  <1> DEFINE z == m.target
  <1>1. z \in Active
    BY MutationTypes
  <1>2. z \in DOMAIN facts /\ facts[z].status = "active"
    BY <1>1 DEF Active
  <1>3. facts \in Seq(FactRows) /\ RowOK(facts[z])
    BY <1>2 DEF FactsInv, FactsOK
  <1> HIDE DEF z
  <1>4. z \in Nat \ {0} /\ facts[z] \in FactRows
    BY <1>2, <1>3
  <1>5. History(facts[z].revs) /\ ~IsDenied(facts[z].revs)
    BY <1>2, <1>3 DEF RowOK
  <1>6. HeadOf(facts[z]).from \in Times /\ HeadOf(facts[z]).until \in Times
    BY <1>5, HistoryTypes DEF HeadOf
  <1> QED  BY <1>2, <1>3, <1>4, <1>5, <1>6 DEF z, FactHead, HeadOf

LEMMA ExceptionKeeps ==
    ASSUME FactsInv, NEW m \in Mutations(Transitions \ {"establish"}, Active),
           m.transition = "exception", SubmitMutation("confirmation", m)
    PROVE  FactsInv'
  <1> DEFINE z == m.target
             v == Revision("confirmed", m.interval, "exception")
             row == [status |-> "active", conditions |-> m.conditions, related |-> z, revs |-> <<v>>]
  <1>1. /\ m.conditions \in ConditionSets
        /\ m.interval[1] \in Times /\ m.interval[2] \in Times
    BY MutationTypes
  <1>2. z \in DOMAIN facts /\ z \in Nat \ {0}
    BY TargetOf, Zenon
  <1>3. /\ IntervalOf(m) = m.interval /\ RelatedOf(m) = z
        /\ AdoptionOf("confirmation", m.transition) = "confirmed"
    BY DEF IntervalOf, RelatedOf, AdoptionOf
  <1>4. facts' = Append(facts, row)
    BY <1>3 DEF SubmitMutation, Create
  <1>5. v \in Revisions /\ v.transition = "exception" /\ v.from = m.interval[1] /\ v.until = m.interval[2]
    BY <1>1, RevisionFields DEF Transitions
  <1> HIDE DEF v
  <1>6. row \in FactRows /\ RowOK(row) /\ row.related = z /\ HeadOf(row) = v
    BY <1>1, <1>2, <1>5, NewRow
  <1>7. facts[z].related = 0
    BY <1>2 DEF SubmitMutation, ExceptionStays, Base
  <1>8. ASSUME NEW y \in DOMAIN facts, ConfirmedRow(facts[y]) PROVE Compatible(row, facts[y])
    <2> SUFFICES ASSUME facts[y].related = z
                 PROVE  ~Overlap(<<v.from, v.until>>, <<HeadOf(facts[y]).from, HeadOf(facts[y]).until>>)
      <3> HIDE DEF row
      <3> QED BY <1>2, <1>6 DEF Compatible
    <2>1. y \in Active \ {z} /\ FactHead(y).adoption = "confirmed"
      BY <1>2, <1>7, <1>8 DEF ConfirmedRow, HeadOf, FactHead, Active
    <2>2. ~Overlap(m.interval, <<FactHead(y).from, FactHead(y).until>>)
      BY <1>2, <1>3, <2>1, Zenon DEF SubmitMutation, OverlapsException
    <2> QED BY <1>5, <2>2 DEF Overlap, HeadOf, FactHead
  <1> HIDE DEF row
  <1> QED  BY <1>4, <1>6, <1>8, AppendOK DEF FactsInv

(* What an edit of a Record writes is a Revision, and in the right order.   *)
LEMMA EditedRevision ==
    ASSUME FactsInv, NEW m \in Mutations(Transitions \ {"establish"}, Active),
           m.transition # "exception", SubmitMutation("confirmation", m),
           NEW v, v = Revision(AdoptionOf("confirmation", m.transition), IntervalOf(m), m.transition)
    PROVE  /\ v \in Revisions /\ v.transition = m.transition
           /\ m.transition # "deny" => v.adoption = "confirmed"
           /\ m.transition = "correct" => v.from = m.interval[1] /\ v.until = m.interval[2]
           /\ History(Append(facts[m.target].revs, v))
  <1> DEFINE z == m.target
             revs == facts[z].revs
             n == Len(revs)
  <1>1. /\ m.transition \in {"change", "correct", "confirm", "deny"}
        /\ m.interval[1] \in Times /\ m.interval[2] \in Times
    BY MutationTypes DEF Transitions
  <1>2. /\ z \in DOMAIN facts /\ z \in Nat \ {0} /\ History(revs) /\ ~IsDenied(revs) /\ RowOK(facts[z])
        /\ FactHead(z) = revs[n] /\ revs[n].from \in Times /\ revs[n].until \in Times
    BY TargetOf, Zenon DEF HeadOf
  <1>3. IntervalOf(m)[1] \in Times /\ IntervalOf(m)[2] \in Times
    BY <1>1, <1>2 DEF IntervalOf, Times
  <1>4. /\ v \in Revisions /\ v.transition = m.transition
        /\ v.adoption = AdoptionOf("confirmation", m.transition)
        /\ v.from = IntervalOf(m)[1] /\ v.until = IntervalOf(m)[2]
    BY <1>1, <1>3, AdoptionTypes, RevisionFields DEF Transitions
  <1>5. m.transition # "deny" => v.adoption = "confirmed"
    BY <1>4 DEF AdoptionOf
  <1>6. m.transition = "correct" => v.from = m.interval[1] /\ v.until = m.interval[2]
    BY <1>4 DEF IntervalOf
  <1>7. m.transition = "change" => Known(v.from) /\ (Known(revs[n].from) => revs[n].from < v.from)
    <2> SUFFICES ASSUME m.transition = "change"
                 PROVE  Known(v.from) /\ (Known(revs[n].from) => revs[n].from < v.from)
      OBVIOUS
    <2>1. v.from = m.interval[1]
      BY <1>4 DEF IntervalOf
    <2>2. Known(m.interval[1]) /\ (Known(FactHead(z).from) => m.interval[1] > FactHead(z).from)
      BY Zenon DEF SubmitMutation, ValidRequest, FollowsOnset
    <2>3. Known(v.from) /\ (Known(revs[n].from) => v.from > revs[n].from)
      BY <1>2, <2>1, <2>2, Zenon
    <2>4. v.from \in Instants /\ (Known(revs[n].from) => revs[n].from \in Instants)
      BY <1>1, <1>2, <2>1, <2>3, TimesKnown
    <2> HIDE DEF revs, n
    <2> QED BY <2>3, <2>4 DEF Instants
  <1>8. m.transition = "confirm" => revs[n].adoption = "pending" /\ v.from = revs[n].from
    <2>1. ConfirmsPending(m)  BY Zenon DEF SubmitMutation
    <2> QED  BY <1>2, <1>4, <2>1 DEF ConfirmsPending, IntervalOf
  <1>9. ASSUME m.transition = "correct", NEW i \in Effective(revs) \ {n}
        PROVE  Known(v.from) /\ (Known(revs[i].from) => revs[i].from < v.from)
    <2> DEFINE changed == Effective(revs) \ {n}
               k == Max(changed)
    <2>1. /\ n \in Nat \ {0} /\ DOMAIN revs = 1..n /\ Effective(revs) \subseteq 1..n
          /\ n \in Effective(revs)
          /\ \A l \in DOMAIN revs : revs[l].from \in Times
      BY <1>2, HistoryTypes
    <2>2. facts[z].related = 0
      <3>1. i \in 1..(n - 1)
        BY <1>9, <2>1
      <3>2. revs[i + 1].transition # "correct"
        BY <2>1, <3>1 DEF Effective
      <3> QED BY <1>2, <3>1, <3>2 DEF RowOK, Corrections
    <2>3. {l \in DOMAIN FactTimeline(revs) : FactTimeline(revs)[l].state = "changed"} = changed
      BY <1>2, ChangedEntries
    <2>4. /\ Known(m.interval[1])
          /\ Known(FactTimeline(revs)[k].from) => m.interval[1] > FactTimeline(revs)[k].from
      <3>1. changed # {}
        BY <1>9
      <3> HIDE DEF changed
      <3> QED BY <1>9, <2>2, <2>3, <3>1, Zenon DEF SubmitMutation, KeepsOrder, Base
    <2>5. k \in changed /\ i <= k
      <3>1. changed \in SUBSET (1..n) /\ i \in changed
        BY <1>9, <2>1
      <3> HIDE DEF changed
      <3> QED BY <2>1, <3>1, MaxIsGreatest, Zenon
    <2> HIDE DEF k
    <2>6. k \in Effective(revs) /\ k \in DOMAIN revs /\ i \in Effective(revs) /\ i \in DOMAIN revs
      BY <1>9, <2>1, <2>5
    <2>7. FactTimeline(revs)[k].from = revs[k].from
      BY <2>6, TimelineEntry, Zenon
    <2>8. i = k \/ i < k
      BY <2>1, <2>5, <2>6
    <2>9. i = k \/ (Known(revs[k].from) /\ (Known(revs[i].from) => revs[i].from < revs[k].from))
      BY <1>2, <2>6, <2>8, Zenon DEF History
    <2>10. v.from = m.interval[1]
      BY <1>6, <1>9
    <2>11. /\ Known(v.from) /\ v.from \in Instants
           /\ Known(revs[k].from) => revs[k].from \in Instants /\ v.from > revs[k].from
           /\ Known(revs[i].from) => revs[i].from \in Instants
      <3>1. v.from \in Times /\ revs[k].from \in Times /\ revs[i].from \in Times
        BY <1>1, <2>1, <2>6, <2>10
      <3>2. Known(v.from) /\ (Known(revs[k].from) => v.from > revs[k].from)
        BY <2>4, <2>7, <2>10, Zenon
      <3> QED BY <3>1, <3>2, TimesKnown
    <2> HIDE DEF revs, n
    <2> QED BY <2>9, <2>11 DEF Instants
  <1>10. History(Append(revs, v))
    <2> HIDE DEF revs
    <2> QED BY <1>1, <1>2, <1>4, <1>7, <1>8, <1>9, HistoryGrows
  <1> QED  BY <1>4, <1>5, <1>6, <1>10

LEMMA EditKeeps ==
    ASSUME FactsInv, NEW m \in Mutations(Transitions \ {"establish"}, Active),
           m.transition # "exception", SubmitMutation("confirmation", m)
    PROVE  FactsInv'
  <1> DEFINE z == m.target
             old == facts[z]
             v == Revision(AdoptionOf("confirmation", m.transition), IntervalOf(m), m.transition)
             w == Append(old.revs, v)
             status == IF m.transition = "deny" THEN "invalidated" ELSE "active"
             row == [status |-> status, conditions |-> old.conditions, related |-> old.related, revs |-> w]
  <1>1. m.transition \in {"change", "correct", "confirm", "deny"}
    BY MutationTypes DEF Transitions
  <1>2. z \in DOMAIN facts /\ z \in Nat \ {0} /\ old \in FactRows /\ RowOK(old) /\ ~IsDenied(old.revs)
    BY TargetOf
  <1>3. facts' = [facts EXCEPT ![z] = row]
    <2>1. m.transition \notin {"establish", "exception"}
      BY <1>1
    <2>2. v.transition = m.transition
      BY EditedRevision
    <2>3. Advance(z, v)
      BY <2>1, Zenon DEF SubmitMutation
    <2> HIDE DEF v
    <2> QED BY <2>2, <2>3 DEF Advance
  <1>4. /\ v \in Revisions /\ v.transition = m.transition
        /\ m.transition # "deny" => v.adoption = "confirmed"
        /\ m.transition = "correct" => v.from = m.interval[1] /\ v.until = m.interval[2]
        /\ History(w)
    BY EditedRevision
  <1>5. old.revs \in Seq(Revisions) /\ old.revs # <<>>
    BY <1>2 DEF RowOK, History
  <1> HIDE DEF v
  <1>6. /\ w \in Seq(Revisions) /\ Len(old.revs) \in Nat \ {0}
        /\ Len(w) = Len(old.revs) + 1
        /\ \A i \in 1..Len(old.revs) : w[i] = old.revs[i]
        /\ w[Len(old.revs) + 1] = v
    BY <1>4, <1>5, AppendRevision
  <1> HIDE DEF w
  <1>7. /\ row \in FactRows /\ row.revs = w /\ row.status = status
        /\ row.related = old.related /\ row.conditions = old.conditions
    BY <1>2, <1>6 DEF FactRows
  <1>8. HeadOf(row) = v /\ (IsDenied(w) <=> m.transition = "deny")
    BY <1>4, <1>6, <1>7 DEF HeadOf, IsDenied
  <1>9. old.related # 0 => m.transition \in {"correct", "deny"}
    BY <1>2 DEF SubmitMutation, ExceptionStays, Base
  <1> HIDE DEF old, row
  <1>10. RowOK(row)
    <2>1. ASSUME row.related # 0, m.transition # "deny" PROVE Corrections(w)
      <3>1. Corrections(old.revs) /\ v.transition = "correct"
        BY <1>2, <1>4, <1>7, <1>9, <2>1 DEF RowOK
      <3> SUFFICES ASSUME NEW i \in 1..Len(old.revs) PROVE w[i + 1].transition = "correct"
        BY <1>6 DEF Corrections
      <3>2. CASE i = Len(old.revs)
        BY <1>6, <3>1, <3>2
      <3>3. CASE i # Len(old.revs)
        <4>1. i \in 1..(Len(old.revs) - 1) /\ i + 1 \in 1..Len(old.revs)
          BY <1>6, <3>3
        <4> QED BY <1>6, <3>1, <4>1 DEF Corrections
      <3> QED BY <3>2, <3>3
    <2> QED BY <1>4, <1>7, <1>8, <2>1 DEF RowOK
  <1>11. ASSUME ConfirmedRow(row), NEW y \in DOMAIN facts \ {z}, ConfirmedRow(facts[y])
         PROVE  Compatible(row, facts[y])
    <2>1. y \in Active \ {z} /\ FactHead(y) = HeadOf(facts[y]) /\ FactHead(y).adoption = "confirmed"
      BY <1>11 DEF ConfirmedRow, HeadOf, FactHead, Active
    <2>2. m.transition # "deny" /\ m.transition # "establish"
      BY <1>1, <1>7, <1>11 DEF ConfirmedRow
    <2>3. AdoptionOf("confirmation", m.transition) = "confirmed" /\ RelatedOf(m) = old.related
      BY <1>2, <2>2 DEF AdoptionOf, RelatedOf, old
    <2>4. old.conditions = m.conditions
      BY <1>2 DEF SubmitMutation, TargetIsCurrent, old
    <2>5. CASE old.related = 0
      <3>1. ~(facts[y].related = 0 /\ facts[y].conditions = m.conditions)
        BY <2>1, <2>2, <2>3, <2>5, Zenon DEF SubmitMutation, ConfirmedFactConflict, Base
      <3> QED BY <1>7, <2>4, <2>5, <3>1 DEF Compatible
    <2>6. CASE old.related # 0
      <3>1. v.from = m.interval[1] /\ v.until = m.interval[2]
        BY <1>4, <1>9, <2>2, <2>6
      <3>2. facts[y].related = old.related =>
               ~Overlap(m.interval, <<FactHead(y).from, FactHead(y).until>>)
        BY <2>1, <2>3, <2>6, Zenon DEF SubmitMutation, OverlapsException
      <3> QED BY <1>7, <1>8, <2>1, <2>6, <3>1, <3>2 DEF Compatible, Overlap
    <2> QED BY <2>5, <2>6
  <1> QED  BY <1>2, <1>3, <1>7, <1>10, <1>11, ReplaceOK, Zenon DEF FactsInv

LEMMA GovernKeeps ==
    ASSUME FactsInv, NEW X \in SUBSET Active, Govern(X)
    PROVE  FactsInv'
  <1>1. facts \in Seq(FactRows) /\ DOMAIN facts = 1..Len(facts) /\ Len(facts) \in Nat
    BY DEF FactsInv, FactsOK
  <1>2. /\ DOMAIN facts' = DOMAIN facts
        /\ \A x \in DOMAIN facts : facts'[x] = IF x \in X THEN [facts[x] EXCEPT !.status = "invalidated"]
                                               ELSE facts[x]
    BY DEF Govern
  <1>3. ASSUME NEW x \in DOMAIN facts
        PROVE  /\ facts'[x] \in FactRows /\ facts'[x].revs = facts[x].revs
               /\ facts'[x].related = facts[x].related /\ facts'[x].conditions = facts[x].conditions
               /\ facts'[x].status = "active" => facts[x].status = "active"
    <2>1. facts[x] \in FactRows
      BY <1>1
    <2> QED BY <1>2, <2>1 DEF FactRows
  <1>4. facts' \in Seq(FactRows)
    <2>1. facts' \in [1..Len(facts) -> FactRows]
      BY <1>1, <1>2, <1>3 DEF Govern
    <2> QED BY <1>1, <2>1
  <1>5. \A x \in DOMAIN facts' : RowOK(facts'[x])
    BY <1>2, <1>3, Zenon DEF FactsInv, FactsOK, RowOK
  <1>6. OneTruth(facts')
    <2> SUFFICES ASSUME NEW x \in DOMAIN facts, NEW y \in DOMAIN facts, x # y,
                        ConfirmedRow(facts'[x]), ConfirmedRow(facts'[y])
                 PROVE  Compatible(facts'[x], facts'[y])
      BY <1>2, Zenon DEF OneTruth
    <2>1. HeadOf(facts'[x]) = HeadOf(facts[x]) /\ HeadOf(facts'[y]) = HeadOf(facts[y])
      BY <1>3, Zenon DEF HeadOf
    <2>2. ConfirmedRow(facts[x]) /\ ConfirmedRow(facts[y])
      BY <1>3, <2>1, Zenon DEF ConfirmedRow
    <2>3. Compatible(facts[x], facts[y])
      BY <2>2, Zenon DEF FactsInv, FactsOK, OneTruth
    <2> QED BY <1>3, <2>1, <2>3, Zenon DEF Compatible
  <1> QED  BY <1>4, <1>5, <1>6 DEF FactsInv, FactsOK

LEMMA FactsInvInit == FactsInit => FactsInv
  BY DEF FactsInit, FactsInv, FactsOK, OneTruth

LEMMA FactsInvKept == ASSUME FactsInv, [FactsNext]_factsVars PROVE FactsInv'
  <1>1. ASSUME NEW role \in Roles, NEW m \in Mutations({"establish"}, {0}), SubmitMutation(role, m)
        PROVE  FactsInv'
    BY <1>1, EstablishKeeps
  <1>2. ASSUME NEW m \in Mutations(Transitions \ {"establish"}, Active),
               SubmitMutation("confirmation", m)
        PROVE  FactsInv'
    <2>1. CASE m.transition = "exception"  BY <1>2, <2>1, ExceptionKeeps, Zenon
    <2>2. CASE m.transition # "exception"  BY <1>2, <2>2, EditKeeps, Zenon
    <2> QED  BY <2>1, <2>2, Zenon
  <1>3. CASE StewardAdd
    BY <1>3, StewardAddKeeps
  <1>4. ASSUME NEW X \in SUBSET Active, Govern(X) PROVE FactsInv'
    BY <1>4, GovernKeeps
  <1>5. CASE UNCHANGED factsVars
    BY <1>5 DEF factsVars, FactsInv
  <1> QED  BY <1>1, <1>2, <1>3, <1>4, <1>5, Zenon DEF FactsNext

(* NoForkedTruth of Facts, for any conditions, intervals and number of      *)
(* Records: no sequence of edits, ADDs and deletions leaves two confirmed   *)
(* base facts with the same conditions, nor overlapping exceptions.         *)
THEOREM TruthNeverForks == FactsSpec => []NoForkedTruth
  <1>1. FactsInv => NoForkedTruth
    BY TruthOfTable DEF FactsInv, FactsOK
  <1> QED  BY <1>1, FactsInvInit, FactsInvKept, PTL DEF FactsSpec

(* OneValuePerInstant: a timeline, however changed and corrected, adopts at *)
(* most one Revision for an instant.                                        *)
THEOREM TimelineIsSingleValued == FactsSpec => []OneValuePerInstant
  BY InvOneValue, FactsInvInit, FactsInvKept, PTL DEF FactsSpec

(* RefreshIsEnough: until RefreshAt, ReadFacts answers the same.            *)
THEOREM RefreshInTime == FactsSpec => []RefreshIsEnough
  BY InvRefresh, FactsInvInit, FactsInvKept, PTL DEF FactsSpec

-----------------------------------------------------------------------------
(* Edits stay local *)

(* InForce, of any Revisions. *)
Forced(revs, t, asOf) ==
    {i \in DOMAIN revs : /\ Adopted(FactTimeline(revs)[i]) /\ Covers(FactTimeline(revs)[i], t)
                         /\ asOf => Known(FactTimeline(revs)[i].from)}

(* A change leaves what is in force before its onset. *)
LEMMA ChangeIsLocal ==
    ASSUME NEW revs, History(revs), ~IsDenied(revs), NEW v \in Revisions, v.transition = "change",
           Known(v.from), NEW t \in Instants, t < v.from, NEW asOf
    PROVE  Forced(Append(revs, v), t, asOf) = Forced(revs, t, asOf)
  <1> DEFINE w == Append(revs, v)
             n == Len(revs)
             h == FactTimeline(revs)
             k == FactTimeline(w)
  <1>1. revs \in Seq(Revisions) /\ revs # <<>>
    BY DEF History
  <1>2. /\ n \in Nat \ {0} /\ DOMAIN revs = 1..n
        /\ Len(w) = n + 1 /\ DOMAIN w = 1..(n + 1)
        /\ \A i \in 1..n : w[i] = revs[i]
        /\ w[n + 1] = v
    BY <1>1, AppendRevision
  <1> HIDE DEF w, n
  <1>3. /\ n + 1 \in Effective(w) /\ n \in Effective(w) /\ n \in Effective(revs)
        /\ \A i \in 1..n : i \in Effective(w) <=> i \in Effective(revs)
    <2>1. /\ n + 1 \in Effective(w) /\ n \in Effective(w)
          /\ \A i \in 1..(n - 1) : i \in Effective(w) <=> i \in Effective(revs)
      BY <1>2, EffectiveGrows, Zenon DEF n
    <2>2. n \in Effective(revs)
      BY <1>2 DEF Effective, n
    <2> QED BY <1>2, <2>1, <2>2
  <1>4. ~IsDenied(w)
    BY <1>2 DEF IsDenied
  <1>5. /\ \A i \in 1..n : revs[i].from \in Times /\ revs[i].until \in Times
        /\ v.from \in Instants
        /\ Effective(revs) \subseteq 1..n /\ Effective(w) \subseteq 1..(n + 1)
    <2>1. v.from \in Instants
      BY TimesKnown DEF Revisions
    <2> QED BY <1>2, <2>1, HistoryTypes DEF Effective
  <1>6. ASSUME NEW i \in 1..n
        PROVE  /\ k[i].from = h[i].from
               /\ Adopted(k[i]) <=> Adopted(h[i])
    <2>1. i \in DOMAIN revs /\ i \in DOMAIN w
      BY <1>2
    <2>2. /\ HistoricalState(w, i) # "denied" /\ HistoricalState(revs, i) # "denied"
          /\ HistoricalState(w, i) = "corrected" <=> HistoricalState(revs, i) = "corrected"
      <3>1. CASE i = n
        <4>1. ~(i < n) /\ w[i + 1].transition = "change"
          BY <1>2, <3>1
        <4> QED BY <1>2, <1>4, <4>1 DEF HistoricalState, IsDenied, n
      <3>2. CASE i # n
        <4>1. i < n /\ i < n + 1 /\ w[i + 1] = revs[i + 1]
          BY <1>2, <3>2
        <4> QED BY <1>2, <1>4, <4>1 DEF HistoricalState, IsDenied, n
      <3> QED BY <3>1, <3>2
    <2>3. /\ k[i].from = w[i].from /\ k[i].state = HistoricalState(w, i)
          /\ k[i].adoption = IF HistoricalState(w, i) = "denied" THEN "denied" ELSE w[i].adoption
      BY <2>1, TimelineEntry, Zenon
    <2>4. /\ h[i].from = revs[i].from /\ h[i].state = HistoricalState(revs, i)
          /\ h[i].adoption = IF HistoricalState(revs, i) = "denied" THEN "denied" ELSE revs[i].adoption
      BY <2>1, TimelineEntry, Zenon
    <2> HIDE DEF h, k
    <2> QED BY <1>2, <2>2, <2>3, <2>4 DEF Adopted
  <1>7. ASSUME NEW i \in 1..n PROVE Covers(k[i], t) <=> Covers(h[i], t)
    <2> DEFINE before == {l \in Effective(revs) : l > i}
               after == {l \in Effective(w) : l > i}
    <2>1. i \in DOMAIN revs /\ i \in DOMAIN w
      BY <1>2
    <2>2. k[i].until = IF i \in Effective(w) /\ after # {} THEN Cut(w[i].until, w[Min(after)].from)
                       ELSE w[i].until
      BY <2>1, TimelineEntry, Zenon
    <2>3. h[i].until = IF i \in Effective(revs) /\ before # {}
                       THEN Cut(revs[i].until, revs[Min(before)].from) ELSE revs[i].until
      BY <2>1, TimelineEntry, Zenon
    <2>4. after \in SUBSET Nat /\ n + 1 \in after /\ before \in SUBSET Nat
      BY <1>2, <1>3, <1>5
    <2>5. CASE i \notin Effective(revs)
      <3>1. k[i].until = h[i].until
        BY <1>2, <1>3, <2>2, <2>3, <2>5
      <3> QED BY <1>6, <3>1, Zenon DEF Covers
    <2>6. CASE i \in Effective(revs) /\ i < n
      <3>1. n \in before /\ n \in after
        BY <1>2, <1>3, <2>6
      <3>2. /\ Min(after) \in after /\ \A l \in after : Min(after) <= l
            /\ Min(before) \in before /\ \A l \in before : Min(before) <= l
        <4> HIDE DEF before, after
        <4> QED BY <2>4, <3>1, MinIsLeast
      <3>3. Min(after) \in before
        <4>1. Min(after) <= n /\ Min(after) \in Effective(w) /\ Min(after) > i
          BY <3>1, <3>2
        <4> QED BY <1>2, <1>3, <1>5, <4>1
      <3>4. Min(before) \in after
        BY <1>2, <1>3, <1>5, <3>2
      <3>5. Min(after) = Min(before)
        <4>1. /\ Min(after) <= Min(before) /\ Min(before) <= Min(after)
              /\ Min(after) \in Nat /\ Min(before) \in Nat
          BY <2>4, <3>2, <3>3, <3>4, Zenon
        <4> QED BY <4>1
      <3>6. w[Min(after)] = revs[Min(before)] /\ w[i] = revs[i]
        <4>1. Min(before) \in 1..n
          BY <1>5, <3>2
        <4> QED BY <1>2, <3>5, <4>1
      <3>7. k[i].until = h[i].until
        <4> HIDE DEF before, after, h, k
        <4> QED BY <1>3, <2>2, <2>3, <3>1, <3>6
      <3> QED BY <1>6, <3>7, Zenon DEF Covers
    <2>7. CASE i = n
      <3>1. before = {} /\ after = {n + 1}
        BY <1>2, <1>3, <1>5, <2>7
      <3>2. Min(after) = n + 1
        <4> HIDE DEF after
        <4> QED BY <2>4, <3>1, MinIsLeast
      <3>3. h[i].until = revs[n].until /\ k[i].until = Cut(revs[n].until, v.from)
        <4>1. w[Min(after)] = v /\ w[i] = revs[n]
          BY <1>2, <2>7, <3>2
        <4> HIDE DEF before, after, h, k
        <4> QED BY <1>3, <2>2, <2>3, <2>7, <3>1, <4>1
      <3>4. revs[n].until \in Times /\ (Known(revs[n].until) => revs[n].until \in Instants)
        BY <1>2, <1>5, TimesKnown
      <3>5. (Known(Cut(revs[n].until, v.from)) /\ Cut(revs[n].until, v.from) <= t)
               <=> (Known(revs[n].until) /\ revs[n].until <= t)
        BY <1>5, <3>4 DEF Cut, Instants
      <3> HIDE DEF h, k
      <3> QED BY <1>6, <3>3, <3>5, Zenon DEF Covers
    <2> QED BY <1>2, <2>5, <2>6, <2>7
  <1>8. ~Covers(k[n + 1], t)
    <2>1. k[n + 1].from = v.from
      <3>1. n + 1 \in DOMAIN w
        BY <1>2
      <3>2. k[n + 1].from = w[n + 1].from
        BY <3>1, TimelineEntry, Zenon
      <3> QED BY <1>2, <3>2
    <2>2. v.from > t
      BY <1>5 DEF Instants
    <2> QED BY <2>1, <2>2, Zenon DEF Covers
  <1> HIDE DEF h, k
  <1>9. Forced(w, t, asOf) = Forced(revs, t, asOf)
    <2>1. \A i \in 1..(n + 1) : i \in 1..n \/ i = n + 1
      BY <1>2
    <2>2. \A i : i \in Forced(w, t, asOf) <=> i \in Forced(revs, t, asOf)
      <3>1. \A i : i \in Forced(w, t, asOf) <=>
               i \in 1..(n + 1) /\ Adopted(k[i]) /\ Covers(k[i], t) /\ (asOf => Known(k[i].from))
        BY <1>2, Zenon DEF Forced, k
      <3>2. \A i : i \in Forced(revs, t, asOf) <=>
               i \in 1..n /\ Adopted(h[i]) /\ Covers(h[i], t) /\ (asOf => Known(h[i].from))
        BY <1>2, Zenon DEF Forced, h
      <3>3. \A i \in 1..n : i \in 1..(n + 1)
        BY <1>2
      <3> QED BY <1>6, <1>7, <1>8, <2>1, <3>1, <3>2, <3>3, Zenon
    <2> QED BY <2>2, Zenon
  <1> QED  BY <1>9 DEF w

(* An exception is in force in its interval alone. *)
LEMMA ExceptionIsLocal ==
    ASSUME NEW v \in Revisions, Known(v.from), Known(v.until), NEW t \in Instants,
           ~(v.from <= t /\ t < v.until), NEW asOf
    PROVE  Forced(<<v>>, t, asOf) = {}
  <1> DEFINE w == <<v>>
             k == FactTimeline(w)
  <1>1. DOMAIN w = {1} /\ w[1] = v
    OBVIOUS
  <1>2. v.from \in Instants /\ v.until \in Instants
    BY TimesKnown DEF Revisions
  <1> HIDE DEF w
  <1>3. k[1].from = v.from /\ k[1].until = v.until
    <2>1. {j \in Effective(w) : j > 1} = {}
      BY <1>1 DEF Effective
    <2>2. /\ k[1].from = w[1].from
          /\ k[1].until = IF 1 \in Effective(w) /\ {j \in Effective(w) : j > 1} # {}
                          THEN Cut(w[1].until, w[Min({j \in Effective(w) : j > 1})].from)
                          ELSE w[1].until
      <3>1. 1 \in DOMAIN w
        BY <1>1
      <3> QED BY <3>1, TimelineEntry, Zenon
    <2> QED BY <1>1, <2>1, <2>2, Zenon
  <1>4. v.from > t \/ v.until <= t
    BY <1>2 DEF Instants
  <1>5. ~Covers(k[1], t)
    BY <1>3, <1>4, Zenon DEF Covers
  <1>6. Forced(w, t, asOf) = {}
    BY <1>1, <1>5, Zenon DEF Forced
  <1> QED  BY <1>6 DEF w

(* ReadFacts, of any table of Records. *)
Offered(table, context, t, asOf) ==
    {y \in DOMAIN table : /\ table[y].status = "active" /\ table[y].conditions \subseteq context
                          /\ Forced(table[y].revs, t, asOf) # {}}
Offers(table, context, t, asOf) ==
    {<<x, Max(Forced(table[x].revs, t, asOf))>> : x \in Offered(table, context, t, asOf)}
Standing(table, C) == {c \in C : c[1] \notin {table[d[1]].related : d \in C}}
Narrowest(table, D) ==
    {c \in D : \A d \in D : Cardinality(table[d[1]].conditions) <= Cardinality(table[c[1]].conditions)}
AnswerOf(table, context, t, asOf) ==
    LET best == Narrowest(table, Standing(table, Offers(table, context, t, asOf)))
    IN  IF Cardinality(best) = 1 THEN best ELSE {}

LEMMA ReadFactsOfTable ==
    ASSUME NEW context, NEW t, NEW asOf
    PROVE  /\ ReadFacts(context, t, asOf) = AnswerOf(facts, context, t, asOf)
           /\ ReadFacts(context, t, asOf)' = AnswerOf(facts', context, t, asOf)
  <1>0. \A revs : DOMAIN FactTimeline(revs) = DOMAIN revs
    BY Zenon DEF FactTimeline
  <1>1. /\ {y \in Matching(context) : InForce(y, t, asOf) # {}} = Offered(facts, context, t, asOf)
        /\ {y \in Matching(context) : InForce(y, t, asOf) # {}}' = Offered(facts', context, t, asOf)
    <2>1. {y \in Matching(context) : InForce(y, t, asOf) # {}} = Offered(facts, context, t, asOf)
      BY <1>0, Zenon DEF Matching, Active, InForce, Forced, Offered
    <2>2. {y \in Matching(context) : InForce(y, t, asOf) # {}}' = Offered(facts', context, t, asOf)
      BY <1>0, Zenon DEF Matching, Active, InForce, Forced, Offered
    <2> QED BY <2>1, <2>2
  <1>2. Candidates(context, t, asOf) = Offers(facts, context, t, asOf)
    <2>1. \A y : InForce(y, t, asOf) = Forced(facts[y].revs, t, asOf)
      BY <1>0, Zenon DEF InForce, Forced
    <2> QED BY <1>1, <2>1 DEF Candidates, Offers
  <1>3. Candidates(context, t, asOf)' = Offers(facts', context, t, asOf)
    <2>1. \A y : InForce(y, t, asOf)' = Forced(facts'[y].revs, t, asOf)
      BY <1>0, Zenon DEF InForce, Forced
    <2> QED BY <1>1, <2>1 DEF Candidates, Offers
  <1>4. ReadFacts(context, t, asOf) = AnswerOf(facts, context, t, asOf)
    BY <1>2, Zenon DEF ReadFacts, AnswerOf, MostSpecific, Narrowest, Overridden, Standing
  <1>5. ReadFacts(context, t, asOf)' = AnswerOf(facts', context, t, asOf)
    BY <1>3, Zenon DEF ReadFacts, AnswerOf, MostSpecific, Narrowest, Overridden, Standing
  <1> QED  BY <1>4, <1>5

(* What ReadFacts answers depends on the matching Records and what of them  *)
(* is in force. *)
SameReads(old, new, t, asOf) ==
    /\ DOMAIN old \subseteq DOMAIN new
    /\ \A y \in DOMAIN old :
          /\ new[y].status = old[y].status /\ new[y].conditions = old[y].conditions
          /\ new[y].related = old[y].related
          /\ Forced(new[y].revs, t, asOf) = Forced(old[y].revs, t, asOf)
    /\ \A y \in DOMAIN new : y \notin DOMAIN old => Forced(new[y].revs, t, asOf) = {}

LEMMA SameAnswer ==
    ASSUME NEW old, NEW new, NEW context, NEW t, NEW asOf, SameReads(old, new, t, asOf)
    PROVE  AnswerOf(new, context, t, asOf) = AnswerOf(old, context, t, asOf)
  <1> USE DEF SameReads
  <1> DEFINE X == Offered(old, context, t, asOf)
             C == Offers(old, context, t, asOf)
             D == Standing(old, C)
  <1>1. Offered(new, context, t, asOf) = X /\ X \subseteq DOMAIN old
    BY Zenon DEF Offered
  <1>2. Offers(new, context, t, asOf) = C
    <2>1. \A x \in X : Forced(new[x].revs, t, asOf) = Forced(old[x].revs, t, asOf)
      BY <1>1, Zenon
    <2> HIDE DEF X
    <2> QED BY <1>1, <2>1 DEF Offers, X
  <1>3. \A c \in C : c[1] \in DOMAIN old
    BY <1>1 DEF Offers
  <1>4. Standing(new, C) = D
    <2> HIDE DEF C
    <2>1. {new[d[1]].related : d \in C} = {old[d[1]].related : d \in C}
      BY <1>3
    <2> QED BY <2>1, Zenon DEF Standing
  <1>5. Narrowest(new, D) = Narrowest(old, D)
    <2>1. \A c \in D : c[1] \in DOMAIN old
      BY <1>3, Zenon DEF Standing
    <2> HIDE DEF D
    <2> QED BY <2>1, Zenon DEF Narrowest
  <1> QED  BY <1>2, <1>4, <1>5, Zenon DEF AnswerOf

(* The step of EditsStayLocal, for Record x. *)
Written(x) == x \notin DOMAIN facts \/ Len(facts[x].revs) < Len(facts'[x].revs)
LocalEdit(x) ==
    LET v == facts'[x].revs[Len(facts'[x].revs)]
        touched == IF v.transition = "change" THEN {t \in Instants : t >= v.from}
                   ELSE {t \in Instants : v.from <= t /\ t < v.until}
    IN  Written(x) /\ v.transition \in {"change", "exception"} =>
          \A context \in Contexts, t \in Instants \ touched :
              ReadFacts(context, t, TRUE)' = ReadFacts(context, t, TRUE)

LEMMA NewRecordIsLocal ==
    ASSUME FactsInv, NEW v \in Revisions, NEW row, row.revs = <<v>>, facts' = Append(facts, row),
           v.transition # "change", v.transition = "exception" => Known(v.from) /\ Known(v.until),
           NEW x \in DOMAIN facts'
    PROVE  LocalEdit(x)
  <1> DEFINE n == Len(facts)
  <1>1. facts \in Seq(FactRows)
    BY DEF FactsInv, FactsOK
  <1>2. /\ n \in Nat /\ DOMAIN facts = 1..n /\ DOMAIN facts' = 1..(n + 1)
        /\ \A y \in 1..n : facts'[y] = facts[y]
        /\ facts'[n + 1] = row
    BY <1>1
  <1> HIDE DEF n
  <1>3. CASE x \in DOMAIN facts
    <2>1. Len(facts[x].revs) \in Nat
      <3>1. facts[x].revs \in Seq(Revisions)
        BY <1>3, Zenon DEF FactsInv, FactsOK, RowOK, History
      <3> QED BY <3>1
    <2>2. ~Written(x)
      BY <1>2, <1>3, <2>1 DEF Written
    <2> QED BY <2>2, Zenon DEF LocalEdit
  <1>4. CASE x \notin DOMAIN facts
    <2>1. x = n + 1
      BY <1>2, <1>4
    <2>2. facts'[x].revs = <<v>>
      BY <1>2, <2>1
    <2>3. facts'[x].revs[Len(facts'[x].revs)] = v
      BY <2>2
    <2> SUFFICES ASSUME v.transition = "exception", NEW context \in Contexts,
                        NEW t \in Instants, ~(v.from <= t /\ t < v.until)
                 PROVE  ReadFacts(context, t, TRUE)' = ReadFacts(context, t, TRUE)
      BY <2>3, Zenon DEF LocalEdit
    <2>4. Forced(<<v>>, t, TRUE) = {}
      BY ExceptionIsLocal, Zenon
    <2>5. DOMAIN facts \subseteq DOMAIN facts'
      BY <1>2
    <2>6. \A y \in DOMAIN facts' : y \notin DOMAIN facts => Forced(facts'[y].revs, t, TRUE) = {}
      <3>1. \A y \in DOMAIN facts' : y \notin DOMAIN facts => y = x
        BY <1>2, <2>1
      <3> QED BY <2>2, <2>4, <3>1, Zenon
    <2>7. \A y \in DOMAIN facts : facts'[y] = facts[y]
      BY <1>2
    <2>8. AnswerOf(facts', context, t, TRUE) = AnswerOf(facts, context, t, TRUE)
      <3>1. SameReads(facts, facts', t, TRUE)
        BY <2>5, <2>6, <2>7, Zenon DEF SameReads
      <3>2. \A asOf : SameReads(facts, facts', t, asOf) =>
               AnswerOf(facts', context, t, asOf) = AnswerOf(facts, context, t, asOf)
        BY SameAnswer
      <3> QED BY <3>1, <3>2, Zenon
    <2> QED BY <2>8, ReadFactsOfTable, Zenon
  <1> QED  BY <1>3, <1>4

LEMMA AdvancedRecordIsLocal ==
    ASSUME FactsInv, NEW z \in DOMAIN facts, facts[z].status = "active", NEW v \in Revisions,
           v.transition # "exception", v.transition = "change" => Known(v.from),
           Advance(z, v), NEW x \in DOMAIN facts'
    PROVE  LocalEdit(x)
  <1> DEFINE row == [status |-> IF v.transition = "deny" THEN "invalidated" ELSE "active",
                     conditions |-> facts[z].conditions, related |-> facts[z].related,
                     revs |-> Append(facts[z].revs, v)]
  <1>1. facts \in Seq(FactRows)
    BY DEF FactsInv, FactsOK
  <1>2. facts' = [facts EXCEPT ![z] = row]
    BY Zenon DEF Advance
  <1>3. /\ row.conditions = facts[z].conditions /\ row.related = facts[z].related
        /\ row.revs = Append(facts[z].revs, v)
        /\ row.status = IF v.transition = "deny" THEN "invalidated" ELSE "active"
    BY Zenon
  <1> HIDE DEF row
  <1>4. /\ DOMAIN facts' = DOMAIN facts /\ facts'[z] = row
        /\ \A y \in DOMAIN facts : y # z => facts'[y] = facts[y]
    BY <1>1, <1>2
  <1>5. CASE x # z
    <2>1. Len(facts[x].revs) \in Nat
      <3>1. facts[x].revs \in Seq(Revisions)
        BY <1>4, Zenon DEF FactsInv, FactsOK, RowOK, History
      <3> QED BY <3>1
    <2>2. ~Written(x)
      BY <1>4, <1>5, <2>1 DEF Written
    <2> QED BY <2>2, Zenon DEF LocalEdit
  <1>6. CASE x = z
    <2>1. History(facts[z].revs) /\ ~IsDenied(facts[z].revs)
      BY DEF FactsInv, FactsOK, RowOK
    <2>2. facts[z].revs \in Seq(Revisions)
      BY <2>1 DEF History
    <2>3. facts'[x].revs[Len(facts'[x].revs)] = v
      BY <1>3, <1>4, <1>6, <2>2
    <2> SUFFICES ASSUME v.transition = "change", NEW context \in Contexts,
                        NEW t \in Instants, ~(t >= v.from)
                 PROVE  ReadFacts(context, t, TRUE)' = ReadFacts(context, t, TRUE)
      BY <2>3, Zenon DEF LocalEdit
    <2>4. t < v.from
      <3>1. v.from \in Instants
        BY TimesKnown DEF Revisions
      <3> QED BY <3>1 DEF Instants
    <2>5. Forced(row.revs, t, TRUE) = Forced(facts[z].revs, t, TRUE)
      BY <1>3, <2>1, <2>4, ChangeIsLocal, Zenon
    <2>6. row.status = facts[z].status
      BY <1>3
    <2>7. AnswerOf(facts', context, t, TRUE) = AnswerOf(facts, context, t, TRUE)
      <3>1. SameReads(facts, facts', t, TRUE)
        BY <1>3, <1>4, <2>5, <2>6, Zenon DEF SameReads
      <3>2. \A asOf : SameReads(facts, facts', t, asOf) =>
               AnswerOf(facts', context, t, asOf) = AnswerOf(facts, context, t, asOf)
        BY SameAnswer
      <3> QED BY <3>1, <3>2, Zenon
    <2> QED BY <2>7, ReadFactsOfTable, Zenon
  <1> QED  BY <1>5, <1>6

LEMMA StepIsLocal ==
    ASSUME FactsInv, FactsNext, NEW x \in DOMAIN facts'
    PROVE  LocalEdit(x)
  <1>1. ASSUME NEW role \in Roles, NEW m \in Mutations({"establish"}, {0}), SubmitMutation(role, m)
        PROVE  LocalEdit(x)
    <2> DEFINE v == Revision(AdoptionOf(role, m.transition), IntervalOf(m), m.transition)
               row == [status |-> "active", conditions |-> m.conditions, related |-> RelatedOf(m),
                       revs |-> <<v>>]
    <2>1. /\ m.transition = "establish" /\ m.interval[1] \in Times /\ m.interval[2] \in Times
      BY MutationTypes DEF Transitions
    <2>2. IntervalOf(m) = m.interval
      BY <2>1 DEF IntervalOf
    <2>3. facts' = Append(facts, row)
      BY <1>1, <2>1, Zenon DEF SubmitMutation, Create
    <2>4. v \in Revisions /\ v.transition = "establish"
      BY <2>1, <2>2, AdoptionTypes, RevisionFields DEF Transitions
    <2> HIDE DEF v
    <2>5. row.revs = <<v>>
      OBVIOUS
    <2> HIDE DEF row
    <2> QED BY <2>3, <2>4, <2>5, NewRecordIsLocal
  <1>2. ASSUME NEW m \in Mutations(Transitions \ {"establish"}, Active),
               SubmitMutation("confirmation", m), m.transition = "exception"
        PROVE  LocalEdit(x)
    <2> DEFINE v == Revision(AdoptionOf("confirmation", m.transition), IntervalOf(m), m.transition)
               row == [status |-> "active", conditions |-> m.conditions, related |-> RelatedOf(m),
                       revs |-> <<v>>]
    <2>1. m.interval[1] \in Times /\ m.interval[2] \in Times
      BY MutationTypes
    <2>2. IntervalOf(m) = m.interval
      BY <1>2 DEF IntervalOf
    <2>3. facts' = Append(facts, row)
      BY <1>2, Zenon DEF SubmitMutation, Create
    <2>4. /\ v \in Revisions /\ v.transition = "exception"
          /\ v.from = m.interval[1] /\ v.until = m.interval[2]
      BY <1>2, <2>1, <2>2, AdoptionTypes, RevisionFields DEF Transitions
    <2>5. Known(m.interval[1]) /\ Known(m.interval[2])
      BY <1>2, Zenon DEF SubmitMutation, ValidRequest
    <2> HIDE DEF v
    <2>6. row.revs = <<v>>
      OBVIOUS
    <2> HIDE DEF row
    <2> QED BY <2>3, <2>4, <2>5, <2>6, NewRecordIsLocal
  <1>3. ASSUME NEW m \in Mutations(Transitions \ {"establish"}, Active),
               SubmitMutation("confirmation", m), m.transition # "exception"
        PROVE  LocalEdit(x)
    <2> DEFINE v == Revision(AdoptionOf("confirmation", m.transition), IntervalOf(m), m.transition)
    <2>1. v \in Revisions /\ v.transition = m.transition
      BY <1>3, EditedRevision
    <2>2. m.target \in DOMAIN facts /\ facts[m.target].status = "active"
      BY TargetOf
    <2>3. m.transition \in {"change", "correct", "confirm", "deny"}
      BY <1>3, MutationTypes DEF Transitions
    <2>4. v.transition = "change" => Known(v.from)
      <3>1. m.transition = "change" => v.from = m.interval[1] /\ Known(m.interval[1])
        BY <1>3 DEF SubmitMutation, ValidRequest, Revision, IntervalOf
      <3> QED BY <2>1, <3>1
    <2>5. Advance(m.target, v)
      <3>1. m.transition \notin {"establish", "exception"}
        BY <2>3
      <3> QED BY <1>3, <3>1, Zenon DEF SubmitMutation
    <2> HIDE DEF v
    <2> QED BY <1>3, <2>1, <2>2, <2>4, <2>5, AdvancedRecordIsLocal
  <1>4. CASE StewardAdd
    <2> DEFINE v == Revision("pending", <<Unknown, Unknown>>, "establish")
               row == [status |-> "active", conditions |-> {}, related |-> 0, revs |-> <<v>>]
    <2>1. facts' = Append(facts, row)
      BY <1>4, Zenon DEF StewardAdd, Create
    <2>2. v \in Revisions /\ v.transition = "establish"
      BY DEF Revision, Revisions, Times, Transitions
    <2> HIDE DEF v
    <2>3. row.revs = <<v>>
      OBVIOUS
    <2> HIDE DEF row
    <2> QED BY <2>1, <2>2, <2>3, NewRecordIsLocal
  <1>5. ASSUME NEW X \in SUBSET Active, Govern(X) PROVE LocalEdit(x)
    <2>1. /\ x \in DOMAIN facts
          /\ facts'[x] = IF x \in X THEN [facts[x] EXCEPT !.status = "invalidated"] ELSE facts[x]
      BY <1>5 DEF Govern
    <2>2. facts[x] \in FactRows
      BY <2>1 DEF FactsInv, FactsOK
    <2>3. facts'[x].revs = facts[x].revs /\ Len(facts[x].revs) \in Nat
      <3>1. facts'[x].revs = facts[x].revs /\ facts[x].revs \in Seq(Revisions)
        BY <2>1, <2>2 DEF FactRows
      <3> QED BY <3>1
    <2>4. ~Written(x)
      BY <2>1, <2>3 DEF Written
    <2> QED BY <2>4, Zenon DEF LocalEdit
  <1> QED  BY <1>1, <1>2, <1>3, <1>4, <1>5, Zenon DEF FactsNext

(* EditsStayLocal, for any conditions, intervals and number of Records: a   *)
(* change leaves every answer about an instant before its onset, and an     *)
(* exception every answer about an instant outside its interval.            *)
THEOREM EditsAreLocal == FactsSpec => EditsStayLocal
  <1>1. FactsInv /\ [FactsNext]_factsVars =>
           [\A x \in DOMAIN facts' : LocalEdit(x)]_factsVars
    BY StepIsLocal, Zenon
  <1>2. [\A x \in DOMAIN facts' : LocalEdit(x)]_factsVars =>
        [\A x \in DOMAIN facts' :
          LET v == facts'[x].revs[Len(facts'[x].revs)]
              written == x \notin DOMAIN facts \/ Len(facts[x].revs) < Len(facts'[x].revs)
              touched == IF v.transition = "change" THEN {t \in Instants : t >= v.from}
                         ELSE {t \in Instants : v.from <= t /\ t < v.until}
          IN  written /\ v.transition \in {"change", "exception"} =>
                \A context \in Contexts, t \in Instants \ touched :
                    ReadFacts(context, t, TRUE)' = ReadFacts(context, t, TRUE)]_factsVars
    BY Zenon DEF LocalEdit, Written
  <1> QED  BY <1>1, <1>2, FactsInvInit, FactsInvKept, PTL DEF FactsSpec, EditsStayLocal

=============================================================================

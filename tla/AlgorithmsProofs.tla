-------------------------- MODULE AlgorithmsProofs --------------------------
(***************************************************************************)
(* Three algorithms, for all inputs.  forgettingClosure returns the        *)
(* least closed set, for every set of Records and jobs and every relation  *)
(* between them.  Recall's merge and budget loop label a fragment by the   *)
(* strictest of its evidence, lose nothing silently, and use the budget up,*)
(* for all candidates, texts and budgets, in any order of rank.  Times     *)
(* stored as text of a fixed width are ordered as the instants are, and    *)
(* are parsed, like the trimmed ones, as the instants they were written    *)
(* for.                                                                    *)
(***************************************************************************)
EXTENDS ClosureWorklist, RecallMerge, StoredTime, TLAPS, WellFoundedInduction, FiniteSetTheorems

(* Everything attributed and no longer on a worklist has been followed.     *)
Followed ==
    /\ ProducedBy(jobs \ newJobs) \subseteq records
    /\ ReferrersOf(records \ newRecords) \subseteq records
    /\ ReadersOf(records \ newRecords) \subseteq jobs

(* An empty closure is not widened: it has no jobs left to follow either.   *)
Staged ==
    /\ stage \in {"widened", "done"} => Wide(records) /\ (records = {} => newJobs = {})
    /\ stage = "done" => newRecords = {} /\ newJobs = {}

IInv ==
    /\ TypeOK
    /\ seed.records \subseteq records /\ seed.jobs \subseteq jobs
    /\ Followed
    /\ Staged
    /\ NothingExtra

(* The queries follow edges of their argument only, so they distribute over *)
(* the split of the closure into what is new and what is not.               *)
LEMMA Edges ==
    ASSUME NEW A, NEW B
    PROVE  /\ ProducedBy(A \union B) = ProducedBy(A) \union ProducedBy(B)
           /\ ReferrersOf(A \union B) = ReferrersOf(A) \union ReferrersOf(B)
           /\ ReadersOf(A \union B) = ReadersOf(A) \union ReadersOf(B)
           /\ A \subseteq B => ProducedBy(A) \subseteq ProducedBy(B)
           /\ A \subseteq B => ReferrersOf(A) \subseteq ReferrersOf(B)
           /\ A \subseteq B => ReadersOf(A) \subseteq ReadersOf(B)
  BY Zenon DEF ProducedBy, ReferrersOf, ReadersOf

(* A query returns rows of the partition, and the queried rows stay. *)
LEMMA Rows ==
    ASSUME NEW A, UNCHANGED rows
    PROVE  /\ ProducedBy(A) \subseteq Records /\ ReferrersOf(A) \subseteq Records
           /\ ReadersOf(A) \subseteq Jobs
           /\ \A X, J : Closed(X, J)' <=> Closed(X, J)
           /\ \A X : Wide(X)' <=> Wide(X)
  BY DEF rows, ProducedBy, ReferrersOf, ReadersOf, Closed, Wide

(* At the start everything is on a worklist, and every closed pair holds    *)
(* the seeds.                                                               *)
LEMMA InitOK == Init => IInv
<1> SUFFICES ASSUME Init PROVE IInv
  OBVIOUS
<1>1. TypeOK
  BY DEF Init, TypeOK
<1>2. Followed
  BY Zenon DEF Init, Followed, ProducedBy, ReferrersOf, ReadersOf
<1>3. NothingExtra
  BY DEF Init, NothingExtra, Closed
<1> QED BY <1>1, <1>2, <1>3 DEF Init, IInv, Staged

(* A pass follows the worklists and puts on the next ones what it adds. *)
LEMMA PassOK == IInv /\ Pass => IInv'
<1> SUFFICES ASSUME IInv, Pass PROVE IInv'
  OBVIOUS
<1> DEFINE X1 == records \union newRecords'
           J1 == jobs \union newJobs'
<1>0. UNCHANGED rows /\ records' = X1 /\ jobs' = J1 /\ stage' = stage
  BY DEF Pass, rows
<1>1. TypeOK'
  <2>1. newRecords' \subseteq Records /\ newJobs' \subseteq Jobs
    BY <1>0, Rows, Zenon DEF Pass, ProducedBy, ReferrersOf, ReadersOf
  <2> QED BY <2>1, <1>0 DEF IInv, TypeOK, rows
<1>2. Followed'
  <2>1. ProducedBy(jobs) \subseteq X1
    BY DEF IInv, Followed, Pass, ProducedBy
  <2>2. ReferrersOf(records) \subseteq X1
    BY Zenon DEF IInv, Followed, Pass, ReferrersOf
  <2>3. ReadersOf(records) \subseteq J1
    BY Zenon DEF IInv, Followed, Pass, ReadersOf
  <2>4. jobs' \ newJobs' \subseteq jobs /\ records' \ newRecords' \subseteq records
    BY <1>0
  <2>5. ProducedBy(jobs \ newJobs)' \subseteq X1
    BY <1>0, <2>1, <2>4 DEF ProducedBy, rows
  <2>6. ReferrersOf(records \ newRecords)' \subseteq X1
    BY <1>0, <2>2, <2>4 DEF ReferrersOf, rows
  <2>7. ReadersOf(records \ newRecords)' \subseteq J1
    BY <1>0, <2>3, <2>4, Zenon DEF ReadersOf, rows
  <2> QED BY <1>0, <2>5, <2>6, <2>7, Zenon DEF Followed
<1>3. Staged'
  <2>1. CASE stage = "widened"
    <3>1. records # {} /\ legacy \subseteq records
      BY <2>1 DEF IInv, Staged, Wide, TypeOK, Pass
    <3> QED BY <1>0, <2>1, <3>1 DEF Staged, Wide, rows
  <2>2. CASE stage = "expand"
    BY <1>0, <2>2 DEF Staged
  <2> QED BY <2>1, <2>2 DEF Pass, IInv, TypeOK
<1>4. NothingExtra'
  <2> SUFFICES ASSUME NEW X \in SUBSET Records, NEW J \in SUBSET Jobs,
                      Closed(X, J), Wide(X)
               PROVE  X1 \subseteq X /\ J1 \subseteq J
    BY <1>0, Rows DEF NothingExtra
  <2>1. records \subseteq X /\ jobs \subseteq J /\ newRecords \subseteq records
                             /\ newJobs \subseteq jobs
    BY DEF IInv, NothingExtra, TypeOK
  <2>2. /\ ProducedBy(newJobs) \subseteq X /\ ReferrersOf(newRecords) \subseteq X
        /\ ReadersOf(newRecords) \subseteq J
    BY <2>1, Edges, Zenon DEF Closed
  <2> QED BY <2>1, <2>2 DEF Pass
<1> QED BY <1>0, <1>1, <1>2, <1>3, <1>4 DEF IInv, rows

(* Widening happens when the worklists are empty; what it adds goes on one. *)
LEMMA WidenOK == IInv /\ Widen => IInv'
<1> SUFFICES ASSUME IInv, Widen PROVE IInv'
  OBVIOUS
<1>0. UNCHANGED rows /\ jobs' = jobs /\ newJobs' = {} /\ newJobs = {} /\ newRecords = {}
      /\ records' = records \union newRecords' /\ stage' = "widened"
  BY DEF Widen, rows
<1>1. TypeOK'
  BY <1>0 DEF IInv, TypeOK, Widen, rows
<1>2. Followed'
  BY <1>0 DEF IInv, Followed, ProducedBy, ReferrersOf, ReadersOf, rows
<1>3. Staged'
  BY <1>0 DEF Staged, Wide, Widen, rows
<1>4. NothingExtra'
  <2> SUFFICES ASSUME NEW X \in SUBSET Records, NEW J \in SUBSET Jobs,
                      Closed(X, J), Wide(X)
               PROVE  records \union newRecords' \subseteq X /\ jobs \subseteq J
    BY <1>0, Rows DEF NothingExtra
  <2>1. records \subseteq X /\ jobs \subseteq J
    BY DEF IInv, NothingExtra
  <2> QED BY <2>1 DEF Widen, Wide
<1> QED BY <1>0, <1>1, <1>2, <1>3, <1>4 DEF IInv, rows

LEMMA ReturnOK == IInv /\ Return => IInv'
  BY ZenonT(40) DEF IInv, Return, TypeOK, Followed, Staged, NothingExtra, Closed, Wide,
         ProducedBy, ReferrersOf, ReadersOf, rows

LEMMA StutterOK == IInv /\ UNCHANGED vars => IInv'
  BY ZenonT(40) DEF IInv, vars, rows, work, TypeOK, Followed, Staged, NothingExtra, Closed, Wide,
         ProducedBy, ReferrersOf, ReadersOf

(* IInv holds throughout: it is inductive. *)
THEOREM Invariance == Spec => []IInv
<1>1. IInv /\ [Next]_vars => IInv'
  BY PassOK, WidenOK, ReturnOK, StutterOK DEF Next
<1> QED BY InitOK, <1>1, PTL DEF Spec

(* forgettingClosure never leaves the partition's Records and jobs. *)
THEOREM TypeCorrect == Spec => []TypeOK
<1>1. IInv => TypeOK
  BY DEF IInv
<1> QED BY Invariance, <1>1, PTL

(* When forgettingClosure returns, with empty worklists, everything it      *)
(* attributed has been followed: no derived Record escapes the barrier.     *)
THEOREM Sound == Spec => []NothingEscapes
<1>1. IInv => NothingEscapes
  BY DEF IInv, NothingEscapes, Closed, Followed, Staged, ProducedBy, ReferrersOf, ReadersOf
<1> QED BY Invariance, <1>1, PTL

(* forgettingClosure attributes nothing that a sound closure could omit.    *)
THEOREM Exact == Spec => []NothingExtra
<1>1. IInv => NothingExtra
  BY DEF IInv
<1> QED BY Invariance, <1>1, PTL

(* A nonempty set of naturals has a least element. *)
LEMMA Least ==
    ASSUME NEW S \in SUBSET Nat, S # {}
    PROVE  \E n \in S : \A k \in S : n <= k
  <1> DEFINE R == OpToRel(<, Nat)
  <1>1. IsWellFoundedOn(R, Nat)
    BY NatLessThanWellFounded, Zenon
  <1>2. PICK n \in S : \A k \in S : ~(<<k, n>> \in R)
    <2> HIDE DEF R
    <2> QED  BY <1>1, WFMin, Zenon
  <1>3. \A k \in S : ~(k < n)
    BY <1>2, Zenon DEF OpToRel
  <1> QED  BY <1>3

-----------------------------------------------------------------------------
(* Recall's budget: the size of what is projected *)

Term(f, s, i) == IF i = 0 THEN 0 ELSE f[i - 1] + Size(s[i].shown)
Total(s) == CHOOSE f : f = [i \in 0..Len(s) |-> Term(f, s, i)]
Totals(f, s, n) == \A i \in 0..n : f[i] = Term(f, s, i)
Sized(s) == Len(s) \in Nat /\ \A i \in 1..Len(s) : Size(s[i].shown) \in Nat

(* The fold over the fragments already projected has a value: there is a    *)
(* function of running totals.                                              *)
LEMMA TotalExists ==
    ASSUME NEW s, Sized(s)
    PROVE  \E f \in [0..Len(s) -> Nat] : \A i \in 0..Len(s) : f[i] = Term(f, s, i)
  <1> DEFINE P(m) == \E f \in [0..Len(s) -> Nat] : \A i \in 0..m : f[i] = Term(f, s, i)
             Bad == {m \in 0..Len(s) : ~P(m)}
  <1>0. Len(s) \in Nat  BY DEF Sized
  <1>1. P(0)
    <2> DEFINE f == [i \in 0..Len(s) |-> 0]
    <2>1. f \in [0..Len(s) -> Nat] /\ \A i \in 0..0 : f[i] = Term(f, s, i)
      BY <1>0 DEF Term
    <2> QED  BY <2>1, Zenon
  <1>2. ASSUME NEW m \in 0..Len(s), m > 0, P(m - 1)
        PROVE  P(m)
    <2>1. PICK f \in [0..Len(s) -> Nat] : \A i \in 0..(m - 1) : f[i] = Term(f, s, i)
      BY <1>2, Zenon
    <2>2. PICK v \in Nat : v = f[m - 1] + Size(s[m].shown)
      <3>1. m \in 1..Len(s) /\ m - 1 \in 0..Len(s)  BY <1>0, <1>2
      <3>2. Size(s[m].shown) \in Nat  BY <3>1, Zenon DEF Sized
      <3>3. f[m - 1] \in Nat  BY <3>1, Zenon
      <3> QED  BY <3>2, <3>3
    <2> DEFINE g == [f EXCEPT ![m] = v]
    <2>3. g \in [0..Len(s) -> Nat]  BY <2>2
    <2>4. ASSUME NEW i \in 0..m PROVE g[i] = Term(g, s, i)
      <3>1. CASE i = m  BY <3>1, <1>0, <1>2, <2>2 DEF Term
      <3>2. CASE i # m
        <4>1. i \in 0..(m - 1) /\ i \in 0..Len(s) /\ (i # 0 => i - 1 \in 0..Len(s) /\ i - 1 # m)
          BY <3>2, <1>0, <1>2
        <4>2. g[i] = f[i] /\ (i # 0 => g[i - 1] = f[i - 1])  BY <4>1, <3>2
        <4> QED  BY <4>1, <4>2, <2>1 DEF Term
      <3> QED  BY <3>1, <3>2
    <2> HIDE DEF g
    <2> QED  BY <2>3, <2>4, Zenon
  <1>3. Bad = {}
    <2> HIDE DEF P
    <2> SUFFICES ASSUME Bad # {} PROVE FALSE  OBVIOUS
    <2>1. Bad \in SUBSET Nat  BY <1>0
    <2>2. PICK n \in Bad : \A k \in Bad : n <= k
      <3> HIDE DEF Bad
      <3> QED  BY <2>1, Least, Zenon
    <2>3. n # 0  BY <2>2, <1>1
    <2>4. n - 1 \in 0..Len(s) /\ n > 0 /\ n \in 0..Len(s)  BY <2>2, <2>3, <1>0
    <2>5. P(n - 1)  BY <2>2, <2>4
    <2> QED  BY <2>2, <2>4, <2>5, <1>2
  <1>4. P(Len(s))
    <2> HIDE DEF P
    <2> QED  BY <1>0, <1>3
  <1> QED  BY <1>4, Zenon

(* Running totals of a sequence are running totals of any that starts with  *)
(* it.                                                                      *)
LEMMA TotalsAgree ==
    ASSUME NEW s, NEW t, NEW f, NEW g, Len(s) \in Nat,
           \A i \in 1..Len(s) : s[i] = t[i],
           Totals(f, s, Len(s)), Totals(g, t, Len(s))
    PROVE  f[Len(s)] = g[Len(s)]
  <1> DEFINE Bad == {i \in 0..Len(s) : f[i] # g[i]}
  <1>1. Bad = {}
    <2> SUFFICES ASSUME Bad # {} PROVE FALSE  OBVIOUS
    <2>1. Bad \in SUBSET Nat  OBVIOUS
    <2>2. PICK n \in Bad : \A k \in Bad : n <= k
      <3> HIDE DEF Bad
      <3> QED  BY <2>1, Least, Zenon
    <2>3. n # 0  BY <2>2 DEF Term, Totals
    <2>4. n - 1 \in 0..Len(s) /\ n \in 1..Len(s) /\ n \in 0..Len(s) /\ ~(n <= n - 1)
      BY <2>2, <2>3
    <2>5. f[n - 1] = g[n - 1]  BY <2>2, <2>4
    <2>6. f[n] = f[n - 1] + Size(s[n].shown) /\ g[n] = g[n - 1] + Size(t[n].shown)
      BY <2>3, <2>4, Zenon DEF Term, Totals
    <2>7. s[n] = t[n]  BY <2>4, Zenon
    <2> QED  BY <2>2, <2>5, <2>6, <2>7, Zenon
  <1> QED  BY <1>1

LEMMA TotalIs ==
    ASSUME NEW s, Sized(s)
    PROVE  /\ \A i \in 0..Len(s) : Total(s)[i] = Term(Total(s), s, i)
           /\ Bytes(s) = Total(s)[Len(s)]
           /\ Bytes(s) \in Nat
  <1>0. Len(s) \in Nat  BY DEF Sized
  <1>1. PICK f \in [0..Len(s) -> Nat] : \A i \in 0..Len(s) : f[i] = Term(f, s, i)
    BY TotalExists, Zenon
  <1>2. f = [i \in 0..Len(s) |-> Term(f, s, i)]
    BY <1>1, Zenon
  <1>3. Total(s) = [i \in 0..Len(s) |-> Term(Total(s), s, i)]
    BY <1>2, Zenon DEF Total
  <1>4. PICK t : t = Total(s)  OBVIOUS
  <1>5. t = [i \in 0..Len(s) |-> Term(t, s, i)]
    BY <1>3, <1>4, Zenon
  <1>6. \A i \in 0..Len(s) : t[i] = Term(t, s, i)
    BY <1>5, Zenon
  <1>7. Bytes(s) = t[Len(s)]
    BY <1>4, Zenon DEF Bytes, Total, Term
  <1>8. f[Len(s)] = t[Len(s)]
    <2>1. Totals(f, s, Len(s)) /\ Totals(t, s, Len(s))  BY <1>1, <1>6, Zenon DEF Totals
    <2> QED  BY <1>0, <2>1, TotalsAgree, Zenon
  <1>9. f[Len(s)] \in Nat  BY <1>0, <1>1
  <1> QED  BY <1>4, <1>6, <1>7, <1>8, <1>9, Zenon

(* What projecting one more fragment adds. *)
LEMMA BytesOfLonger ==
    ASSUME NEW s, NEW t, Sized(s), Sized(t), Len(t) = Len(s) + 1,
           \A i \in 1..Len(s) : s[i] = t[i]
    PROVE  Bytes(t) = Bytes(s) + Size(t[Len(s) + 1].shown)
  <1>1. Len(s) \in Nat  BY DEF Sized
  <1>2. PICK f : f = Total(s)  OBVIOUS
  <1>3. PICK g : g = Total(t)  OBVIOUS
  <1>4. \A i \in 0..Len(s) : f[i] = Term(f, s, i)
    BY <1>2, TotalIs, Zenon
  <1>5. Bytes(s) = f[Len(s)]
    BY <1>2, TotalIs, Zenon
  <1>6. \A i \in 0..Len(t) : g[i] = Term(g, t, i)
    BY <1>3, TotalIs, Zenon
  <1>7. Bytes(t) = g[Len(t)]
    BY <1>3, TotalIs, Zenon
  <1>8. \A i \in 0..Len(s) : g[i] = Term(g, t, i)
    <2>1. \A i \in 0..Len(s) : i \in 0..(Len(s) + 1)  BY <1>1
    <2> QED  BY <1>6, <2>1, Zenon
  <1>9. f[Len(s)] = g[Len(s)]
    <2>1. Totals(f, s, Len(s)) /\ Totals(g, t, Len(s))  BY <1>4, <1>8, Zenon DEF Totals
    <2> QED  BY <1>1, <2>1, TotalsAgree, Zenon
  <1>10. g[Len(s) + 1] = Term(g, t, Len(s) + 1)
    <2>1. Len(s) + 1 \in 0..(Len(s) + 1)  BY <1>1
    <2> QED  BY <1>6, <2>1, Zenon
  <1>11. Term(g, t, Len(s) + 1) = g[Len(s)] + Size(t[Len(s) + 1].shown)
    BY <1>1 DEF Term
  <1> QED  BY <1>5, <1>7, <1>9, <1>10, <1>11, Zenon

LEMMA BytesOfNone == Bytes(<<>>) = 0
  <1>1. Len(<<>>) = 0  OBVIOUS
  <1>2. Sized(<<>>)  BY <1>1 DEF Sized
  <1>3. Total(<<>>)[0] = Term(Total(<<>>), <<>>, 0) /\ Bytes(<<>>) = Total(<<>>)[0]
    BY <1>1, <1>2, TotalIs
  <1> QED  BY <1>3, Zenon DEF Term

(* fitProjectedText: the binary search *)

Windows(length) == (0..(length + 1)) \X (-1..length)
Extent(w) == w[2] - w[1] + 1
Middle(w) == w[1] + (w[2] - w[1]) \div 2
Above(w) == <<Middle(w) + 1, w[2]>>
Below(w) == <<w[1], Middle(w) - 1>>
Probe(f, w) ==
    IF w[1] > w[2] THEN 0
    ELSE IF ~Fits(Middle(w)) THEN f[Below(w)]
    ELSE IF f[Above(w)] > Middle(w) THEN f[Above(w)] ELSE Middle(w)
Search(length) == CHOOSE f : f = [w \in Windows(length) |-> Probe(f, w)]

LEMMA LongestIs ==
    ASSUME NEW length
    PROVE  Longest(length) = Search(length)[<<0, length>>]
  BY Zenon DEF Longest, Search, Windows, Probe, Middle, Above, Below

(* The windows that the search turns to are narrower, and in range. *)
LEMMA Narrower ==
    ASSUME NEW length \in Nat, NEW w \in Windows(length), w[1] <= w[2]
    PROVE  /\ Middle(w) \in 0..length /\ w[1] <= Middle(w) /\ Middle(w) <= w[2]
           /\ Above(w) \in Windows(length) /\ Extent(Above(w)) < Extent(w)
           /\ Below(w) \in Windows(length) /\ Extent(Below(w)) < Extent(w)
  <1>1. w[1] \in 0..(length + 1) /\ w[2] \in -1..length  BY DEF Windows
  <1>2. PICK low \in Int : low = w[1]  BY <1>1
  <1>3. PICK high \in Int : high = w[2]  BY <1>1
  <1>4. PICK middle \in Int : middle = low + (high - low) \div 2  OBVIOUS
  <1>5. low <= middle /\ middle <= high
    BY <1>2, <1>3, <1>4
  <1>6. middle = Middle(w)  BY <1>2, <1>3, <1>4 DEF Middle
  <1>7. middle \in 0..length  BY <1>1, <1>2, <1>3, <1>5
  <1>8. Above(w) = <<middle + 1, high>> /\ Below(w) = <<low, middle - 1>>
    BY <1>2, <1>3, <1>6 DEF Above, Below
  <1>9. Above(w) \in Windows(length) /\ Below(w) \in Windows(length)
    BY <1>1, <1>2, <1>3, <1>5, <1>7, <1>8 DEF Windows
  <1>10. Extent(Above(w)) = high - middle /\ Extent(Below(w)) = middle - low /\ Extent(w) = high - low + 1
    BY <1>2, <1>3, <1>8 DEF Extent
  <1> QED  BY <1>2, <1>3, <1>5, <1>6, <1>7, <1>9, <1>10

LEMMA ExtentOf ==
    ASSUME NEW length \in Nat, NEW w \in Windows(length)
    PROVE  Extent(w) \in Int /\ Extent(w) <= length + 1 /\ (w[1] <= w[2] <=> Extent(w) > 0)
  <1>1. w[1] \in 0..(length + 1) /\ w[2] \in -1..length  BY DEF Windows
  <1> QED  BY <1>1 DEF Extent

AgreeBelow(f, g, w, length) == \A v \in Windows(length) : Extent(v) < Extent(w) => f[v] = g[v]

(* A probe of a window depends only on narrower ones. *)
LEMMA ProbesAlike ==
    ASSUME NEW length \in Nat, NEW w \in Windows(length), NEW f, NEW g,
           AgreeBelow(f, g, w, length)
    PROVE  Probe(f, w) = Probe(g, w)
  <1>0. w[1] \in Int /\ w[2] \in Int  BY DEF Windows
  <1>1. CASE w[1] > w[2]  BY <1>1, Zenon DEF Probe
  <1>2. CASE w[1] <= w[2]
    <2>1. f[Above(w)] = g[Above(w)] /\ f[Below(w)] = g[Below(w)]
      BY <1>2, Narrower, Zenon DEF AgreeBelow
    <2> QED  BY <2>1, Zenon DEF Probe
  <1> QED  BY <1>0, <1>1, <1>2

LEMMA ProbeInRange ==
    ASSUME NEW length \in Nat, NEW w \in Windows(length), NEW f \in [Windows(length) -> 0..length]
    PROVE  Probe(f, w) \in 0..length
  <1>0. w[1] \in Int /\ w[2] \in Int  BY DEF Windows
  <1>1. CASE w[1] > w[2]
    <2>1. Probe(f, w) = 0  BY <1>1, Zenon DEF Probe
    <2> QED  BY <2>1
  <1>2. CASE w[1] <= w[2]
    <2>1. f[Above(w)] \in 0..length /\ f[Below(w)] \in 0..length /\ Middle(w) \in 0..length
      BY <1>2, Narrower, Zenon
    <2>2. Probe(f, w) \in {0, f[Below(w)], f[Above(w)], Middle(w)}
      BY Zenon DEF Probe
    <2> QED  BY <2>1, <2>2
  <1> QED  BY <1>0, <1>1, <1>2

Searched(f, length, g) == \A w \in Windows(length) : Extent(w) <= g => f[w] = Probe(f, w)

(* The search ends: there is a function of what it finds in each window. *)
LEMMA SearchExists ==
    ASSUME NEW length \in Nat
    PROVE  \E f \in [Windows(length) -> 0..length] : Searched(f, length, length + 1)
  <1> DEFINE P(g) == \E f \in [Windows(length) -> 0..length] : Searched(f, length, g)
             Bad == {g \in Nat : ~P(g)}
  <1>1. P(0)
    <2>1. PICK f : f = [w \in Windows(length) |-> 0]  BY Zenon
    <2>2. f \in [Windows(length) -> 0..length]  BY <2>1
    <2>3. ASSUME NEW w \in Windows(length), Extent(w) <= 0 PROVE f[w] = Probe(f, w)
      <3>1. w[1] > w[2]
        <4>1. w[1] \in 0..(length + 1) /\ w[2] \in -1..length  BY DEF Windows
        <4> QED  BY <2>3, <4>1 DEF Extent
      <3> QED  BY <2>1, <3>1, Zenon DEF Probe
    <2> QED  BY <2>2, <2>3, Zenon DEF Searched
  <1>2. ASSUME NEW g \in Nat, P(g) PROVE P(g + 1)
    <2>1. PICK f \in [Windows(length) -> 0..length] : Searched(f, length, g)
      BY <1>2, Zenon
    <2>2. PICK h : h = [w \in Windows(length) |-> Probe(f, w)]  BY Zenon
    <2>3. h \in [Windows(length) -> 0..length]
      BY <2>2, ProbeInRange, Zenon
    <2>4. \A v \in Windows(length) : Extent(v) <= g => h[v] = f[v]
      BY <2>1, <2>2, Zenon DEF Searched
    <2>5. ASSUME NEW w \in Windows(length), Extent(w) <= g + 1 PROVE h[w] = Probe(h, w)
      <3>1. \A v \in Windows(length) : Extent(v) < Extent(w) => Extent(v) <= g
        <4> TAKE v \in Windows(length)
        <4>1. Extent(v) \in Int /\ Extent(w) \in Int  BY ExtentOf, Zenon
        <4> QED  BY <4>1, <2>5
      <3>2. Probe(h, w) = Probe(f, w)
        <4>1. AgreeBelow(h, f, w, length)
          BY <3>1, <2>4, Zenon DEF AgreeBelow
        <4> QED  BY <4>1, ProbesAlike, ZenonT(30)
      <3> QED  BY <3>2, <2>2, Zenon
    <2> QED  BY <2>3, <2>5, Zenon DEF Searched
  <1>3. Bad = {}
    <2> HIDE DEF P
    <2> SUFFICES ASSUME Bad # {} PROVE FALSE  OBVIOUS
    <2>1. Bad \in SUBSET Nat  OBVIOUS
    <2>2. PICK n \in Bad : \A k \in Bad : n <= k
      <3> HIDE DEF Bad
      <3> QED  BY <2>1, Least, Zenon
    <2>3. n # 0  BY <2>2, <1>1
    <2>4. n - 1 \in Nat /\ n = (n - 1) + 1 /\ ~(n <= n - 1)  BY <2>2, <2>3
    <2>5. P(n - 1)  BY <2>2, <2>4
    <2>6. P(n)  BY <2>4, <2>5, <1>2
    <2> QED  BY <2>2, <2>6
  <1>4. P(length + 1)
    <2> HIDE DEF P
    <2>1. length + 1 \in Nat  OBVIOUS
    <2> QED  BY <1>3, <2>1
  <1> QED  BY <1>4, Zenon

LEMMA SearchIs ==
    ASSUME NEW length \in Nat
    PROVE  \A w \in Windows(length) : Search(length)[w] = Probe(Search(length), w)
  <1>1. PICK f \in [Windows(length) -> 0..length] : Searched(f, length, length + 1)
    BY SearchExists, Zenon
  <1>2. \A w \in Windows(length) : f[w] = Probe(f, w)
    BY <1>1, ExtentOf, Zenon DEF Searched
  <1>3. f = [w \in Windows(length) |-> Probe(f, w)]
    BY <1>1, <1>2, Zenon
  <1>4. Search(length) = [w \in Windows(length) |-> Probe(Search(length), w)]
    BY <1>3, Zenon DEF Search
  <1>5. PICK t : t = Search(length)  OBVIOUS
  <1>6. t = [w \in Windows(length) |-> Probe(t, w)]
    BY <1>4, <1>5, Zenon
  <1>7. \A w \in Windows(length) : t[w] = Probe(t, w)
    BY <1>6, Zenon
  <1> QED  BY <1>5, <1>7, Zenon

(* What the search finds in a window: nothing, or a length of the window    *)
(* that fits, and no longer one does.                                       *)
Found(r, w) ==
    /\ r \in Nat
    /\ r # 0 => w[1] <= r /\ r <= w[2] /\ Fits(r)
    /\ \A n \in Nat : w[1] <= n /\ n <= w[2] /\ Fits(n) => n <= r

Antitone(length) == \A m, n \in 0..length : m <= n /\ Fits(n) => Fits(m)

LEMMA ProbeFinds ==
    ASSUME NEW length \in Nat, Antitone(length), NEW w \in Windows(length), NEW f,
           \A v \in Windows(length) : Extent(v) < Extent(w) => Found(f[v], v)
    PROVE  Found(Probe(f, w), w)
  <1>0. w[1] \in 0..(length + 1) /\ w[2] \in -1..length  BY DEF Windows
  <1>1. CASE w[1] > w[2]
    <2>1. Probe(f, w) = 0  BY <1>1, Zenon DEF Probe
    <2> QED  BY <1>0, <1>1, <2>1 DEF Found
  <1>2. CASE w[1] <= w[2]
    <2>0. PICK middle \in 0..length : middle = Middle(w) /\ w[1] <= middle /\ middle <= w[2]
      BY <1>2, Narrower
    <2>1. ~(w[1] > w[2])  BY <1>0, <1>2
    <2>2. PICK a : a = f[Above(w)]  OBVIOUS
    <2>3. PICK b : b = f[Below(w)]  OBVIOUS
    <2>4. Found(a, Above(w)) /\ Found(b, Below(w))
      BY <1>2, <2>2, <2>3, Narrower, Zenon
    <2>5. /\ a \in Nat /\ (a # 0 => middle + 1 <= a /\ a <= w[2] /\ Fits(a))
          /\ \A n \in Nat : middle + 1 <= n /\ n <= w[2] /\ Fits(n) => n <= a
      <3>1. Above(w)[1] = middle + 1 /\ Above(w)[2] = w[2]  BY <2>0 DEF Above
      <3> QED  BY <2>4, <3>1, Zenon DEF Found
    <2>6. /\ b \in Nat /\ (b # 0 => w[1] <= b /\ b <= middle - 1 /\ Fits(b))
          /\ \A n \in Nat : w[1] <= n /\ n <= middle - 1 /\ Fits(n) => n <= b
      <3>1. Below(w)[1] = w[1] /\ Below(w)[2] = middle - 1  BY <2>0 DEF Below
      <3> QED  BY <2>4, <3>1, Zenon DEF Found
    <2>7. CASE ~Fits(middle)
      <3>1. Probe(f, w) = b  BY <2>0, <2>1, <2>3, <2>7, Zenon DEF Probe
      <3>2. b # 0 => w[1] <= b /\ b <= w[2] /\ Fits(b)  BY <1>0, <2>0, <2>6
      <3>3. ASSUME NEW n \in Nat, w[1] <= n, n <= w[2], Fits(n) PROVE n <= b
        <4>1. n \in 0..length  BY <1>0, <3>3
        <4>2. ~(middle <= n)  BY <4>1, <2>0, <2>7, <3>3, Zenon DEF Antitone
        <4>3. n <= middle - 1  BY <4>1, <4>2, <2>0
        <4> QED  BY <4>3, <2>6, <3>3, Zenon
      <3> QED  BY <3>1, <3>2, <3>3, <2>6, Zenon DEF Found
    <2>8. CASE Fits(middle) /\ a > middle
      <3>1. Probe(f, w) = a  BY <2>0, <2>1, <2>2, <2>8, Zenon DEF Probe
      <3>2. a # 0 => w[1] <= a /\ a <= w[2] /\ Fits(a)  BY <1>0, <2>0, <2>5
      <3>3. ASSUME NEW n \in Nat, w[1] <= n, n <= w[2], Fits(n) PROVE n <= a
        <4>1. n <= middle \/ middle + 1 <= n  BY <2>0
        <4>2. CASE n <= middle  BY <4>2, <2>0, <2>5, <2>8
        <4>3. CASE middle + 1 <= n  BY <4>3, <2>5, <3>3, Zenon
        <4> QED  BY <4>1, <4>2, <4>3
      <3> QED  BY <3>1, <3>2, <3>3, <2>5, Zenon DEF Found
    <2>9. CASE Fits(middle) /\ ~(a > middle)
      <3>1. Probe(f, w) = middle  BY <2>0, <2>1, <2>2, <2>9, Zenon DEF Probe
      <3>2. a = 0  BY <2>0, <2>5, <2>9
      <3>3. ASSUME NEW n \in Nat, w[1] <= n, n <= w[2], Fits(n) PROVE n <= middle
        <4>1. n <= middle \/ middle + 1 <= n  BY <2>0
        <4>2. CASE middle + 1 <= n
          <5>1. n <= a  BY <4>2, <2>5, <3>3, Zenon
          <5> QED  BY <5>1, <4>2, <3>2, <2>0
        <4> QED  BY <4>1, <4>2
      <3>4. middle \in Nat  BY <2>0
      <3> QED  BY <3>1, <3>3, <3>4, <2>0, <2>9, Zenon DEF Found
    <2> QED  BY <2>7, <2>8, <2>9, Zenon
  <1> QED  BY <1>0, <1>1, <1>2

(* fitProjectedText finds the longest prefix that fits, when less of a text *)
(* that fits still fits.                                                    *)
LEMMA LongestFits ==
    ASSUME NEW length \in Nat, Antitone(length)
    PROVE  /\ Longest(length) \in 0..length
           /\ Longest(length) # 0 => Fits(Longest(length))
           /\ \A n \in 0..length : Fits(n) => n <= Longest(length)
  <1>1. PICK f : f = Search(length)  OBVIOUS
  <1>2. \A w \in Windows(length) : f[w] = Probe(f, w)
    BY <1>1, SearchIs, Zenon
  <1> DEFINE Bad == {g \in Nat : \E w \in Windows(length) : Extent(w) <= g /\ ~Found(f[w], w)}
  <1>3. Bad = {}
    <2> SUFFICES ASSUME Bad # {} PROVE FALSE  OBVIOUS
    <2>1. Bad \in SUBSET Nat  OBVIOUS
    <2>2. PICK g \in Bad : \A k \in Bad : g <= k
      <3> HIDE DEF Bad
      <3> QED  BY <2>1, Least, Zenon
    <2>3. PICK w \in Windows(length) : Extent(w) <= g /\ ~Found(f[w], w)
      BY <2>2, Zenon
    <2>4. ASSUME NEW v \in Windows(length), Extent(v) < Extent(w) PROVE Found(f[v], v)
      <3>0. Extent(v) \in Int /\ Extent(w) \in Int  BY ExtentOf, Zenon
      <3>1. CASE Extent(v) <= 0
        <4>1. ~(v[1] <= v[2])  BY <3>0, <3>1, ExtentOf
        <4>2. v[1] \in 0..(length + 1) /\ v[2] \in -1..length  BY DEF Windows
        <4>3. v[1] > v[2]  BY <4>1, <4>2
        <4>4. f[v] = 0  BY <4>3, <1>2, Zenon DEF Probe
        <4> QED  BY <4>2, <4>3, <4>4 DEF Found
      <3>2. CASE Extent(v) > 0
        <4>1. Extent(v) \in Nat /\ ~(g <= Extent(v)) /\ Extent(v) <= Extent(v)
          BY <3>0, <3>2, <2>1, <2>3, <2>4
        <4>2. Extent(v) \notin Bad  BY <4>1, <2>2, Zenon
        <4> QED  BY <4>1, <4>2, Zenon
      <3> QED  BY <3>0, <3>1, <3>2
    <2>5. Found(Probe(f, w), w)
      BY <2>4, ProbeFinds, Zenon
    <2> QED  BY <2>3, <2>5, <1>2, Zenon
  <1>4. PICK w : w = <<0, length>>  BY Zenon
  <1>5. w \in Windows(length) /\ w[1] = 0 /\ w[2] = length  BY <1>4 DEF Windows
  <1>6. Found(f[w], w)
    <2>1. length + 1 \in Nat /\ Extent(w) <= length + 1  BY <1>5, ExtentOf
    <2>2. length + 1 \notin Bad  BY <1>3, Zenon
    <2> QED  BY <1>5, <2>1, <2>2, Zenon
  <1>7. f[w] = Longest(length)
    BY <1>1, <1>4, LongestIs, Zenon
  <1>8. PICK r : r = Longest(length)  OBVIOUS
  <1>9. Found(r, w)  BY <1>6, <1>7, <1>8, Zenon
  <1>10. r \in Nat /\ (r # 0 => 0 <= r /\ r <= length /\ Fits(r))
    BY <1>9, <1>5, Zenon DEF Found
  <1>11. \A n \in 0..length : Fits(n) => n <= r
    <2> TAKE n \in 0..length
    <2>1. n \in Nat /\ 0 <= n /\ n <= length  OBVIOUS
    <2> QED  BY <2>1, <1>9, <1>5, Zenon DEF Found
  <1>12. r \in 0..length  BY <1>10
  <1> QED  BY <1>8, <1>10, <1>11, <1>12, Zenon

(* The invariant of Recall's merge and budget loop *)

Candidate ==
    [id : Stored \union Derived, text : Texts, class : {"private", "shared"}, semantic : BOOLEAN,
     evidence : SUBSET Stored, records : SUBSET Derived]
Shown == [fragment : Candidate, shown : Nat]

Covered(f) == f.class = "shared" => \A r \in f.evidence : home[r] \notin PrivateHomes

(* What is left of a candidate in the fragment it went into. *)
Absorbs(f, c) ==
    /\ f.text = c.text /\ c.evidence \subseteq f.evidence /\ c.records \subseteq f.records
    /\ ~c.semantic => f.id = c.id /\ ~f.semantic
Kept(c) == \E i \in DOMAIN fragments : Absorbs(fragments[i], c)

(* A Space that has been read gave the candidates its queries return. *)
HasReceipt(r) == \E c \in candidates : ~c.semantic /\ c.id = r /\ r \in c.evidence
ReceiptsRead(space) ==
    \E T \in Top(ReceiptsOf(space) \intersect matches, ReceiptLimit) : \A r \in T : HasReceipt(r)
HasRecord(x) == \E c \in candidates : x \in c.records
RecordsRead(space) ==
    \E T \in Top(RecordsOf(space) \intersect matches, RecordLimit) : \A x \in T : HasRecord(x)

MergeTyped ==
    /\ home \in [Stored -> Homes]
    /\ candidates \subseteq Candidate /\ waiting \subseteq candidates
    /\ fragments \in Seq(Candidate) /\ budget \in [fragments : Nat, bytes : Nat]
    /\ answer \in Seq(Shown) /\ truncated \in BOOLEAN /\ answered \in BOOLEAN
MergeCovered ==
    /\ \A c \in candidates : Covered(c)
    /\ \A i \in DOMAIN fragments : Covered(fragments[i])
MergeKept == \A c \in candidates : c \in waiting \/ Kept(c)
MergeRead ==
    /\ \A space \in Homes \ unread : ReceiptsRead(space)
    /\ ~degraded => \A space \in Homes \ unread : RecordsRead(space)
MergePhase ==
    /\ budget.fragments = 0 => answer = <<>> /\ ~answered /\ ~truncated
    /\ budget.fragments # 0 => waiting = {} /\ unread = {} /\ budget.fragments < ReceiptLimit
MergePrefix ==
    /\ Len(answer) <= Len(fragments) /\ Len(answer) <= budget.fragments
    /\ \A i \in 1..Len(answer) : answer[i].fragment = fragments[i]
MergeWhole ==
    /\ ~answered \/ ~truncated => \A i \in 1..Len(answer) : answer[i].shown = answer[i].fragment.text
    /\ answered /\ ~truncated => Len(answer) = Len(fragments)
Cut == Len(answer) > 0 /\ answer[Len(answer)].shown < answer[Len(answer)].fragment.text
MergeTight ==
    /\ Bytes(answer) <= budget.bytes
    /\ truncated /\ ~answered => Len(answer) = budget.fragments
    /\ answered /\ Cut => Bytes(answer) + 1 > budget.bytes
    /\ truncated /\ answered /\ ~Cut /\ Len(answer) < budget.fragments =>
          Bytes(answer) + 2 > budget.bytes

MergeInv ==
    /\ MergeTyped /\ MergeCovered /\ MergeKept /\ MergeRead
    /\ MergePhase /\ MergePrefix /\ MergeWhole /\ MergeTight

LEMMA ReceiptCovered ==
    ASSUME NEW r \in Stored, NEW text \in Texts
    PROVE  ReceiptCandidate(r, text) \in Candidate /\ Covered(ReceiptCandidate(r, text))
  <1>1. ReceiptCandidate(r, text) \in Candidate
    BY DEF ReceiptCandidate, Candidate, ClassOf
  <1>2. /\ ReceiptCandidate(r, text).class = ClassOf(home[r])
        /\ ReceiptCandidate(r, text).evidence = {r}
    BY DEF ReceiptCandidate
  <1>3. ClassOf(home[r]) = "shared" => home[r] \notin PrivateHomes
    BY DEF ClassOf
  <1> QED  BY <1>1, <1>2, <1>3, Zenon DEF Covered

LEMMA RecordCovered ==
    ASSUME NEW x \in Derived, NEW text \in Texts, NEW space, NEW E \in SUBSET Stored, Valid(E, space)
    PROVE  RecordCandidate(x, text, space, E) \in Candidate /\ Covered(RecordCandidate(x, text, space, E))
  <1>1. RecordCandidate(x, text, space, E) \in Candidate
    BY DEF RecordCandidate, Candidate, ClassOf
  <1>2. /\ RecordCandidate(x, text, space, E).class = ClassOf(space)
        /\ RecordCandidate(x, text, space, E).evidence = E
    BY DEF RecordCandidate
  <1>3. ClassOf(space) = "shared" => space \notin PrivateHomes
    BY DEF ClassOf
  <1> QED  BY <1>1, <1>2, <1>3, Zenon DEF Covered, Valid

LEMMA MergeInitInv == MergeInit => MergeInv
  <1> SUFFICES ASSUME MergeInit PROVE MergeInv  OBVIOUS
  <1>1. /\ home \in [Stored -> Homes] /\ unread = Homes /\ candidates = {} /\ waiting = {}
        /\ fragments = <<>> /\ budget = [fragments |-> 0, bytes |-> 0]
        /\ answer = <<>> /\ truncated = FALSE /\ answered = FALSE
    BY Zenon DEF MergeInit
  <1>2. MergeTyped
    <2>1. budget \in [fragments : Nat, bytes : Nat]  BY <1>1
    <2>2. fragments \in Seq(Candidate) /\ answer \in Seq(Shown)  BY <1>1
    <2> QED  BY <1>1, <2>1, <2>2, Zenon DEF MergeTyped
  <1>3. MergeCovered
    <2>1. DOMAIN fragments = {}  BY <1>1
    <2> QED  BY <1>1, <2>1, Zenon DEF MergeCovered
  <1>4. MergeKept /\ MergeRead  BY <1>1, Zenon DEF MergeKept, MergeRead
  <1>5. budget.fragments = 0 /\ budget.bytes = 0 /\ Len(answer) = 0 /\ Len(fragments) = 0  BY <1>1
  <1>6. MergePhase  BY <1>1, <1>5, Zenon DEF MergePhase
  <1>7. MergePrefix  BY <1>5 DEF MergePrefix
  <1>8. MergeWhole  BY <1>1, <1>5 DEF MergeWhole
  <1>9. MergeTight
    <2>1. Bytes(answer) = 0  BY <1>1, BytesOfNone, Zenon
    <2> QED  BY <2>1, <1>1, <1>5 DEF MergeTight
  <1> QED  BY <1>2, <1>3, <1>4, <1>6, <1>7, <1>8, <1>9, Zenon DEF MergeInv

(* Reading on loses nothing of what was read. *)
LEMMA StillRead ==
    ASSUME UNCHANGED <<home, place, matches>>, candidates \subseteq candidates', NEW space
    PROVE  /\ ReceiptsRead(space) => ReceiptsRead(space)'
           /\ RecordsRead(space) => RecordsRead(space)'
  <1>1. ReceiptsOf(space)' = ReceiptsOf(space) /\ RecordsOf(space)' = RecordsOf(space)
    BY Zenon DEF ReceiptsOf, RecordsOf
  <1>2. ASSUME NEW r, HasReceipt(r) PROVE HasReceipt(r)'  BY <1>2, Zenon DEF HasReceipt
  <1>3. ASSUME NEW x, HasRecord(x) PROVE HasRecord(x)'  BY <1>3, Zenon DEF HasRecord
  <1>4. ASSUME ReceiptsRead(space) PROVE ReceiptsRead(space)'
    <2>1. PICK T \in Top(ReceiptsOf(space) \intersect matches, ReceiptLimit) : \A r \in T : HasReceipt(r)
      BY <1>4, Zenon DEF ReceiptsRead
    <2>2. T \in Top(ReceiptsOf(space)' \intersect matches', ReceiptLimit)  BY <1>1, <2>1, Zenon
    <2>3. \A r \in T : HasReceipt(r)'  BY <1>2, <2>1, Zenon
    <2> QED  BY <2>2, <2>3, Zenon DEF ReceiptsRead, Top
  <1>5. ASSUME RecordsRead(space) PROVE RecordsRead(space)'
    <2>1. PICK T \in Top(RecordsOf(space) \intersect matches, RecordLimit) : \A x \in T : HasRecord(x)
      BY <1>5, Zenon DEF RecordsRead
    <2>2. T \in Top(RecordsOf(space)' \intersect matches', RecordLimit)  BY <1>1, <2>1, Zenon
    <2>3. \A x \in T : HasRecord(x)'  BY <1>3, <2>1, Zenon
    <2> QED  BY <2>2, <2>3, Zenon DEF RecordsRead, Top
  <1> QED  BY <1>4, <1>5, Zenon

LEMMA ReadKept ==
    ASSUME MergeRead, UNCHANGED <<home, place, matches, unread, candidates, degraded>>
    PROVE  MergeRead'
  <1>1. candidates \subseteq candidates'  BY Zenon
  <1>2. \A space \in Homes \ unread : ReceiptsRead(space) => ReceiptsRead(space)'
    BY <1>1, StillRead, Zenon
  <1>3. \A space \in Homes \ unread : RecordsRead(space) => RecordsRead(space)'
    BY <1>1, StillRead, Zenon
  <1>4. \A space \in Homes \ unread' : ReceiptsRead(space)'  BY <1>2, Zenon DEF MergeRead
  <1>5. ASSUME ~degraded' PROVE \A space \in Homes \ unread' : RecordsRead(space)'
    BY <1>3, <1>5, Zenon DEF MergeRead
  <1> QED  BY <1>4, <1>5, Zenon DEF MergeRead

(* A Space is read: it suffices that its candidates are as they should be.  *)
LEMMA CollectKeeps ==
    ASSUME MergeInv, NEW space \in unread, NEW found, NEW flag \in BOOLEAN,
           Collect(space, found, flag), \A c \in found : c \in Candidate /\ Covered(c),
           ReceiptsRead(space)', flag \/ RecordsRead(space)'
    PROVE  MergeInv'
  <1>0. /\ MergeTyped /\ MergeCovered /\ MergeKept /\ MergeRead
        /\ MergePhase /\ MergePrefix /\ MergeWhole /\ MergeTight
    BY Zenon DEF MergeInv
  <1>1. /\ UNCHANGED <<home, place, matches, fragments, budget, answer, truncated, answered>>
        /\ unread' = unread \ {space} /\ candidates' = candidates \union found
        /\ waiting' = waiting \union found /\ degraded' = (degraded \/ flag)
    BY Zenon DEF Collect
  <1>2. budget.fragments = 0  BY <1>0, Zenon DEF MergePhase
  <1>3. MergeTyped'  BY <1>0, <1>1, Zenon DEF MergeTyped
  <1>4. MergeCovered'  BY <1>0, <1>1, Zenon DEF MergeCovered, Covered
  <1>5. MergeKept'  BY <1>0, <1>1, Zenon DEF MergeKept, Kept
  <1>6. MergeRead'
    <2>1. candidates \subseteq candidates'  BY <1>1, Zenon
    <2>2. ASSUME NEW s \in Homes \ unread' PROVE s \in Homes \ unread \/ s = space
      BY <1>1, Zenon
    <2>3. ASSUME NEW s \in Homes \ unread' PROVE ReceiptsRead(s)'
      <3>1. CASE s = space  BY <3>1, Zenon
      <3>2. CASE s \in Homes \ unread
        <4>1. ReceiptsRead(s)  BY <3>2, <1>0, Zenon DEF MergeRead
        <4> QED  BY <4>1, <2>1, <1>1, StillRead, Zenon
      <3> QED  BY <2>2, <3>1, <3>2, Zenon
    <2>4. ASSUME ~degraded', NEW s \in Homes \ unread' PROVE RecordsRead(s)'
      <3>0. ~degraded /\ ~flag  BY <2>4, <1>1, Zenon
      <3>1. CASE s = space  BY <3>0, <3>1, Zenon
      <3>2. CASE s \in Homes \ unread
        <4>1. RecordsRead(s)  BY <3>0, <3>2, <1>0, Zenon DEF MergeRead
        <4> QED  BY <4>1, <2>1, <1>1, StillRead, Zenon
      <3> QED  BY <2>2, <3>1, <3>2, Zenon
    <2> QED  BY <2>3, <2>4, Zenon DEF MergeRead
  <1>7. MergePhase'  BY <1>0, <1>1, <1>2, Zenon DEF MergePhase
  <1>8. MergePrefix'  BY <1>0, <1>1, Zenon DEF MergePrefix
  <1>9. MergeWhole'  BY <1>0, <1>1, Zenon DEF MergeWhole
  <1>10. MergeTight'  BY <1>0, <1>1, Zenon DEF MergeTight, Cut
  <1> QED  BY <1>3, <1>4, <1>5, <1>6, <1>7, <1>8, <1>9, <1>10, Zenon DEF MergeInv

LEMMA TopOfNone == ASSUME NEW limit \in Nat PROVE {} \in Top({}, limit)
  <1>1. Cardinality({}) = 0  BY FS_EmptySet, Zenon
  <1>2. Cardinality({}) <= limit  BY <1>1
  <1> QED  BY <1>2, Zenon DEF Top

(* The query has no term for the Space. *)
LEMMA SkipKeeps ==
    ASSUME MergeInv, NEW space \in unread, SkipSpace(space)
    PROVE  MergeInv'
  <1>1. /\ ReceiptsOf(space) \intersect matches = {} /\ RecordsOf(space) \intersect matches = {}
        /\ Collect(space, {}, FALSE)
    BY Zenon DEF SkipSpace
  <1>2. UNCHANGED <<home, place, matches>>  BY <1>1, Zenon DEF Collect
  <1>3. ReceiptsOf(space)' = ReceiptsOf(space) /\ RecordsOf(space)' = RecordsOf(space)
    BY <1>2, Zenon DEF ReceiptsOf, RecordsOf
  <1>4. ReceiptLimit \in Nat /\ RecordLimit \in Nat
    BY RecallMergeAssumption, Zenon DEF RecallMergeAssumption
  <1>5. /\ {} \in Top(ReceiptsOf(space)' \intersect matches', ReceiptLimit)
        /\ {} \in Top(RecordsOf(space)' \intersect matches', RecordLimit)
    BY <1>1, <1>2, <1>3, <1>4, TopOfNone, Zenon
  <1>6. ReceiptsRead(space)' /\ RecordsRead(space)'
    BY <1>5, Zenon DEF ReceiptsRead, RecordsRead, Top
  <1> QED  BY <1>1, <1>6, CollectKeeps, Zenon

(* An index that has not drifted has a current row for every active Record. *)
LEMMA NotDrifted ==
    ASSUME NEW space, NEW indexed \in SUBSET RecordsOf(space), NEW current \in SUBSET indexed,
           NEW leftovers, ~Drifted(space, indexed, current, leftovers)
    PROVE  current = RecordsOf(space)
  <1>1. IsFiniteSet(RecordsOf(space))
    <2>1. IsFiniteSet(Derived) /\ RecordsOf(space) \subseteq Derived
      BY RecallMergeAssumption, Zenon DEF RecallMergeAssumption, RecordsOf
    <2> QED  BY <2>1, FS_Subset, Zenon
  <1>2. current \in SUBSET RecordsOf(space) /\ Cardinality(current) = Cardinality(RecordsOf(space))
    BY Zenon DEF Drifted
  <1> QED  BY <1>1, <1>2, FS_Subset, Zenon

(* The candidates of one Space. *)
LEMMA ReadKeeps ==
    ASSUME MergeInv, NEW space \in unread, ReadSpace(space)
    PROVE  MergeInv'
  <1>1. PICK top \in Top(ReceiptsOf(space) \intersect matches, ReceiptLimit) :
           \E text \in [top -> Texts] :
              LET receipts == {ReceiptCandidate(r, text[r]) : r \in top} IN
              SemanticFault(space, receipts) \/ SemanticRecallCandidates(space, receipts)
    BY Zenon DEF ReadSpace
  <1>2. PICK text \in [top -> Texts] :
              LET receipts == {ReceiptCandidate(r, text[r]) : r \in top} IN
              SemanticFault(space, receipts) \/ SemanticRecallCandidates(space, receipts)
    BY <1>1, Zenon
  <1>3. PICK receipts : receipts = {ReceiptCandidate(r, text[r]) : r \in top}  BY Zenon
  <1>4. top \subseteq Stored  BY Zenon DEF Top, ReceiptsOf
  <1>5. \A r \in top : text[r] \in Texts  OBVIOUS
  <1>6. \A c \in receipts : c \in Candidate /\ Covered(c)
    BY <1>3, <1>4, <1>5, ReceiptCovered, Zenon
  <1>7. ASSUME NEW found, NEW flag, Collect(space, receipts \union found, flag)
        PROVE  ReceiptsRead(space)'
    <2>1. /\ UNCHANGED <<home, place, matches>>
          /\ candidates' = candidates \union (receipts \union found)
      BY <1>7, Zenon DEF Collect
    <2>2. top \in Top(ReceiptsOf(space)' \intersect matches', ReceiptLimit)
      <3>1. ReceiptsOf(space)' = ReceiptsOf(space)  BY <2>1, Zenon DEF ReceiptsOf
      <3> QED  BY <3>1, <2>1, Zenon
    <2>3. ASSUME NEW r \in top PROVE HasReceipt(r)'
      <3>1. PICK c : c = ReceiptCandidate(r, text[r])  OBVIOUS
      <3>2. c \in candidates'  BY <3>1, <2>1, <1>3, Zenon
      <3>3. ~c.semantic /\ c.id = r /\ r \in c.evidence  BY <3>1 DEF ReceiptCandidate
      <3> QED  BY <3>2, <3>3, Zenon DEF HasReceipt
    <2> QED  BY <2>2, <2>3, Zenon DEF ReceiptsRead, Top
  <1>8. CASE SemanticFault(space, receipts)
    <2>1. receipts = receipts \union {}  BY Zenon
    <2>2. Collect(space, receipts \union {}, TRUE)  BY <1>8, <2>1, Zenon DEF SemanticFault
    <2>3. ReceiptsRead(space)'  BY <2>2, <1>7, Zenon
    <2>4. Collect(space, receipts, TRUE)  BY <1>8, Zenon DEF SemanticFault
    <2> QED  BY <2>3, <2>4, <1>6, CollectKeeps, Zenon
  <1>9. CASE SemanticRecallCandidates(space, receipts)
    <2>1. PICK indexed \in SUBSET RecordsOf(space), leftovers \in Leftovers, impaired \in BOOLEAN :
             \E current \in SUBSET indexed : \E found \in Top(current \intersect matches, RecordLimit) :
             \E wording \in [found -> Texts], cited \in [found -> SUBSET Stored] :
                LET valid == {x \in found : Valid(cited[x], space)} IN
                Collect(space,
                        receipts \union {RecordCandidate(x, wording[x], space, cited[x]) : x \in valid},
                        impaired \/ Drifted(space, indexed, current, leftovers) \/ valid # found)
      BY <1>9, Zenon DEF SemanticRecallCandidates
    <2>2. PICK current \in SUBSET indexed : \E found \in Top(current \intersect matches, RecordLimit) :
             \E wording \in [found -> Texts], cited \in [found -> SUBSET Stored] :
                LET valid == {x \in found : Valid(cited[x], space)} IN
                Collect(space,
                        receipts \union {RecordCandidate(x, wording[x], space, cited[x]) : x \in valid},
                        impaired \/ Drifted(space, indexed, current, leftovers) \/ valid # found)
      BY <2>1, Zenon
    <2>3. PICK found \in Top(current \intersect matches, RecordLimit) :
             \E wording \in [found -> Texts], cited \in [found -> SUBSET Stored] :
                LET valid == {x \in found : Valid(cited[x], space)} IN
                Collect(space,
                        receipts \union {RecordCandidate(x, wording[x], space, cited[x]) : x \in valid},
                        impaired \/ Drifted(space, indexed, current, leftovers) \/ valid # found)
      BY <2>2, Zenon
    <2>4. PICK wording \in [found -> Texts], cited \in [found -> SUBSET Stored] :
                LET valid == {x \in found : Valid(cited[x], space)} IN
                Collect(space,
                        receipts \union {RecordCandidate(x, wording[x], space, cited[x]) : x \in valid},
                        impaired \/ Drifted(space, indexed, current, leftovers) \/ valid # found)
      BY <2>3, Zenon
    <2>5. PICK valid : valid = {x \in found : Valid(cited[x], space)}  BY Zenon
    <2>6. PICK flag \in BOOLEAN :
             flag = (impaired \/ Drifted(space, indexed, current, leftovers) \/ valid # found)
      BY Zenon
    <2>7. PICK drawn : drawn = {RecordCandidate(x, wording[x], space, cited[x]) : x \in valid}
      BY Zenon
    <2>8. Collect(space, receipts \union drawn, flag)  BY <2>4, <2>5, <2>6, <2>7, Zenon
    <2>9. found \subseteq Derived /\ valid \subseteq found  BY <2>5, Zenon DEF Top, RecordsOf
    <2>10. \A x \in found : wording[x] \in Texts /\ cited[x] \in SUBSET Stored  BY <2>4, Zenon
    <2>11. \A x \in valid : Valid(cited[x], space)  BY <2>5, Zenon
    <2>12. \A c \in drawn : c \in Candidate /\ Covered(c)
      <3> SUFFICES ASSUME NEW x \in valid
                   PROVE  /\ RecordCandidate(x, wording[x], space, cited[x]) \in Candidate
                          /\ Covered(RecordCandidate(x, wording[x], space, cited[x]))
        BY <2>7, Zenon
      <3>1. x \in Derived /\ wording[x] \in Texts /\ cited[x] \in SUBSET Stored  BY <2>9, <2>10, Zenon
      <3>2. Valid(cited[x], space)  BY <2>11, Zenon
      <3> QED  BY <3>1, <3>2, RecordCovered, Zenon
    <2>13. ASSUME ~flag PROVE RecordsRead(space)'
      <3>1. ~Drifted(space, indexed, current, leftovers) /\ valid = found  BY <2>6, <2>13, Zenon
      <3>2. current = RecordsOf(space)  BY <3>1, NotDrifted, Zenon
      <3>3. /\ UNCHANGED <<home, place, matches>>
            /\ candidates' = candidates \union (receipts \union drawn)
        BY <2>8, Zenon DEF Collect
      <3>4. found \in Top(RecordsOf(space)' \intersect matches', RecordLimit)
        <4>1. RecordsOf(space)' = RecordsOf(space)  BY <3>3, Zenon DEF RecordsOf
        <4> QED  BY <4>1, <3>2, <3>3, Zenon
      <3>5. ASSUME NEW x \in found PROVE HasRecord(x)'
        <4>1. PICK c : c = RecordCandidate(x, wording[x], space, cited[x])  OBVIOUS
        <4>2. c \in candidates'  BY <4>1, <3>1, <3>3, <2>7, Zenon
        <4>3. x \in c.records  BY <4>1 DEF RecordCandidate
        <4> QED  BY <4>2, <4>3, Zenon DEF HasRecord
      <3> QED  BY <3>4, <3>5, Zenon DEF RecordsRead, Top
    <2>14. ReceiptsRead(space)'  BY <2>8, <1>7, Zenon
    <2>15. \A c \in receipts \union drawn : c \in Candidate /\ Covered(c)
      BY <1>6, <2>12, Zenon
    <2> QED  BY <2>8, <2>13, <2>14, <2>15, CollectKeeps, Zenon
  <1> QED  BY <1>2, <1>3, <1>8, <1>9, Zenon

(* Merging keeps a fragment typed, as private as its evidence, and holding  *)
(* what it held, and adds what the candidate brings.                        *)
LEMMA IntoFields ==
    ASSUME NEW f, NEW c, NEW g, g = Into(f, c)
    PROVE  /\ g.class = Stricter(f, c)
           /\ g.evidence = f.evidence \union c.evidence
           /\ g.records = f.records \union c.records
           /\ f.semantic /\ ~c.semantic =>
                 g.id = c.id /\ g.text = c.text /\ g.semantic = c.semantic
           /\ ~(f.semantic /\ ~c.semantic) =>
                 g.id = f.id /\ g.text = f.text /\ g.semantic = f.semantic
  <1>1. CASE f.semantic /\ ~c.semantic  BY <1>1, Zenon DEF Into
  <1>2. CASE ~(f.semantic /\ ~c.semantic)  BY <1>2 DEF Into
  <1> QED  BY <1>1, <1>2, Zenon

LEMMA IntoOK ==
    ASSUME NEW f \in Candidate, NEW c \in Candidate, Mergeable(c, f)
    PROVE  /\ Into(f, c) \in Candidate
           /\ Covered(f) /\ Covered(c) => Covered(Into(f, c))
           /\ Absorbs(Into(f, c), c)
           /\ \A d : Absorbs(f, d) => Absorbs(Into(f, c), d)
  <1>0. /\ f.text = c.text /\ f.semantic \in BOOLEAN /\ c.semantic \in BOOLEAN
        /\ (c.semantic /\ f.semantic) \/ (c.semantic # f.semantic)
    <2>1. f.semantic \in BOOLEAN /\ c.semantic \in BOOLEAN  BY DEF Candidate
    <2> QED  BY <2>1, Zenon DEF Mergeable
  <1>1. Into(f, c) \in Candidate
    <2>1. Stricter(f, c) \in {"private", "shared"}  BY Zenon DEF Stricter
    <2>2. PICK k \in {"private", "shared"} : k = Stricter(f, c)  BY <2>1, Zenon
    <2>3. CASE f.semantic /\ ~c.semantic
      <3>1. Into(f, c) = [id |-> c.id, text |-> c.text, class |-> k, semantic |-> c.semantic,
                          evidence |-> f.evidence \union c.evidence, records |-> f.records \union c.records]
        BY <2>2, <2>3, Zenon DEF Into
      <3> QED  BY <3>1 DEF Candidate
    <2>4. CASE ~(f.semantic /\ ~c.semantic)
      <3>1. Into(f, c) = [id |-> f.id, text |-> f.text, class |-> k, semantic |-> f.semantic,
                          evidence |-> f.evidence \union c.evidence, records |-> f.records \union c.records]
        BY <2>2, <2>4, Zenon DEF Into
      <3> QED  BY <3>1 DEF Candidate
    <2> QED  BY <2>3, <2>4, Zenon
  <1>2. PICK g : g = Into(f, c)  OBVIOUS
  <1>3. /\ g.class = Stricter(f, c)
        /\ g.evidence = f.evidence \union c.evidence /\ g.records = f.records \union c.records
        /\ f.semantic /\ ~c.semantic => g.id = c.id /\ g.text = c.text /\ g.semantic = c.semantic
        /\ ~(f.semantic /\ ~c.semantic) => g.id = f.id /\ g.text = f.text /\ g.semantic = f.semantic
    BY <1>2, IntoFields
  <1>4. ASSUME Covered(f), Covered(c) PROVE Covered(g)
    <2> SUFFICES ASSUME g.class = "shared", NEW r \in g.evidence PROVE home[r] \notin PrivateHomes
      BY Zenon DEF Covered
    <2>1. f.class \in {"private", "shared"} /\ c.class \in {"private", "shared"}  BY DEF Candidate
    <2>2. f.class = "shared" /\ c.class = "shared"
      BY <1>3, <2>1 DEF Stricter
    <2>3. r \in f.evidence \/ r \in c.evidence  BY <1>3, Zenon
    <2> QED  BY <2>2, <2>3, <1>4, Zenon DEF Covered
  <1>5. Absorbs(g, c)
    <2>1. g.text = c.text  BY <1>0, <1>3, Zenon
    <2>2. c.evidence \subseteq g.evidence /\ c.records \subseteq g.records  BY <1>3, Zenon
    <2>3. ~c.semantic => g.id = c.id /\ ~g.semantic  BY <1>0, <1>3
    <2> QED  BY <2>1, <2>2, <2>3, Zenon DEF Absorbs
  <1>6. ASSUME NEW d, Absorbs(f, d) PROVE Absorbs(g, d)
    <2>1. f.text = d.text /\ d.evidence \subseteq f.evidence /\ d.records \subseteq f.records
          /\ (~d.semantic => f.id = d.id /\ ~f.semantic)
      BY <1>6, Zenon DEF Absorbs
    <2>2. g.text = f.text  BY <1>0, <1>3, Zenon
    <2>3. d.evidence \subseteq g.evidence /\ d.records \subseteq g.records  BY <2>1, <1>3, Zenon
    <2>4. ~d.semantic => g.id = d.id /\ ~g.semantic  BY <2>1, <1>3, Zenon
    <2> QED  BY <2>1, <2>2, <2>3, <2>4, Zenon DEF Absorbs
  <1> QED  BY <1>1, <1>2, <1>4, <1>5, <1>6, Zenon

LEMMA MergeStep1 ==
    ASSUME MergeInv, NEW c \in waiting, MergeRecallCandidate(c)
    PROVE  MergeInv'
  <1> DEFINE n == Len(fragments)
             Merged == /\ fragments' \in Seq(Candidate)
                       /\ \A i \in DOMAIN fragments' : Covered(fragments'[i])
                       /\ \A d : Kept(d) => Kept(d)'
                       /\ Kept(c)'
  <1>0. /\ MergeTyped /\ MergeCovered /\ MergeKept /\ MergeRead
        /\ MergePhase /\ MergePrefix /\ MergeWhole /\ MergeTight
    BY Zenon DEF MergeInv
  <1>1. /\ UNCHANGED <<home, place, matches, unread, candidates, degraded>>
        /\ UNCHANGED <<budget, answer, truncated, answered>>
        /\ waiting' = waiting \ {c}
    BY Zenon DEF MergeRecallCandidate, readVars
  <1>2. fragments \in Seq(Candidate) /\ n \in Nat /\ DOMAIN fragments = 1..n
        /\ \A i \in 1..n : fragments[i] \in Candidate
    BY <1>0 DEF MergeTyped
  <1>3. c \in candidates /\ c \in Candidate /\ Covered(c)
    BY <1>0, Zenon DEF MergeTyped, MergeCovered
  <1>4. Merged
    <2>1. CASE Targets(c) = {} /\ fragments' = Append(fragments, c)
      <3>1. /\ fragments' \in Seq(Candidate) /\ DOMAIN fragments' = 1..(n + 1) /\ fragments'[n + 1] = c
            /\ \A i \in 1..n : fragments'[i] = fragments[i]
        BY <1>2, <1>3, <2>1
      <3>2. ASSUME NEW i \in 1..(n + 1) PROVE Covered(fragments'[i])
        <4>1. i \in 1..n \/ i = n + 1  BY <1>2
        <4>2. CASE i \in 1..n  BY <4>2, <3>1, <1>0, <1>2, Zenon DEF MergeCovered
        <4>3. CASE i = n + 1  BY <4>3, <3>1, <1>3, Zenon
        <4> QED  BY <4>1, <4>2, <4>3, Zenon
      <3>3. ASSUME NEW d, Kept(d) PROVE Kept(d)'
        <4>1. PICK i \in 1..n : Absorbs(fragments[i], d)  BY <3>3, <1>2, Zenon DEF Kept
        <4>2. i \in 1..(n + 1)  BY <1>2
        <4>3. Absorbs(fragments'[i], d)  BY <3>1, <4>1, Zenon
        <4> QED  BY <4>2, <4>3, <3>1, Zenon DEF Kept, Absorbs
      <3>4. Kept(c)'
        <4>1. n + 1 \in DOMAIN fragments'  BY <1>2, <3>1
        <4>2. Absorbs(fragments'[n + 1], c)  BY <3>1, Zenon DEF Absorbs
        <4> QED  BY <4>1, <4>2, Zenon DEF Kept, Absorbs
      <3> QED  BY <3>1, <3>2, <3>3, <3>4, Zenon
    <2>2. ASSUME NEW i \in Targets(c), fragments' = [fragments EXCEPT ![i] = Into(@, c)]
          PROVE  Merged
      <3> DEFINE f == fragments[i]
      <3>1. i \in 1..n /\ Mergeable(c, f)  BY <1>2, Zenon DEF Targets
      <3>2. f \in Candidate /\ Covered(f)  BY <3>1, <1>0, <1>2, Zenon DEF MergeCovered
      <3>3. PICK g : g = Into(f, c)  OBVIOUS
      <3>4. g \in Candidate /\ Covered(g) /\ Absorbs(g, c) /\ \A d : Absorbs(f, d) => Absorbs(g, d)
        BY <3>1, <3>2, <3>3, <1>3, IntoOK, Zenon
      <3>5. fragments' = [fragments EXCEPT ![i] = g]  BY <2>2, <3>3
      <3>6. /\ fragments' \in Seq(Candidate) /\ DOMAIN fragments' = 1..n /\ fragments'[i] = g
            /\ \A k \in 1..n : k # i => fragments'[k] = fragments[k]
        BY <1>2, <3>1, <3>4, <3>5
      <3>7. ASSUME NEW k \in 1..n PROVE Covered(fragments'[k])
        <4>1. CASE k = i  BY <4>1, <3>4, <3>6, Zenon
        <4>2. CASE k # i  BY <4>2, <3>6, <1>0, <1>2, Zenon DEF MergeCovered
        <4> QED  BY <4>1, <4>2, Zenon
      <3>8. ASSUME NEW d, Kept(d) PROVE Kept(d)'
        <4>1. PICK k \in 1..n : Absorbs(fragments[k], d)  BY <3>8, <1>2, Zenon DEF Kept
        <4>2. Absorbs(fragments'[k], d)
          <5>1. CASE k = i  BY <5>1, <4>1, <3>4, <3>6, Zenon
          <5>2. CASE k # i  BY <5>2, <4>1, <3>6, Zenon
          <5> QED  BY <5>1, <5>2, Zenon
        <4> QED  BY <4>2, <3>6, Zenon DEF Kept, Absorbs
      <3>9. Kept(c)'  BY <3>1, <3>4, <3>6, Zenon DEF Kept, Absorbs
      <3> QED  BY <3>6, <3>7, <3>8, <3>9, Zenon
    <2>3. \/ Targets(c) = {} /\ fragments' = Append(fragments, c)
          \/ \E i \in Targets(c) : fragments' = [fragments EXCEPT ![i] = Into(@, c)]
      BY Zenon DEF MergeRecallCandidate
    <2> HIDE DEF Merged
    <2> QED  BY <2>1, <2>2, <2>3, Zenon
  <1>5. MergeTyped'
    <2>1. waiting' \subseteq candidates'  BY <1>0, <1>1, Zenon DEF MergeTyped
    <2> QED  BY <2>1, <1>0, <1>1, <1>4, Zenon DEF MergeTyped
  <1>6. MergeCovered'
    BY <1>0, <1>1, <1>4, Zenon DEF MergeCovered, Covered
  <1>7. MergeKept'
    BY <1>0, <1>1, <1>4, Zenon DEF MergeKept
  <1>8. MergeRead'  BY <1>0, <1>1, ReadKept, Zenon
  <1>9. budget.fragments = 0 /\ answer = <<>> /\ ~answered /\ ~truncated
    BY <1>0, Zenon DEF MergePhase
  <1>10. MergePhase'  BY <1>1, <1>9, Zenon DEF MergePhase
  <1>11. MergePrefix'
    <2>1. Len(fragments') \in Nat  BY <1>4
    <2>2. Len(answer') = 0 /\ budget'.fragments = 0  BY <1>1, <1>9
    <2> QED  BY <2>1, <2>2 DEF MergePrefix
  <1>12. MergeWhole'
    <2>1. \A i \in 1..Len(answer') : FALSE  BY <1>1, <1>9
    <2> QED  BY <2>1, <1>1, <1>9, Zenon DEF MergeWhole
  <1>13. MergeTight'  BY <1>0, <1>1, <1>9, Zenon DEF MergeTight
  <1> QED  BY <1>5, <1>6, <1>7, <1>8, <1>10, <1>11, <1>12, <1>13, Zenon DEF MergeInv

LEMMA MergeStep2 ==
    ASSUME MergeInv, NEW limits \in [fragments : FragmentLimits, bytes : ByteLimits], Recall(limits)
    PROVE  MergeInv'
  <1>0. /\ MergeTyped /\ MergeCovered /\ MergeKept /\ MergeRead
        /\ MergePhase /\ MergePrefix /\ MergeWhole /\ MergeTight
    BY Zenon DEF MergeInv
  <1>1. /\ UNCHANGED <<home, place, matches, unread, candidates, degraded>>
        /\ UNCHANGED <<waiting, fragments, answer, truncated, answered>>
        /\ unread = {} /\ waiting = {} /\ budget.fragments = 0 /\ budget' = limits
    BY Zenon DEF Recall, readVars
  <1>2. answer = <<>> /\ ~answered /\ ~truncated
    BY <1>0, <1>1, Zenon DEF MergePhase
  <1>3. /\ limits \in [fragments : Nat, bytes : Nat] /\ limits.fragments # 0
        /\ limits.fragments < ReceiptLimit
    <2>1. /\ FragmentLimits \subseteq 1..(ReceiptLimit - 1) /\ ReceiptLimit \in Nat
          /\ ByteLimits \subseteq Nat
      BY RecallMergeAssumption, Zenon DEF RecallMergeAssumption
    <2>2. \A n \in FragmentLimits : n \in Nat /\ n # 0 /\ n < ReceiptLimit  BY <2>1
    <2> QED  BY <2>1, <2>2, Zenon
  <1>4. MergeTyped'  BY <1>0, <1>1, <1>3, Zenon DEF MergeTyped
  <1>5. MergeCovered'  BY <1>0, <1>1, Zenon DEF MergeCovered, Covered
  <1>6. MergeKept'  BY <1>0, <1>1, Zenon DEF MergeKept, Kept
  <1>7. MergeRead'  BY <1>0, <1>1, ReadKept, Zenon
  <1>8. MergePhase'  BY <1>1, <1>3, Zenon DEF MergePhase
  <1>9. limits.fragments \in Nat /\ limits.bytes \in Nat  BY <1>3
  <1>10. Len(answer) = 0 /\ Len(fragments) \in Nat  BY <1>0, <1>2 DEF MergeTyped
  <1>11. MergePrefix'  BY <1>1, <1>9, <1>10 DEF MergePrefix
  <1>12. MergeWhole'
    <2>1. \A i \in 1..Len(answer') : FALSE  BY <1>1, <1>10
    <2> QED  BY <2>1, <1>1, <1>2, Zenon DEF MergeWhole
  <1>13. MergeTight'
    <2>1. Bytes(answer') = 0  BY <1>1, <1>2, BytesOfNone, Zenon
    <2>2. 0 <= budget'.bytes  BY <1>1, <1>9
    <2> QED  BY <2>1, <2>2, <1>1, <1>2, Zenon DEF MergeTight
  <1> QED  BY <1>4, <1>5, <1>6, <1>7, <1>8, <1>11, <1>12, <1>13, Zenon DEF MergeInv

(* Before the answer is given, no text has been cut. *)
LEMMA WholeIsNotCut == ASSUME MergeTyped, MergeWhole, ~answered PROVE ~Cut
  <1> SUFFICES ASSUME Len(answer) > 0
               PROVE  ~(answer[Len(answer)].shown < answer[Len(answer)].fragment.text)
    BY Zenon DEF Cut
  <1>1. PICK n \in Nat : n = Len(answer) /\ n \in 1..Len(answer)  BY DEF MergeTyped
  <1>2. answer[n].shown = answer[n].fragment.text  BY <1>1, Zenon DEF MergeWhole
  <1>3. answer[n] \in Shown  BY <1>1 DEF MergeTyped
  <1>4. answer[n].shown \in Nat  BY <1>3 DEF Shown
  <1> QED  BY <1>1, <1>2, <1>4

LEMMA MergeStep4 ==
    ASSUME MergeInv, Respond
    PROVE  MergeInv'
  <1>0. /\ MergeTyped /\ MergeCovered /\ MergeKept /\ MergeRead
        /\ MergePhase /\ MergePrefix /\ MergeWhole /\ MergeTight
    BY Zenon DEF MergeInv
  <1>1. /\ UNCHANGED <<home, place, matches, unread, candidates, degraded>>
        /\ UNCHANGED <<waiting, fragments, budget, answer, truncated>>
        /\ ~answered /\ Len(answer) = Len(fragments) /\ answered' = TRUE
    BY Zenon DEF Respond, readVars
  <1>2. budget.fragments # 0
    <2>1. budget.fragments \in Nat /\ budget.fragments > 0  BY <1>0 DEF MergeTyped, Respond
    <2> QED  BY <2>1
  <1>3. MergeTyped'  BY <1>0, <1>1, Zenon DEF MergeTyped
  <1>4. MergeCovered'  BY <1>0, <1>1, Zenon DEF MergeCovered, Covered
  <1>5. MergeKept'  BY <1>0, <1>1, Zenon DEF MergeKept, Kept
  <1>6. MergeRead'  BY <1>0, <1>1, ReadKept, Zenon
  <1>7. MergePhase'  BY <1>0, <1>1, <1>2, Zenon DEF MergePhase
  <1>8. MergePrefix'  BY <1>0, <1>1, Zenon DEF MergePrefix
  <1>9. MergeWhole'  BY <1>0, <1>1, Zenon DEF MergeWhole
  <1>10. MergeTight'
    <2>1. truncated => ~(Len(answer) < budget.fragments)
      <3>1. budget.fragments \in Nat  BY <1>0 DEF MergeTyped
      <3>2. truncated => Len(answer) = budget.fragments  BY <1>0, <1>1, Zenon DEF MergeTight
      <3> QED  BY <3>1, <3>2
    <2>2. ~Cut'  BY <1>0, <1>1, WholeIsNotCut, Zenon DEF Cut
    <2> QED  BY <2>1, <2>2, <1>0, <1>1, Zenon DEF MergeTight
  <1> QED  BY <1>3, <1>4, <1>5, <1>6, <1>7, <1>8, <1>9, <1>10, Zenon DEF MergeInv

LEMMA AnswerSized ==
    ASSUME NEW s \in Seq(Shown)
    PROVE  Sized(s)
  <1>1. Len(s) \in Nat /\ \A i \in 1..Len(s) : s[i] \in Shown  OBVIOUS
  <1>2. \A e \in Shown : e.shown \in Nat  BY DEF Shown
  <1>3. \A n \in Nat : Size(n) \in Nat  BY DEF Size
  <1> QED  BY <1>1, <1>2, <1>3, Zenon DEF Sized

(* What fitProjectedText lets through fits, and one more rune would not. *)
LEMMA FitFacts ==
    ASSUME MergeTyped, NEW n \in Nat, n # 0, NEW shown, shown = FitProjectedText(n)
    PROVE  /\ shown \in 0..n
           /\ shown # 0 => Bytes(answer) + Size(shown) <= budget.bytes
           /\ shown = 0 => Bytes(answer) + 2 > budget.bytes
           /\ shown # 0 /\ shown < n => Bytes(answer) + Size(shown) + 1 > budget.bytes
  <1>1. PICK B \in Nat : B = Bytes(answer)
    BY AnswerSized, TotalIs, Zenon DEF MergeTyped
  <1>2. PICK L \in Nat : L = budget.bytes
    BY DEF MergeTyped
  <1>3. \A m \in Nat : Fits(m) <=> B + Size(m) <= L
    BY <1>1, <1>2, Zenon DEF Fits, Projected
  <1>4. \A m \in Nat : Size(m) \in Nat /\ Size(m) = IF m = 0 THEN 0 ELSE m + 1
    BY DEF Size
  <1>5. Antitone(n)
    <2> SUFFICES ASSUME NEW m \in 0..n, NEW k \in 0..n, m <= k, Fits(k) PROVE Fits(m)
      BY Zenon DEF Antitone
    <2>1. m \in Nat /\ k \in Nat  OBVIOUS
    <2>2. B + Size(k) <= L  BY <2>1, <1>3, Zenon
    <2>3. Size(m) <= Size(k)  BY <2>1 DEF Size
    <2>4. B + Size(m) <= L  BY <2>1, <2>2, <2>3, <1>4
    <2> QED  BY <2>1, <2>4, <1>3, Zenon
  <1>6. CASE Fits(n)
    <2>1. shown = n  BY <1>6, Zenon DEF FitProjectedText
    <2>2. B + Size(n) <= L  BY <1>6, <1>3, Zenon
    <2> QED  BY <2>1, <2>2, <1>1, <1>2
  <1>7. CASE ~Fits(n)
    <2>1. shown = Longest(n)  BY <1>7, Zenon DEF FitProjectedText
    <2>2. /\ shown \in 0..n /\ (shown # 0 => Fits(shown))
          /\ \A m \in 0..n : Fits(m) => m <= shown
      BY <2>1, <1>5, LongestFits, Zenon
    <2>3. shown # 0 => B + Size(shown) <= L
      <3>1. shown \in Nat  BY <2>2
      <3> QED  BY <3>1, <2>2, <1>3, Zenon
    <2>4. shown = 0 => B + 2 > L
      <3> SUFFICES ASSUME shown = 0 PROVE B + 2 > L  OBVIOUS
      <3>1. 1 \in 0..n /\ ~(1 <= shown)  OBVIOUS
      <3>2. ~Fits(1)  BY <3>1, <2>2, Zenon
      <3>3. ~(B + Size(1) <= L)  BY <3>2, <1>3
      <3>4. Size(1) = 2  BY DEF Size
      <3> QED  BY <3>3, <3>4
    <2>5. shown # 0 /\ shown < n => B + Size(shown) + 1 > L
      <3> SUFFICES ASSUME shown # 0, shown < n PROVE B + Size(shown) + 1 > L  OBVIOUS
      <3>1. shown \in Nat /\ shown + 1 \in 0..n /\ shown + 1 \in Nat /\ ~(shown + 1 <= shown)  BY <2>2
      <3>2. ~Fits(shown + 1)  BY <3>1, <2>2, Zenon
      <3>3. ~(B + Size(shown + 1) <= L)  BY <3>1, <3>2, <1>3, Zenon
      <3>4. Size(shown + 1) = Size(shown) + 1 /\ Size(shown) \in Nat  BY <3>1 DEF Size
      <3> QED  BY <3>3, <3>4
    <2> QED  BY <2>2, <2>3, <2>4, <2>5, <1>1, <1>2, Zenon
  <1> QED  BY <1>6, <1>7, Zenon

Longer(s, e, t) ==
    /\ t \in Seq(Shown) /\ Len(t) = Len(s) + 1 /\ t[Len(s) + 1] = e
    /\ \A i \in 1..Len(s) : t[i] = s[i]
    /\ Bytes(t) = Bytes(s) + Size(e.shown)

(* One more fragment in the answer. *)
LEMMA AnswerLonger ==
    ASSUME NEW s \in Seq(Shown), NEW e \in Shown, NEW t, t = Append(s, e)
    PROVE  Longer(s, e, t)
  <1>1. /\ t \in Seq(Shown) /\ Len(t) = Len(s) + 1 /\ t[Len(s) + 1] = e
        /\ \A i \in 1..Len(s) : t[i] = s[i]
    OBVIOUS
  <1>2. Sized(s) /\ Sized(t)  BY <1>1, AnswerSized, Zenon
  <1>3. \A i \in 1..Len(s) : s[i] = t[i]  BY <1>1, Zenon
  <1>4. Bytes(t) = Bytes(s) + Size(t[Len(s) + 1].shown)
    BY <1>1, <1>2, <1>3, BytesOfLonger, Zenon
  <1> QED  BY <1>1, <1>4, Zenon DEF Longer

LEMMA MergeStep3 ==
    ASSUME MergeInv, Project
    PROVE  MergeInv'
  <1>0. /\ MergeTyped /\ MergeCovered /\ MergeKept /\ MergeRead
        /\ MergePhase /\ MergePrefix /\ MergeWhole /\ MergeTight
    BY Zenon DEF MergeInv
  <1>1. /\ UNCHANGED <<home, place, matches, unread, candidates, degraded>>
        /\ UNCHANGED <<waiting, fragments, budget>>
        /\ ~answered /\ Len(answer) + 1 <= Len(fragments) /\ budget.fragments > 0
    BY Zenon DEF Project, readVars
  <1>2. PICK n \in Nat : n = Len(answer)  BY <1>0 DEF MergeTyped
  <1>3. PICK k \in Nat : k = Len(fragments)  BY <1>0 DEF MergeTyped
  <1>4. PICK limit \in Nat : limit = budget.fragments  BY <1>0 DEF MergeTyped
  <1>5. PICK f : f = fragments[n + 1]  OBVIOUS
  <1>6. f \in Candidate /\ f.text \in Nat /\ f.text # 0
    <2>1. f \in Candidate  BY <1>0, <1>1, <1>2, <1>3, <1>5 DEF MergeTyped
    <2>2. f.text \in Texts  BY <2>1 DEF Candidate
    <2> QED  BY <2>1, <2>2, RecallMergeAssumption, Zenon DEF RecallMergeAssumption
  <1>7. PICK shown : shown = FitProjectedText(f.text)  OBVIOUS
  <1>8. /\ shown \in 0..f.text
        /\ shown # 0 => Bytes(answer) + Size(shown) <= budget.bytes
        /\ shown = 0 => Bytes(answer) + 2 > budget.bytes
        /\ shown # 0 /\ shown < f.text => Bytes(answer) + Size(shown) + 1 > budget.bytes
    BY <1>0, <1>6, <1>7, FitFacts, Zenon
  <1>9. IF n = limit \/ shown = 0
        THEN answer' = answer /\ truncated' = TRUE /\ answered' = TRUE
        ELSE /\ answer' = Append(answer, [fragment |-> f, shown |-> shown])
             /\ truncated' = (truncated \/ shown < f.text \/ LeavesMore(n + 1))
             /\ answered' = (shown < f.text)
    BY <1>2, <1>4, <1>5, <1>7, Zenon DEF Project
  <1>10. MergeCovered'  BY <1>0, <1>1, Zenon DEF MergeCovered, Covered
  <1>11. MergeKept'  BY <1>0, <1>1, Zenon DEF MergeKept, Kept
  <1>12. MergeRead'  BY <1>0, <1>1, ReadKept, Zenon
  <1>13. MergePhase'
    <2>1. budget.fragments # 0  BY <1>1, <1>4
    <2> QED  BY <2>1, <1>0, <1>1, Zenon DEF MergePhase
  <1>14. MergeTyped' /\ MergePrefix' /\ MergeWhole' /\ MergeTight'
    <2>1. CASE n = limit \/ shown = 0
      <3>1. answer' = answer /\ truncated' = TRUE /\ answered' = TRUE  BY <1>9, <2>1, Zenon
      <3>2. MergeTyped'  BY <3>1, <1>0, <1>1, Zenon DEF MergeTyped
      <3>3. MergePrefix'  BY <3>1, <1>0, <1>1, Zenon DEF MergePrefix
      <3>4. MergeWhole'  BY <3>1, Zenon DEF MergeWhole
      <3>5. MergeTight'
        <4>1. Bytes(answer') <= budget'.bytes  BY <3>1, <1>0, <1>1, Zenon DEF MergeTight
        <4>2. ASSUME n < limit PROVE Bytes(answer) + 2 > budget.bytes
          <5>1. shown = 0  BY <2>1, <4>2
          <5> QED  BY <5>1, <1>8, Zenon
        <4>3. ~Cut'  BY <3>1, <1>0, <1>1, WholeIsNotCut, Zenon DEF Cut
        <4> QED  BY <4>1, <4>2, <4>3, <3>1, <1>1, <1>2, <1>4, Zenon DEF MergeTight
      <3> QED  BY <3>2, <3>3, <3>4, <3>5, Zenon
    <2>2. CASE ~(n = limit \/ shown = 0)
      <3> DEFINE e == [fragment |-> f, shown |-> shown]
      <3>1. /\ answer' = Append(answer, e)
            /\ truncated' = (truncated \/ shown < f.text \/ LeavesMore(n + 1))
            /\ answered' = (shown < f.text)
        BY <1>9, <2>2, Zenon
      <3>2. shown \in Nat /\ shown # 0 /\ n # limit /\ shown <= f.text
        BY <1>6, <1>8, <2>2
      <3>3. e \in Shown /\ e.fragment = f /\ e.shown = shown
        BY <3>2, <1>6 DEF Shown
      <3> HIDE DEF e
      <3>4. answer \in Seq(Shown)  BY <1>0, Zenon DEF MergeTyped
      <3>5. PICK t : t = answer'  OBVIOUS
      <3>6. /\ t \in Seq(Shown) /\ Len(t) = n + 1 /\ t[n + 1] = e
            /\ \A i \in 1..n : t[i] = answer[i]
            /\ Bytes(t) = Bytes(answer) + Size(shown)
        <4>1. t = Append(answer, e)  BY <3>1, <3>5, Zenon
        <4>2. Longer(answer, e, t)  BY <4>1, <3>3, <3>4, AnswerLonger, Zenon
        <4> QED  BY <4>2, <3>3, <1>2, Zenon DEF Longer
      <3>7. ~truncated
        BY <1>0, <1>1, <1>2, <1>4, <3>2, Zenon DEF MergeTight
      <3>8. n < limit /\ n + 1 <= k
        <4>1. n <= limit  BY <1>0, <1>2, <1>4, Zenon DEF MergePrefix
        <4> QED  BY <4>1, <3>2, <1>1, <1>2, <1>3
      <3>9. \A i \in 1..(n + 1) : i \in 1..n \/ i = n + 1  OBVIOUS
      <3>10. MergeTyped'
        <4>1. truncated' \in BOOLEAN /\ answered' \in BOOLEAN
          <5>1. (shown < f.text) \in BOOLEAN  OBVIOUS
          <5>2. truncated' \in BOOLEAN  BY <3>1, Zenon
          <5> QED  BY <5>1, <5>2, <3>1, Zenon
        <4> QED  BY <4>1, <3>5, <3>6, <1>0, <1>1, Zenon DEF MergeTyped
      <3>11. MergePrefix'
        <4>1. Len(answer') <= Len(fragments') /\ Len(answer') <= budget'.fragments
          <5>1. n + 1 <= k /\ n + 1 <= limit  BY <3>8
          <5> QED  BY <5>1, <3>5, <3>6, <1>1, <1>3, <1>4, Zenon
        <4>2. ASSUME NEW i \in 1..(n + 1) PROVE t[i].fragment = fragments[i]
          <5>1. CASE i \in 1..n  BY <5>1, <3>6, <1>0, <1>2, Zenon DEF MergePrefix
          <5>2. CASE i = n + 1  BY <5>2, <3>3, <3>6, <1>5, Zenon
          <5> QED  BY <5>1, <5>2, <3>9, Zenon
        <4> QED  BY <4>1, <4>2, <3>5, <3>6, <1>1, Zenon DEF MergePrefix
      <3>12. MergeWhole'
        <4>1. ASSUME ~answered' \/ ~truncated', NEW i \in 1..(n + 1)
              PROVE  t[i].shown = t[i].fragment.text
          <5>1. CASE i \in 1..n  BY <5>1, <3>6, <1>0, <1>1, <1>2, Zenon DEF MergeWhole
          <5>2. CASE i = n + 1
            <6>1. ~(shown < f.text)  BY <4>1, <3>1, Zenon
            <6>2. shown = f.text  BY <6>1, <3>2, <1>6
            <6> QED  BY <5>2, <6>2, <3>3, <3>6, Zenon
          <5> QED  BY <5>1, <5>2, <3>9, Zenon
        <4>2. ~(answered' /\ ~truncated')  BY <3>1, Zenon
        <4> QED  BY <4>1, <4>2, <3>5, <3>6, Zenon DEF MergeWhole
      <3>13. MergeTight'
        <4>1. Bytes(t) <= budget.bytes  BY <3>2, <3>6, <1>8, Zenon
        <4>2. ASSUME truncated', ~answered' PROVE n + 1 = limit
          BY <4>2, <3>1, <3>7, <1>4, Zenon DEF LeavesMore
        <4>3. ASSUME answered' PROVE Cut' /\ Bytes(t) + 1 > budget.bytes
          <5>1. shown < f.text  BY <4>3, <3>1, Zenon
          <5>2. n + 1 > 0  OBVIOUS
          <5>3. t[n + 1].shown < t[n + 1].fragment.text  BY <5>1, <3>3, <3>6, Zenon
          <5>4. Cut'  BY <5>2, <5>3, <3>5, <3>6, Zenon DEF Cut
          <5>5. Bytes(answer) + Size(shown) + 1 > budget.bytes  BY <5>1, <3>2, <1>8, Zenon
          <5> QED  BY <5>4, <5>5, <3>6, Zenon
        <4> QED  BY <4>1, <4>2, <4>3, <3>5, <3>6, <1>1, <1>4, Zenon DEF MergeTight
      <3> QED  BY <3>10, <3>11, <3>12, <3>13, Zenon
    <2> QED  BY <2>1, <2>2, Zenon
  <1> QED  BY <1>10, <1>11, <1>12, <1>13, <1>14, Zenon DEF MergeInv

LEMMA MergeInvariant == MergeSpec => []MergeInv
  <1>1. ASSUME MergeInv, [MergeNext]_mergeVars PROVE MergeInv'
    <2>1. CASE MergeNext
      <3>0. CASE \E space \in unread : SkipSpace(space) \/ ReadSpace(space)
        BY <3>0, <1>1, SkipKeeps, ReadKeeps, Zenon
      <3>1. CASE \E c \in waiting : MergeRecallCandidate(c)
        BY <3>1, <1>1, MergeStep1, Zenon
      <3>2. CASE \E limits \in [fragments : FragmentLimits, bytes : ByteLimits] : Recall(limits)
        BY <3>2, <1>1, MergeStep2, Zenon
      <3>3. CASE Project  BY <3>3, <1>1, MergeStep3, Zenon
      <3>4. CASE Respond  BY <3>4, <1>1, MergeStep4, Zenon
      <3> QED  BY <2>1, <3>0, <3>1, <3>2, <3>3, <3>4, Zenon DEF MergeNext
    <2>2. CASE UNCHANGED mergeVars
      <3>1. /\ UNCHANGED <<home, place, matches, unread, candidates, degraded>>
            /\ UNCHANGED <<waiting, fragments, budget, answer, truncated, answered>>
        BY <2>2, Zenon DEF mergeVars, readVars
      <3>2. MergeRead'  BY <3>1, <1>1, ReadKept, Zenon DEF MergeInv
      <3> QED  BY <3>1, <3>2, <1>1, Zenon DEF MergeInv, MergeTyped, MergeCovered, MergeKept,
                  MergePhase, MergePrefix, MergeWhole, MergeTight, Cut, Kept, Covered
    <2> QED  BY <1>1, <2>1, <2>2, Zenon
  <1> QED  BY MergeInitInv, <1>1, PTL DEF MergeSpec

(* Recall never labels a fragment shared that is drawn from a private       *)
(* Space: whatever candidates mergeRecallCandidates puts together, and in   *)
(* whatever order, the class of the fragment is the strictest of theirs.    *)
THEOREM LabelsAreStrictest == MergeSpec => []ClassCoversEvidence
  <1>1. MergeInv => ClassCoversEvidence
    BY Zenon DEF MergeInv, MergeCovered, Covered, ClassCoversEvidence, Fragments
  <1> QED  BY MergeInvariant, <1>1, PTL

(* A query that returned as many receipts as it may has more of them than   *)
(* an answer can hold.                                                      *)
LEMMA NoRoomForAll ==
    ASSUME NEW T, IsFiniteSet(T), Cardinality(T) = ReceiptLimit, NEW n \in Nat, n < ReceiptLimit,
           NEW id, \A r \in T : \E i \in 1..n : id[i] = r
    PROVE  FALSE
  <1> DEFINE f == [r \in T |-> CHOOSE i \in 1..n : id[i] = r]
  <1>1. f \in [T -> 1..n] /\ \A r \in T : id[f[r]] = r  BY Zenon
  <1> HIDE DEF f
  <1>2. IsFiniteSet(1..n) /\ Cardinality(1..n) = n  BY FS_Interval
  <1>3. Cardinality(1..n) < Cardinality(T)  BY <1>2
  <1>4. \E r, q \in T : r # q /\ f[r] = f[q]  BY <1>1, <1>2, <1>3, FS_PigeonHole
  <1> QED  BY <1>1, <1>4, Zenon

(* An answer that is not Truncated is complete: every candidate's evidence  *)
(* is in a fragment with its whole text, and each receipt the query matches *)
(* is there under its own identity, for a full answer is Truncated before   *)
(* the query's limit matters.  If it is not Degraded either, no fault, no   *)
(* outstanding job and no drift of the index was met, and every active      *)
(* Record the query matches is referred to, or as many as it returns.       *)
THEOREM SilentMeansComplete == MergeSpec => []CompleteUnlessSaid
  <1>1. ASSUME MergeInv PROVE CompleteUnlessSaid
    <2> SUFFICES ASSUME answered, ~truncated
                 PROVE  /\ \A c \in candidates : \E i \in DOMAIN answer :
                              LET f == answer[i].fragment IN
                              /\ f.text = c.text /\ answer[i].shown = f.text
                              /\ c.evidence \subseteq f.evidence /\ c.records \subseteq f.records
                              /\ ~c.semantic => f.id = c.id
                        /\ \A r \in Stored \intersect matches : \E i \in DOMAIN answer :
                              answer[i].fragment.id = r /\ r \in answer[i].fragment.evidence
                        /\ ~degraded => \A space \in Homes :
                              \E T \in Top(RecordsOf(space) \intersect matches, RecordLimit) :
                                 T \subseteq Referred
      BY Zenon DEF CompleteUnlessSaid
    <2>1. MergeTyped /\ MergeKept /\ MergeRead /\ MergePhase /\ MergePrefix /\ MergeWhole
      BY <1>1, Zenon DEF MergeInv
    <2>2. waiting = {} /\ unread = {} /\ budget.fragments < ReceiptLimit
      BY <2>1, Zenon DEF MergePhase
    <2>3. /\ DOMAIN answer = 1..Len(answer) /\ DOMAIN fragments = 1..Len(fragments)
          /\ Len(answer) = Len(fragments) /\ Len(answer) \in Nat
      <3>1. Len(answer) = Len(fragments)  BY <2>1, Zenon DEF MergeWhole
      <3> QED  BY <3>1, <2>1 DEF MergeTyped
    <2>4. ASSUME NEW c \in candidates
          PROVE  \E i \in DOMAIN answer : /\ Absorbs(answer[i].fragment, c)
                                          /\ answer[i].shown = answer[i].fragment.text
      <3>1. Kept(c)  BY <2>1, <2>2, Zenon DEF MergeKept
      <3>2. PICK i \in DOMAIN fragments : Absorbs(fragments[i], c)  BY <3>1, Zenon DEF Kept
      <3>3. i \in 1..Len(answer) /\ i \in DOMAIN answer  BY <2>3, Zenon
      <3>4. answer[i].fragment = fragments[i]  BY <3>3, <2>1, Zenon DEF MergePrefix
      <3>5. answer[i].shown = answer[i].fragment.text  BY <3>3, <2>1, Zenon DEF MergeWhole
      <3>6. Absorbs(answer[i].fragment, c)  BY <3>2, <3>4, Zenon
      <3> QED  BY <3>3, <3>5, <3>6, Zenon
    <2>5. ASSUME NEW r, HasReceipt(r)
          PROVE  \E i \in DOMAIN answer : answer[i].fragment.id = r /\ r \in answer[i].fragment.evidence
      <3>1. PICK c \in candidates : ~c.semantic /\ c.id = r /\ r \in c.evidence
        BY <2>5, Zenon DEF HasReceipt
      <3>2. PICK i \in DOMAIN answer : Absorbs(answer[i].fragment, c)  BY <2>4, Zenon
      <3> QED  BY <3>1, <3>2, Zenon DEF Absorbs
    <2>6. ASSUME NEW r \in Stored \intersect matches PROVE HasReceipt(r)
      <3>1. PICK space \in Homes : space = home[r]  BY <2>1, Zenon DEF MergeTyped
      <3>2. PICK M : M = ReceiptsOf(space) \intersect matches  BY Zenon
      <3>3. r \in M /\ M \subseteq Stored  BY <3>1, <3>2, Zenon DEF ReceiptsOf
      <3>4. PICK T \in Top(M, ReceiptLimit) : \A q \in T : HasReceipt(q)
        <4>1. ReceiptsRead(space)  BY <2>1, <2>2, Zenon DEF MergeRead
        <4> QED  BY <4>1, <3>2, Zenon DEF ReceiptsRead
      <3>5. T \subseteq M /\ (T = M \/ Cardinality(T) = ReceiptLimit)  BY Zenon DEF Top
      <3>6. CASE T = M  BY <3>3, <3>4, <3>6, Zenon
      <3>7. CASE Cardinality(T) = ReceiptLimit
        <4>1. IsFiniteSet(T)
          <5>1. IsFiniteSet(Stored) /\ T \subseteq Stored
            BY <3>3, <3>5, RecallMergeAssumption, Zenon DEF RecallMergeAssumption
          <5> QED  BY <5>1, FS_Subset, Zenon
        <4>2. Len(answer) < ReceiptLimit
          <5>1. Len(answer) <= budget.fragments  BY <2>1, Zenon DEF MergePrefix
          <5>2. budget.fragments \in Nat /\ ReceiptLimit \in Nat
            BY <2>1, RecallMergeAssumption DEF MergeTyped, RecallMergeAssumption
          <5> QED  BY <5>1, <5>2, <2>2, <2>3
        <4>3. \A q \in T : \E i \in 1..Len(answer) : answer[i].fragment.id = q
          BY <3>4, <2>3, <2>5, Zenon
        <4>4. FALSE
          <5>1. PICK n \in Nat : n = Len(answer)  BY <2>3, Zenon
          <5>2. PICK id : id = [i \in 1..n |-> answer[i].fragment.id]  BY Zenon
          <5>3. \A q \in T : \E i \in 1..n : id[i] = q  BY <4>3, <5>1, <5>2, Zenon
          <5>4. n < ReceiptLimit  BY <4>2, <5>1, Zenon
          <5> QED  BY <5>3, <5>4, <4>1, <3>7, NoRoomForAll
        <4> QED  BY <4>4
      <3> QED  BY <3>5, <3>6, <3>7, Zenon
    <2>7. ASSUME NEW x, HasRecord(x) PROVE x \in Referred
      <3>1. PICK c \in candidates : x \in c.records  BY <2>7, Zenon DEF HasRecord
      <3>2. PICK i \in DOMAIN answer : Absorbs(answer[i].fragment, c)  BY <2>4, Zenon
      <3> QED  BY <3>1, <3>2, Zenon DEF Absorbs, Referred
    <2>8. ASSUME ~degraded, NEW space \in Homes
          PROVE  \E T \in Top(RecordsOf(space) \intersect matches, RecordLimit) : T \subseteq Referred
      <3>1. RecordsRead(space)  BY <2>1, <2>2, <2>8, Zenon DEF MergeRead
      <3>2. PICK T \in Top(RecordsOf(space) \intersect matches, RecordLimit) : \A x \in T : HasRecord(x)
        BY <3>1, Zenon DEF RecordsRead
      <3> QED  BY <3>2, <2>7, Zenon
    <2> QED  BY <2>4, <2>5, <2>6, <2>8, Zenon DEF Absorbs
  <1> QED  BY MergeInvariant, <1>1, PTL

(* Recall keeps the request's budget and uses it up: the texts returned     *)
(* fit, and when it cuts a text, or leaves one out with fragments to spare, *)
(* not one rune more of it would have fitted.  The binary search of         *)
(* fitProjectedText finds the longest prefix, for every text and budget.    *)
THEOREM BudgetUsedUp == MergeSpec => []BudgetIsTight
  <1>1. ASSUME MergeInv PROVE BudgetIsTight
    <2> SUFFICES ASSUME answered PROVE
                   /\ Len(answer) <= budget.fragments /\ Fits(0)
                   /\ Cut => Projected(0) + 1 > budget.bytes
                   /\ truncated /\ ~Cut /\ Len(answer) < budget.fragments =>
                         Projected(0) + 2 > budget.bytes
      BY Zenon DEF BudgetIsTight, Cut
    <2>1. MergeTyped /\ MergePrefix /\ MergeTight  BY <1>1, Zenon DEF MergeInv
    <2>2. Projected(0) = Bytes(answer)
      <3>1. Bytes(answer) \in Nat  BY <2>1, AnswerSized, TotalIs, Zenon DEF MergeTyped
      <3>2. Size(0) = 0  BY DEF Size
      <3> QED  BY <3>1, <3>2 DEF Projected
    <2>3. Len(answer) <= budget.fragments  BY <2>1, Zenon DEF MergePrefix
    <2> QED  BY <2>1, <2>2, <2>3, Zenon DEF MergeTight, Fits
  <1> QED  BY MergeInvariant, <1>1, PTL

-----------------------------------------------------------------------------
(* Division *)

LEMMA ProductOrder ==
    ASSUME NEW m \in Nat, NEW p \in Nat, NEW q \in Nat, p < q
    PROVE  m * p + m <= m * q
  <1>1. PICK d \in Nat : q = p + 1 + d
    <2>1. q - p - 1 \in Nat /\ q = p + 1 + (q - p - 1)  OBVIOUS
    <2> QED  BY <2>1
  <1>2. m * q = m * p + m + m * d
    BY <1>1
  <1>3. m * d \in Nat /\ m * p \in Nat
    OBVIOUS
  <1> QED  BY <1>2, <1>3

LEMMA Division ==
    ASSUME NEW x \in Nat, NEW m \in Nat \ {0}
    PROVE  /\ x \div m \in Nat /\ x % m \in Nat /\ x % m < m
           /\ x = m * (x \div m) + (x % m)
  OBVIOUS

(* Quotient and remainder are determined. *)
LEMMA DivisionIs ==
    ASSUME NEW x \in Nat, NEW m \in Nat \ {0}, NEW q \in Nat, NEW r \in Nat, r < m, x = m * q + r
    PROVE  x \div m = q /\ x % m = r
  <1>1. PICK p \in Nat : p = x \div m
    BY Division
  <1>2. PICK s \in Nat : s = x % m
    BY Division
  <1>3. s < m /\ x = m * p + s
    BY <1>1, <1>2, Division
  <1>4. m * p \in Nat /\ m * q \in Nat  OBVIOUS
  <1>5. ~(p < q)
    <2> SUFFICES ASSUME p < q PROVE FALSE  OBVIOUS
    <2>1. m * p + m <= m * q  BY ProductOrder
    <2> QED  BY <1>3, <1>4, <2>1
  <1>6. ~(q < p)
    <2> SUFFICES ASSUME q < p PROVE FALSE  OBVIOUS
    <2>1. m * q + m <= m * p  BY ProductOrder
    <2> QED  BY <1>3, <1>4, <2>1
  <1>7. p = q  BY <1>5, <1>6
  <1>8. m * p = m * q  BY <1>7
  <1>9. s = r  BY <1>3, <1>4, <1>8
  <1> QED  BY <1>1, <1>2, <1>7, <1>9

LEMMA DivisionTwice ==
    ASSUME NEW x \in Nat, NEW m \in Nat \ {0}, NEW b \in Nat \ {0}
    PROVE  (x \div m) \div b = x \div (b * m)
  <1>1. PICK y \in Nat : y = x \div m  BY Division
  <1>2. PICK r \in Nat : r = x % m  BY Division
  <1>3. PICK z \in Nat : z = y \div b  BY Division
  <1>4. PICK d \in Nat : d = y % b  BY Division
  <1>5. x = m * y + r /\ r < m  BY <1>1, <1>2, Division
  <1>6. y = b * z + d /\ d < b  BY <1>3, <1>4, Division
  <1>7. m * d + m <= m * b  BY <1>6, ProductOrder
  <1>8. m * y = m * (b * z) + m * d  BY <1>6
  <1>9. m * (b * z) = (b * m) * z /\ m * b = b * m  OBVIOUS
  <1>10. /\ m * d \in Nat /\ m * b \in Nat /\ m * y \in Nat
         /\ (b * m) * z \in Nat /\ b * m \in Nat \ {0}
    OBVIOUS
  <1>11. x = (b * m) * z + (m * d + r) /\ m * d + r < b * m
    BY <1>5, <1>7, <1>8, <1>9, <1>10
  <1>12. PICK e \in Nat : e = m * d + r  BY <1>10
  <1>13. PICK k \in Nat \ {0} : k = b * m  BY <1>10
  <1>14. x \div k = z
    BY <1>11, <1>12, <1>13, DivisionIs
  <1> QED  BY <1>1, <1>3, <1>13, <1>14

LEMMA DivisionOrder ==
    ASSUME NEW x \in Nat, NEW y \in Nat, NEW m \in Nat \ {0}, x <= y
    PROVE  x \div m <= y \div m
  <1>1. PICK p \in Nat : p = x \div m  BY Division
  <1>2. PICK q \in Nat : q = y \div m  BY Division
  <1>3. x = m * p + (x % m) /\ x % m \in Nat  BY <1>1, Division
  <1>4. y = m * q + (y % m) /\ y % m \in Nat /\ y % m < m  BY <1>2, Division
  <1>5. m * p \in Nat /\ m * q \in Nat  OBVIOUS
  <1>6. ~(q < p)
    <2> SUFFICES ASSUME q < p PROVE FALSE  OBVIOUS
    <2>1. m * q + m <= m * p  BY ProductOrder
    <2> QED  BY <1>3, <1>4, <1>5, <2>1
  <1> QED  BY <1>1, <1>2, <1>6

-----------------------------------------------------------------------------
(* Recursive functions *)

(* The function f begins with c and goes on by the steps h. *)
Recurs(f, c, h, n) == f[0] = c /\ \A i \in 1..n : f[i] = h[i][f[i - 1]]

(* There is such a function. *)
LEMMA Recursion ==
    ASSUME NEW n \in Nat, NEW V, NEW c \in V, NEW h \in [1..n -> [V -> V]]
    PROVE  \E f \in [0..n -> V] : Recurs(f, c, h, n)
  <1> DEFINE P(m) == \E f \in [0..n -> V] : f[0] = c /\ \A i \in 1..m : f[i] = h[i][f[i - 1]]
             Bad == {m \in 0..n : ~P(m)}
  <1>1. P(0)
    <2> DEFINE f == [i \in 0..n |-> c]
    <2>1. f \in [0..n -> V] /\ f[0] = c /\ \A i \in 1..0 : f[i] = h[i][f[i - 1]]
      OBVIOUS
    <2> QED  BY <2>1, Zenon
  <1>2. ASSUME NEW m \in 1..n, P(m - 1)
        PROVE  P(m)
    <2>1. PICK f \in [0..n -> V] : f[0] = c /\ \A i \in 1..(m - 1) : f[i] = h[i][f[i - 1]]
      BY <1>2, Zenon
    <2>2. PICK v \in V : v = h[m][f[m - 1]]
      <3>1. m - 1 \in 0..n  OBVIOUS
      <3>2. f[m - 1] \in V /\ h[m] \in [V -> V]  BY <3>1, Zenon
      <3> QED  BY <3>2, Zenon
    <2> DEFINE g == [f EXCEPT ![m] = v]
    <2>3. g \in [0..n -> V] /\ g[0] = c  BY <2>1, <2>2
    <2>4. ASSUME NEW i \in 1..m PROVE g[i] = h[i][g[i - 1]]
      <3>1. i \in 0..n /\ i - 1 \in 0..n /\ i - 1 # m /\ m \in 0..n /\ (i # m => i \in 1..(m - 1))
        OBVIOUS
      <3>2. g[i - 1] = f[i - 1] /\ (i = m => g[i] = v) /\ (i # m => g[i] = f[i])
        BY <3>1, Zenon
      <3> QED  BY <2>1, <2>2, <3>1, <3>2, Zenon
    <2> HIDE DEF g
    <2> QED  BY <2>3, <2>4, Zenon
  <1>3. Bad = {}
    <2> SUFFICES ASSUME Bad # {} PROVE FALSE  OBVIOUS
    <2>1. Bad \in SUBSET Nat  OBVIOUS
    <2>2. PICK m \in Bad : \A k \in Bad : m <= k
      <3> HIDE DEF Bad
      <3> QED  BY <2>1, Least, Zenon
    <2>3. m \in 0..n /\ ~P(m)  BY <2>2, Zenon
    <2>4. m # 0  BY <2>3, <1>1, Zenon
    <2> HIDE DEF P
    <2>5. m \in 1..n /\ m - 1 \in 0..n /\ ~(m <= m - 1)  BY <2>3, <2>4
    <2>6. P(m - 1)  BY <2>2, <2>5, Zenon
    <2> QED  BY <1>2, <2>3, <2>5, <2>6, Zenon
  <1>4. n \in 0..n  OBVIOUS
  <1>5. P(n)
    <2> HIDE DEF P
    <2> QED  BY <1>3, <1>4, Zenon
  <1> QED  BY <1>5, Zenon DEF Recurs

LEMMA PowerIs ==
    /\ \A k \in 0..Width : Power[k] \in Nat \ {0}
    /\ Power[0] = 1
    /\ \A k \in 1..Width : Power[k] = Base * Power[k - 1]
  <1> DEFINE V == Nat \ {0}
             h == [k \in 1..Width |-> [v \in V |-> Base * v]]
  <1>1. Width \in Nat /\ Base \in Nat \ {0}  BY StoredTimeAssumption
  <1>2. h \in [1..Width -> [V -> V]]
    <2>1. \A v \in V : Base * v \in V  BY <1>1
    <2> QED  BY <2>1, Zenon
  <1>3. 1 \in V  OBVIOUS
  <1>4. PICK f \in [0..Width -> V] : f[0] = 1 /\ \A k \in 1..Width : f[k] = h[k][f[k - 1]]
    <2>1. PICK W : W = V  BY Zenon
    <2>2. PICK g : g = h  BY Zenon
    <2>3. g \in [1..Width -> [W -> W]] /\ 1 \in W  BY <1>2, <1>3, <2>1, <2>2, Zenon
    <2>4. \E f \in [0..Width -> W] : Recurs(f, 1, g, Width)
      BY <1>1, <2>3, Recursion, Zenon
    <2> QED  BY <2>1, <2>2, <2>4, Zenon DEF Recurs
  <1>5. \A k \in 1..Width : k - 1 \in 0..Width  BY <1>1
  <1>6. \A k \in 1..Width : f[k] = Base * f[k - 1]
    <2> HIDE DEF V
    <2> QED  BY <1>4, <1>5, Zenon
  <1>7. \A k \in 0..Width : f[k] = IF k = 0 THEN 1 ELSE Base * f[k - 1]
    <2>1. \A k \in 0..Width : k # 0 => k \in 1..Width  BY <1>1
    <2> QED  BY <2>1, <1>4, <1>6, Zenon
  <1>8. f = [k \in 0..Width |-> IF k = 0 THEN 1 ELSE Base * f[k - 1]]
    BY <1>4, <1>7, Zenon
  <1>9. Power = [k \in 0..Width |-> IF k = 0 THEN 1 ELSE Base * Power[k - 1]]
    BY <1>8, Zenon DEF Power
  <1>10. PICK p : p = Power  OBVIOUS
  <1>11. p = [k \in 0..Width |-> IF k = 0 THEN 1 ELSE Base * p[k - 1]]
    BY <1>9, <1>10, Zenon
  <1>12. \A k \in 0..Width : p[k] = IF k = 0 THEN 1 ELSE Base * p[k - 1]
    BY <1>11, Zenon
  <1>13. p[0] = 1 /\ \A k \in 1..Width : p[k] = Base * p[k - 1]
    <2>1. 0 \in 0..Width /\ \A k \in 1..Width : k # 0 /\ k \in 0..Width  BY <1>1
    <2> QED  BY <2>1, <1>12, Zenon
  <1> DEFINE Bad == {k \in 0..Width : p[k] # f[k]}
  <1>14. Bad = {}
    <2> SUFFICES ASSUME Bad # {} PROVE FALSE  OBVIOUS
    <2>1. Bad \in SUBSET Nat  OBVIOUS
    <2>2. PICK k \in Bad : \A l \in Bad : k <= l
      <3> HIDE DEF Bad
      <3> QED  BY <2>1, Least, Zenon
    <2>3. k \in 0..Width /\ k # 0  BY <2>2, <1>4, <1>13, Zenon
    <2>4. k \in 1..Width /\ k - 1 \in 0..Width /\ ~(k <= k - 1)  BY <2>3, <1>1
    <2>5. p[k - 1] = f[k - 1]  BY <2>2, <2>4, Zenon
    <2> QED  BY <2>2, <2>4, <2>5, <1>6, <1>13, Zenon
  <1>15. \A k \in 0..Width : p[k] \in V
    <2> HIDE DEF V
    <2> QED  BY <1>4, <1>14, Zenon
  <1> QED  BY <1>10, <1>13, <1>15, Zenon

-----------------------------------------------------------------------------
(* Digits *)

(* What the first i digits of the fraction of t amount to. *)
Leading(t, i) == (t % Unit) \div Power[Width - i]

LEMMA UnitIs == Unit \in Nat \ {0} /\ Width \in Nat \ {0} /\ Base \in Nat \ {0} /\ Width \in 0..Width
  <1>1. Width \in Nat \ {0} /\ Base \in Nat \ {0} /\ Width \in 0..Width
    BY StoredTimeAssumption
  <1> QED  BY <1>1, PowerIs, Zenon DEF Unit

LEMMA LeadingIs ==
    ASSUME NEW t \in Nat
    PROVE  /\ \A i \in 0..Width : Leading(t, i) \in Nat
           /\ Leading(t, 0) = 0 /\ Leading(t, Width) = t % Unit
           /\ \A i \in 1..Width : /\ Fraction(t)[i] \in Nat
                                 /\ Leading(t, i) = Base * Leading(t, i - 1) + Fraction(t)[i]
  <1>1. PICK x \in Nat : x = t % Unit /\ x < Unit
    BY UnitIs, Division
  <1>2. ASSUME NEW i \in 0..Width PROVE Width - i \in 0..Width
    BY UnitIs
  <1>3. \A i \in 0..Width : Leading(t, i) \in Nat
    <2> TAKE i \in 0..Width
    <2>1. PICK m \in Nat \ {0} : m = Power[Width - i]
      BY <1>2, PowerIs, Zenon
    <2>2. x \div m \in Nat  BY Division
    <2> QED  BY <1>1, <2>1, <2>2, Zenon DEF Leading
  <1>4. Leading(t, 0) = 0
    <2>1. Width - 0 = Width  BY UnitIs
    <2>2. x = Unit * 0 + x  BY UnitIs
    <2>3. x \div Unit = 0
      <3>1. PICK u \in Nat \ {0} : u = Unit  BY UnitIs
      <3>2. x < u /\ x = u * 0 + x  BY <1>1, <3>1
      <3>3. x \div u = 0  BY <3>2, DivisionIs
      <3> QED  BY <3>1, <3>3
    <2> QED  BY <1>1, <2>1, <2>3, Zenon DEF Leading, Unit
  <1>5. Leading(t, Width) = t % Unit
    <2>1. Width - Width = 0  BY UnitIs
    <2>2. x \div 1 = x  OBVIOUS
    <2> QED  BY <1>1, <2>1, <2>2, PowerIs, Zenon DEF Leading
  <1>6. ASSUME NEW i \in 1..Width
        PROVE  /\ Fraction(t)[i] \in Nat
               /\ Leading(t, i) = Base * Leading(t, i - 1) + Fraction(t)[i]
    <2>1. /\ Width - i \in 0..Width /\ Width - i + 1 \in 1..Width
          /\ Width - (i - 1) = Width - i + 1 /\ (Width - i + 1) - 1 = Width - i
      BY UnitIs
    <2>2. PICK m \in Nat \ {0} : m = Power[Width - i]
      BY <2>1, PowerIs, Zenon
    <2>3. Power[Width - (i - 1)] = Base * m
      BY <2>1, <2>2, PowerIs, Zenon
    <2>4. PICK y \in Nat : y = x \div m
      BY Division
    <2>5. Leading(t, i) = y
      BY <1>1, <2>2, <2>4, Zenon DEF Leading
    <2>6. Leading(t, i - 1) = y \div Base
      <3>1. PICK b \in Nat \ {0} : b = Base  BY UnitIs
      <3>2. (x \div m) \div b = x \div (b * m)  BY DivisionTwice
      <3>3. y \div Base = x \div (Base * m)  BY <2>4, <3>1, <3>2, Zenon
      <3>4. Leading(t, i - 1) = x \div (Base * m)  BY <1>1, <2>3, Zenon DEF Leading
      <3> QED  BY <3>3, <3>4, Zenon
    <2>7. Fraction(t)[i] = y % Base
      BY <1>1, <2>2, <2>4, Zenon DEF Fraction
    <2>8. y % Base \in Nat /\ y = Base * (y \div Base) + (y % Base)
      BY UnitIs, Division
    <2> QED  BY <2>5, <2>6, <2>7, <2>8, Zenon
  <1> QED  BY <1>3, <1>4, <1>5, <1>6, Zenon

LEMMA LeadingOrder ==
    ASSUME NEW s \in Nat, NEW t \in Nat, s % Unit <= t % Unit, NEW i \in 0..Width
    PROVE  Leading(s, i) <= Leading(t, i)
  <1>1. PICK x \in Nat : x = s % Unit  BY UnitIs, Division
  <1>2. PICK y \in Nat : y = t % Unit  BY UnitIs, Division
  <1>3. Width - i \in 0..Width  BY UnitIs
  <1>4. PICK m \in Nat \ {0} : m = Power[Width - i]  BY <1>3, PowerIs, Zenon
  <1>5. x \div m <= y \div m  BY <1>1, <1>2, DivisionOrder
  <1> QED  BY <1>1, <1>2, <1>4, <1>5, Zenon DEF Leading

(* a comes before b at position n. *)
Differ(a, b, n) == a[n] < b[n] /\ \A i \in 1..(n - 1) : a[i] = b[i]

LEMMA LastDigit ==
    ASSUME NEW e \in Nat, NEW c \in Nat, NEW d \in Nat
    PROVE  /\ Base * e + c = Base * e + d => c = d
           /\ Base * e + c < Base * e + d => c < d
  <1>1. PICK k \in Nat : k = Base * e  BY UnitIs
  <1>2. (k + c = k + d => c = d) /\ (k + c < k + d => c < d)  OBVIOUS
  <1> QED  BY <1>1, <1>2, Zenon

(* Of two fractions the first digit that differs decides. *)
LEMMA FractionOrder ==
    ASSUME NEW s \in Nat, NEW t \in Nat, s % Unit < t % Unit
    PROVE  \E n \in 1..Width : Differ(Fraction(s), Fraction(t), n)
  <1> DEFINE Bad == {i \in 0..Width : Leading(s, i) # Leading(t, i)}
  <1>0. s % Unit \in Nat /\ t % Unit \in Nat  BY UnitIs, Division
  <1>1. Bad \in SUBSET Nat  BY UnitIs
  <1>2. Width \in Bad
    <2>1. s % Unit # t % Unit  BY <1>0
    <2> QED  BY <2>1, LeadingIs, UnitIs, Zenon
  <1>3. PICK n \in Bad : \A k \in Bad : n <= k
    <2> HIDE DEF Bad
    <2> QED  BY <1>1, <1>2, Least, Zenon
  <1>4. n \in 0..Width /\ Leading(s, n) # Leading(t, n)  BY <1>3, Zenon
  <1>5. n # 0  BY <1>4, LeadingIs, Zenon
  <1>6. n \in 1..Width /\ n - 1 \in 0..Width  BY <1>4, <1>5, UnitIs
  <1>7. \A i \in 0..(n - 1) : i \in 0..Width /\ ~(n <= i)  BY <1>6, UnitIs
  <1>8. \A i \in 0..(n - 1) : Leading(s, i) = Leading(t, i)  BY <1>3, <1>7, Zenon
  <1>9. ASSUME NEW i \in 1..n
        PROVE  /\ Fraction(s)[i] \in Nat /\ Fraction(t)[i] \in Nat
               /\ i \in 0..Width /\ i - 1 \in 0..(n - 1) /\ i - 1 \in 0..Width
               /\ Leading(s, i) = Base * Leading(s, i - 1) + Fraction(s)[i]
               /\ Leading(t, i) = Base * Leading(t, i - 1) + Fraction(t)[i]
    <2>1. i \in 1..Width /\ i \in 0..Width /\ i - 1 \in 0..(n - 1) /\ i - 1 \in 0..Width
      BY <1>6, UnitIs
    <2> QED  BY <2>1, LeadingIs, Zenon
  <1>10. Fraction(s)[n] < Fraction(t)[n]
    <2>1. n \in 1..n /\ n - 1 \in 0..(n - 1)  BY <1>6
    <2>2. PICK p \in Nat : p = Leading(s, n)  BY <1>4, LeadingIs, Zenon
    <2>3. PICK q \in Nat : q = Leading(t, n)  BY <1>4, LeadingIs, Zenon
    <2>4. PICK e \in Nat : e = Leading(s, n - 1) /\ e = Leading(t, n - 1)
      BY <1>6, <1>8, <2>1, LeadingIs, Zenon
    <2>5. p <= q
      <3>1. s % Unit <= t % Unit  BY <1>0
      <3> QED  BY <1>4, <2>2, <2>3, <3>1, LeadingOrder, Zenon
    <2>6. p < q  BY <2>2, <2>3, <2>5, <1>4
    <2>7. PICK c \in Nat : c = Fraction(s)[n]  BY <1>9, <2>1, Zenon
    <2>8. PICK d \in Nat : d = Fraction(t)[n]  BY <1>9, <2>1, Zenon
    <2>9. p = Base * e + c /\ q = Base * e + d
      BY <1>9, <2>1, <2>2, <2>3, <2>4, <2>7, <2>8, Zenon
    <2>10. c < d  BY <2>6, <2>9, LastDigit, Zenon
    <2> QED  BY <2>7, <2>8, <2>10, Zenon
  <1>11. ASSUME NEW i \in 1..(n - 1) PROVE Fraction(s)[i] = Fraction(t)[i]
    <2>1. i \in 1..n /\ i \in 0..(n - 1) /\ i - 1 \in 0..(n - 1)  BY <1>6
    <2>2. PICK p \in Nat : p = Leading(s, i) /\ p = Leading(t, i)
      BY <1>8, <1>9, <2>1, LeadingIs, Zenon
    <2>3. PICK e \in Nat : e = Leading(s, i - 1) /\ e = Leading(t, i - 1)
      BY <1>8, <1>9, <2>1, LeadingIs, Zenon
    <2>4. PICK c \in Nat : c = Fraction(s)[i]  BY <1>9, <2>1, Zenon
    <2>5. PICK d \in Nat : d = Fraction(t)[i]  BY <1>9, <2>1, Zenon
    <2>6. p = Base * e + c /\ p = Base * e + d
      BY <1>9, <2>1, <2>2, <2>3, <2>4, <2>5, Zenon
    <2>7. c = d  BY <2>6, LastDigit, Zenon
    <2> QED  BY <2>4, <2>5, <2>7, Zenon
  <1> QED  BY <1>6, <1>10, <1>11, Zenon DEF Differ

-----------------------------------------------------------------------------
(* Text *)

(* The text of second w and the first n digits d. *)
Written(w, d, n) == <<w, Dot>> \o Characters(d, n) \o <<Zed>>

Numbers(d, n) == \A i \in 1..n : d[i] \in Nat

Shape(s, w, d, n) ==
    /\ Len(s) = n + 3 /\ s[1] = w /\ s[2] = Dot
    /\ \A i \in 1..n : s[i + 2] = Zero + d[i]
    /\ \A i \in 1..(n + 3) : s[i] \in Nat

LEMMA WrittenIs ==
    ASSUME NEW w \in Nat, NEW n \in Nat, NEW d, Numbers(d, n)
    PROVE  Shape(Written(w, d, n), w, d, n)
  <1>1. PICK c : c = Characters(d, n)  OBVIOUS
  <1>2. c \in Seq(Nat) /\ Len(c) = n /\ \A i \in 1..n : c[i] = Zero + d[i]
    BY <1>1 DEF Characters, Zero, Numbers
  <1>3. Written(w, d, n) = <<w, Dot>> \o c \o <<Zed>>
    BY <1>1, Zenon DEF Written
  <1>4. PICK s : s = <<w, Dot>> \o c \o <<Zed>>  BY Zenon
  <1>5. Len(s) = n + 3 /\ s[1] = w /\ s[2] = Dot /\ s \in Seq(Nat)
    BY <1>2, <1>4 DEF Dot, Zed
  <1>6. \A i \in 1..n : s[i + 2] = Zero + d[i]
    BY <1>2, <1>4 DEF Dot, Zed
  <1>7. \A i \in 1..(n + 3) : s[i] \in Nat
    BY <1>5
  <1> QED  BY <1>3, <1>4, <1>5, <1>6, <1>7, Zenon DEF Shape

LEMMA ScheduleTextIs ==
    ASSUME NEW t \in Nat
    PROVE  /\ Len(ScheduleText(t)) = Width + 3
           /\ ScheduleText(t)[1] = t \div Unit /\ ScheduleText(t)[2] = Dot
           /\ \A i \in 1..Width : ScheduleText(t)[i + 2] = Zero + Fraction(t)[i]
           /\ \A i \in 1..(Width + 3) : ScheduleText(t)[i] \in Nat
           /\ t \div Unit \in Nat
  <1>1. t \div Unit \in Nat /\ Width \in Nat  BY UnitIs, Division
  <1>2. \A i \in 1..Width : Fraction(t)[i] \in Nat  BY LeadingIs, Zenon
  <1>3. ScheduleText(t) = Written(t \div Unit, Fraction(t), Width)
    BY Zenon DEF ScheduleText, Written
  <1>4. PICK w \in Nat : w = t \div Unit  BY <1>1
  <1>5. PICK d : d = Fraction(t)  OBVIOUS
  <1>6. Numbers(d, Width)  BY <1>2, <1>5, Zenon DEF Numbers
  <1>7. PICK s : s = Written(w, d, Width)  OBVIOUS
  <1>8. Shape(s, w, d, Width)  BY <1>1, <1>6, <1>7, WrittenIs, Zenon
  <1>9. s = ScheduleText(t)  BY <1>3, <1>4, <1>5, <1>7, Zenon
  <1> QED  BY <1>1, <1>4, <1>5, <1>8, <1>9, Zenon DEF Shape

LEMMA EarlierTextBefore ==
    ASSUME NEW s \in Nat, NEW t \in Nat, s < t
    PROVE  \E n \in 1..(Width + 3) : Differ(ScheduleText(s), ScheduleText(t), n)
  <1>1. PICK v \in Nat : v = s \div Unit  BY UnitIs, Division
  <1>2. PICK w \in Nat : w = t \div Unit  BY UnitIs, Division
  <1>3. PICK u \in Nat \ {0} : u = Unit  BY UnitIs
  <1>4. v <= w
    <2>1. s \div u <= t \div u  BY DivisionOrder
    <2> QED  BY <1>1, <1>2, <1>3, <2>1
  <1>5. CASE v < w
    <2>1. 1 \in 1..(Width + 3) /\ \A i \in 1..(1 - 1) : FALSE  BY UnitIs
    <2>2. ScheduleText(s)[1] < ScheduleText(t)[1]  BY <1>1, <1>2, <1>5, ScheduleTextIs, Zenon
    <2> QED  BY <2>1, <2>2, Zenon DEF Differ
  <1>6. CASE v = w
    <2>1. s % Unit < t % Unit
      <3>1. s = u * v + (s % u) /\ t = u * w + (t % u) /\ s % u \in Nat /\ t % u \in Nat
        BY <1>1, <1>2, <1>3, Division
      <3>2. u * v = u * w /\ u * v \in Nat  BY <1>6
      <3>3. s % u < t % u  BY <3>1, <3>2
      <3> QED  BY <1>3, <3>3, Zenon
    <2>2. PICK n \in 1..Width : Differ(Fraction(s), Fraction(t), n)
      BY <2>1, FractionOrder, Zenon
    <2>3. Fraction(s)[n] < Fraction(t)[n] /\ \A i \in 1..(n - 1) : Fraction(s)[i] = Fraction(t)[i]
      BY <2>2, Zenon DEF Differ
    <2>4. ScheduleText(s)[n + 2] < ScheduleText(t)[n + 2]
      <3>1. Fraction(s)[n] \in Nat /\ Fraction(t)[n] \in Nat  BY LeadingIs, Zenon
      <3>2. Zero + Fraction(s)[n] < Zero + Fraction(t)[n]  BY <2>3, <3>1 DEF Zero
      <3> QED  BY <3>2, ScheduleTextIs, Zenon
    <2>5. ASSUME NEW i \in 1..(n + 1) PROVE ScheduleText(s)[i] = ScheduleText(t)[i]
      <3>1. CASE i = 1
        <4>1. ScheduleText(s)[1] = v /\ ScheduleText(t)[1] = w  BY <1>1, <1>2, ScheduleTextIs, Zenon
        <4> QED  BY <1>6, <3>1, <4>1, Zenon
      <3>2. CASE i = 2  BY <3>2, ScheduleTextIs, Zenon
      <3>3. CASE i > 2
        <4>1. PICK k \in 1..(n - 1) : i = k + 2
          <5>1. i - 2 \in 1..(n - 1) /\ i = (i - 2) + 2  BY <3>3
          <5> QED  BY <5>1
        <4>2. k \in 1..Width  BY UnitIs
        <4>3. /\ ScheduleText(s)[k + 2] = Zero + Fraction(s)[k]
              /\ ScheduleText(t)[k + 2] = Zero + Fraction(t)[k]
          BY <4>2, ScheduleTextIs, Zenon
        <4>4. Fraction(s)[k] = Fraction(t)[k]  BY <2>3, Zenon
        <4> QED  BY <4>1, <4>3, <4>4, Zenon
      <3> QED  BY <3>1, <3>2, <3>3
    <2>6. n + 2 \in 1..(Width + 3) /\ (n + 2) - 1 = n + 1  BY UnitIs
    <2>7. \A i \in 1..((n + 2) - 1) : ScheduleText(s)[i] = ScheduleText(t)[i]
      BY <2>5, <2>6, Zenon
    <2>8. Differ(ScheduleText(s), ScheduleText(t), n + 2)
      BY <2>4, <2>7, Zenon DEF Differ
    <2> QED  BY <2>6, <2>8, Zenon
  <1> QED  BY <1>4, <1>5, <1>6

LEMMA LaterTextIsNotBefore ==
    ASSUME NEW m \in Nat, NEW a, NEW b, Len(a) = m, Len(b) = m,
           \A i \in 1..m : a[i] \in Nat /\ b[i] \in Nat,
           NEW n \in 1..m, Differ(b, a, n)
    PROVE  ~AtMost(a, b)
  <1>1. b[n] < a[n] /\ \A i \in 1..(n - 1) : b[i] = a[i]
    BY Zenon DEF Differ
  <1>2. a[n] \in Nat /\ b[n] \in Nat  BY Zenon
  <1>3. ~(a[n] < b[n]) /\ a[n] # b[n]  BY <1>1, <1>2
  <1>4. a # b  BY <1>3, Zenon
  <1>5. ~(Len(a) < Len(b))  OBVIOUS
  <1>6. ASSUME NEW k \in 1..m, a[k] < b[k], \A i \in 1..(k - 1) : a[i] = b[i]
        PROVE  FALSE
    <2>1. CASE k = n  BY <1>3, <1>6, <2>1, Zenon
    <2>2. CASE k < n
      <3>1. k \in 1..(n - 1)  BY <2>2
      <3>2. a[k] = b[k]  BY <1>1, <3>1, Zenon
      <3>3. a[k] \in Nat  BY Zenon
      <3>4. ~(a[k] < a[k])  BY <3>3
      <3> QED  BY <1>6, <3>2, <3>4, Zenon
    <2>3. CASE n < k
      <3>1. n \in 1..(k - 1)  BY <2>3
      <3> QED  BY <1>3, <1>6, <3>1, Zenon
    <2> QED  BY <2>1, <2>2, <2>3
  <1> QED  BY <1>4, <1>5, <1>6, Zenon DEF AtMost, Before

(* Text order of times in the fixed-width form is time order. *)
LEMMA TextDecides ==
    ASSUME NEW s \in Nat, NEW t \in Nat
    PROVE  AtMost(ScheduleText(s), ScheduleText(t)) <=> s <= t
  <1>1. PICK a : a = ScheduleText(s)  OBVIOUS
  <1>2. PICK b : b = ScheduleText(t)  OBVIOUS
  <1>3. PICK m \in Nat : m = Width + 3  BY UnitIs
  <1>4. /\ Len(a) = m /\ Len(b) = m
        /\ \A i \in 1..m : a[i] \in Nat /\ b[i] \in Nat
    BY <1>1, <1>2, <1>3, ScheduleTextIs, Zenon
  <1>5. ASSUME s < t PROVE AtMost(a, b)
    <2>1. PICK n \in 1..m : Differ(a, b, n)
      BY <1>1, <1>2, <1>3, <1>5, EarlierTextBefore, Zenon
    <2>2. n \in 1..Len(a) /\ n <= Len(b)  BY <1>4
    <2> QED  BY <2>1, <2>2, Zenon DEF Differ, Before, AtMost
  <1>6. ASSUME t < s PROVE ~AtMost(a, b)
    <2>1. PICK n \in 1..m : Differ(b, a, n)
      BY <1>1, <1>2, <1>3, <1>6, EarlierTextBefore, Zenon
    <2> QED  BY <1>4, <2>1, LaterTextIsNotBefore, Zenon
  <1>7. s = t => AtMost(a, b)  BY <1>1, <1>2, Zenon DEF AtMost
  <1>8. (s < t /\ s <= t) \/ (t < s /\ ~(s <= t)) \/ (s = t /\ s <= t)  OBVIOUS
  <1> QED  BY <1>1, <1>2, <1>5, <1>6, <1>7, <1>8, Zenon

-----------------------------------------------------------------------------
(* Parsing *)

Digits(text) == IF text[2] = Dot THEN Len(text) - 3 ELSE 0

(* One step of reading the digits of a text. *)
Reading(f, text, i) == IF i = 0 THEN 0 ELSE f[i - 1] * Base + (text[i + 2] - Zero)
Value(text) == CHOOSE f : f = [i \in 0..Digits(text) |-> Reading(f, text, i)]

(* The first n digits of the fraction of t, which has no others. *)
Spells(text, t, n) ==
    /\ text[1] = t \div Unit /\ Digits(text) = n
    /\ \A i \in 1..n : text[i + 2] = Zero + Fraction(t)[i]
    /\ \A i \in (n + 1)..Width : Fraction(t)[i] = 0

LEMMA ValueIs ==
    ASSUME NEW t \in Nat, NEW n \in 0..Width, NEW text, Spells(text, t, n)
    PROVE  Value(text)[n] = Leading(t, n)
  <1> DEFINE g == [i \in 0..n |-> Leading(t, i)]
  <1>1. n \in Nat /\ n \in 0..n /\ \A i \in 0..n : i \in 0..Width  BY UnitIs
  <1>2. ASSUME NEW i \in 1..n
        PROVE  /\ i # 0 /\ i \in 0..n /\ i - 1 \in 0..n
               /\ Leading(t, i) = Leading(t, i - 1) * Base + (text[i + 2] - Zero)
    <2>1. i # 0 /\ i \in 0..n /\ i \in 1..Width /\ i - 1 \in 0..n /\ i - 1 \in 0..Width
      BY UnitIs
    <2>2. PICK e \in Nat : e = Leading(t, i - 1)  BY <2>1, LeadingIs, Zenon
    <2>3. PICK d \in Nat : d = Fraction(t)[i]  BY <2>1, LeadingIs, Zenon
    <2>4. Leading(t, i) = Base * e + d  BY <2>1, <2>2, <2>3, LeadingIs, Zenon
    <2>5. text[i + 2] = Zero + d  BY <2>3, Zenon DEF Spells
    <2>6. Base * e + d = e * Base + ((Zero + d) - Zero)
      <3>1. PICK b \in Nat : b = Base  BY UnitIs
      <3>2. b * e \in Nat /\ b * e = e * b  OBVIOUS
      <3> QED  BY <3>1, <3>2 DEF Zero
    <2> QED  BY <2>1, <2>2, <2>4, <2>5, <2>6, Zenon
  <1>3. \A i \in 0..n : i # 0 => i \in 1..n  BY <1>1
  <1>4. \A i \in 0..n : g[i] = Reading(g, text, i)
    <2> TAKE i \in 0..n
    <2>1. CASE i = 0  BY <2>1, LeadingIs, Zenon DEF Reading
    <2>2. CASE i # 0
      <3>1. g[i - 1] = Leading(t, i - 1)  BY <1>2, <1>3, <2>2, Zenon
      <3>2. Leading(t, i) = Leading(t, i - 1) * Base + (text[i + 2] - Zero)
        BY <1>2, <1>3, <2>2, Zenon
      <3> QED  BY <2>2, <3>1, <3>2, Zenon DEF Reading
    <2> QED  BY <2>1, <2>2
  <1>5. g = [i \in 0..n |-> Reading(g, text, i)]
    <2>1. PICK f : f = [i \in 0..n |-> Reading(g, text, i)]  BY Zenon
    <2>2. \A i \in 0..n : f[i] = g[i]  BY <1>4, <2>1, Zenon
    <2> QED  BY <2>1, <2>2, <1>4, Zenon
  <1>6. Digits(text) = n  BY Zenon DEF Spells
  <1>7. PICK h : h = g  BY Zenon
  <1>8. h = [i \in 0..Digits(text) |-> Reading(h, text, i)]
    <2> HIDE DEF g
    <2> QED  BY <1>5, <1>6, <1>7, Zenon
  <1>9. Value(text) = [i \in 0..Digits(text) |-> Reading(Value(text), text, i)]
    BY <1>8, Zenon DEF Value
  <1>10. PICK f : f = Value(text)  OBVIOUS
  <1>11. f = [i \in 0..n |-> Reading(f, text, i)]
    BY <1>6, <1>9, <1>10, Zenon
  <1>12. \A i \in 0..n : f[i] = Reading(f, text, i)
    BY <1>11, Zenon
  <1> DEFINE Bad == {i \in 0..n : f[i] # Leading(t, i)}
  <1>13. Bad = {}
    <2> SUFFICES ASSUME Bad # {} PROVE FALSE  OBVIOUS
    <2>1. Bad \in SUBSET Nat  BY <1>1
    <2>2. PICK k \in Bad : \A l \in Bad : k <= l
      <3> HIDE DEF Bad
      <3> QED  BY <2>1, Least, Zenon
    <2>3. k \in 0..n /\ f[k] # Leading(t, k)  BY <2>2, Zenon
    <2>4. k # 0
      <3> SUFFICES ASSUME k = 0 PROVE FALSE  OBVIOUS
      <3>1. f[0] = 0  BY <1>12, <2>3, Zenon DEF Reading
      <3> QED  BY <2>3, <3>1, LeadingIs, Zenon
    <2>5. k \in 1..n /\ k - 1 \in 0..n /\ ~(k <= k - 1)  BY <2>3, <2>4, <1>1
    <2>6. f[k - 1] = Leading(t, k - 1)  BY <2>2, <2>5, Zenon
    <2>7. f[k] = f[k - 1] * Base + (text[k + 2] - Zero)  BY <1>12, <2>3, <2>4, Zenon DEF Reading
    <2> QED  BY <1>2, <2>3, <2>5, <2>6, <2>7, Zenon
  <1> QED  BY <1>1, <1>10, <1>13, Zenon

(* Digits that are zero only scale what comes before them. *)
LEMMA ZerosScale ==
    ASSUME NEW t \in Nat, NEW n \in 0..Width, \A i \in (n + 1)..Width : Fraction(t)[i] = 0
    PROVE  t % Unit = Leading(t, n) * Power[Width - n]
  <1>1. PICK q \in Nat : q = Leading(t, n)  BY LeadingIs, Zenon
  <1> DEFINE Bad == {k \in 0..(Width - n) : Leading(t, n + k) # q * Power[k]}
  <1>2. Bad = {}
    <2> SUFFICES ASSUME Bad # {} PROVE FALSE  OBVIOUS
    <2>1. Bad \in SUBSET Nat  BY UnitIs
    <2>2. PICK k \in Bad : \A l \in Bad : k <= l
      <3> HIDE DEF Bad
      <3> QED  BY <2>1, Least, Zenon
    <2>3. k \in 0..(Width - n) /\ Leading(t, n + k) # q * Power[k]  BY <2>2, Zenon
    <2>4. k # 0
      <3> SUFFICES ASSUME k = 0 PROVE FALSE  OBVIOUS
      <3>1. n + 0 = n /\ q * 1 = q  BY UnitIs
      <3> QED  BY <1>1, <2>3, <3>1, PowerIs, Zenon
    <2>5. /\ k - 1 \in 0..(Width - n) /\ ~(k <= k - 1) /\ k \in 1..Width /\ k - 1 \in 0..Width
          /\ n + k \in 1..Width /\ n + k \in (n + 1)..Width /\ (n + k) - 1 = n + (k - 1)
      BY <2>3, <2>4, UnitIs
    <2>6. Leading(t, n + (k - 1)) = q * Power[k - 1]  BY <2>2, <2>5, Zenon
    <2>7. Leading(t, n + k) = Base * Leading(t, n + (k - 1)) + Fraction(t)[n + k]
      BY <2>5, LeadingIs, Zenon
    <2>8. Fraction(t)[n + k] = 0  BY <2>5, Zenon
    <2>9. PICK m \in Nat : m = Power[k - 1]  BY <2>5, PowerIs, Zenon
    <2>10. Power[k] = Base * m  BY <2>5, <2>9, PowerIs, Zenon
    <2>11. PICK b \in Nat : b = Base  BY UnitIs
    <2>12. b * (q * m) + 0 = q * (b * m)  OBVIOUS
    <2>13. Leading(t, n + k) = b * (q * m) + 0
      BY <2>6, <2>7, <2>8, <2>9, <2>11, Zenon
    <2> QED  BY <2>3, <2>10, <2>11, <2>12, <2>13, Zenon
  <1>3. Width - n \in 0..(Width - n) /\ n + (Width - n) = Width  BY UnitIs
  <1>4. Leading(t, n + (Width - n)) = q * Power[Width - n]
    BY <1>2, <1>3, Zenon
  <1> QED  BY <1>1, <1>3, <1>4, LeadingIs, Zenon

(* A text that spells t is parsed as t. *)
LEMMA ParseIs ==
    ASSUME NEW t \in Nat, NEW n \in 0..Width, NEW text, Spells(text, t, n)
    PROVE  ParseTime(text) = t
  <1>1. ParseTime(text) = text[1] * Unit + Value(text)[Digits(text)] * Power[Width - Digits(text)]
    BY Zenon DEF ParseTime, Value, Digits, Reading
  <1>2. Digits(text) = n /\ text[1] = t \div Unit /\ \A i \in (n + 1)..Width : Fraction(t)[i] = 0
    BY Zenon DEF Spells
  <1>3. Value(text)[n] = Leading(t, n)  BY ValueIs, Zenon
  <1>4. t % Unit = Leading(t, n) * Power[Width - n]  BY <1>2, ZerosScale, Zenon
  <1>5. ParseTime(text) = (t \div Unit) * Unit + (t % Unit)
    BY <1>1, <1>2, <1>3, <1>4, Zenon
  <1>6. (t \div Unit) * Unit + (t % Unit) = t
    <2>1. PICK u \in Nat \ {0} : u = Unit  BY UnitIs
    <2>2. PICK w \in Nat : w = t \div u  BY Division
    <2>3. t = u * w + (t % u) /\ t % u \in Nat  BY <2>2, Division
    <2>4. u * w = w * u  OBVIOUS
    <2> QED  BY <2>1, <2>2, <2>3, <2>4
  <1> QED  BY <1>5, <1>6, Zenon

LEMMA ScheduleTextParses ==
    ASSUME NEW t \in Nat
    PROVE  ParseTime(ScheduleText(t)) = t
  <1>1. PICK s : s = ScheduleText(t)  OBVIOUS
  <1>2. /\ Len(s) = Width + 3 /\ s[1] = t \div Unit /\ s[2] = Dot
        /\ \A i \in 1..Width : s[i + 2] = Zero + Fraction(t)[i]
    BY <1>1, ScheduleTextIs, Zenon
  <1>3. (Width + 3) - 3 = Width /\ \A i \in (Width + 1)..Width : FALSE  BY UnitIs
  <1>4. Digits(s) = Width  BY <1>2, <1>3, Zenon DEF Digits
  <1>5. Spells(s, t, Width)  BY <1>2, <1>3, <1>4, Zenon DEF Spells
  <1> QED  BY <1>1, <1>5, UnitIs, ParseIs, Zenon

LEMMA SignificantIs ==
    ASSUME NEW d, NEW n, n = Significant(d)
    PROVE  n \in 0..Width /\ \A i \in (n + 1)..Width : d[i] = 0
  <1> DEFINE S == {k \in 0..Width : \A i \in (k + 1)..Width : d[i] = 0}
  <1>1. S \in SUBSET Nat /\ Width \in S
    <2>1. Width \in 0..Width /\ (\A i \in (Width + 1)..Width : FALSE) /\ 0..Width \subseteq Nat
      BY UnitIs
    <2> QED  BY <2>1, Zenon
  <1>2. PICK k \in S : \A l \in S : k <= l
    <2> HIDE DEF S
    <2> QED  BY <1>1, Least, Zenon
  <1>3. k \in 0..Width /\ \A i \in (k + 1)..Width : d[i] = 0  BY <1>2, Zenon
  <1>4. k = 0 \/ d[k] # 0
    <2> SUFFICES ASSUME k # 0, d[k] = 0 PROVE FALSE  OBVIOUS
    <2>1. k - 1 \in 0..Width /\ ~(k <= k - 1)
      BY <1>3, UnitIs
    <2>2. \A i \in ((k - 1) + 1)..Width : i = k \/ i \in (k + 1)..Width
      BY <1>3, UnitIs
    <2>3. k - 1 \in S  BY <1>3, <2>1, <2>2, Zenon
    <2> HIDE DEF S
    <2> QED  BY <1>2, <2>1, <2>3, Zenon
  <1> QED  BY <1>3, <1>4, Zenon DEF Significant

LEMMA NanoTextParses ==
    ASSUME NEW t \in Nat
    PROVE  ParseTime(NanoText(t)) = t /\ NanoText(t) # NULL
  <1>1. PICK d : d = Fraction(t)  OBVIOUS
  <1>2. PICK n : n = Significant(d)  OBVIOUS
  <1>3. n \in 0..Width /\ \A i \in (n + 1)..Width : d[i] = 0  BY <1>2, SignificantIs, Zenon
  <1>4. PICK w \in Nat : w = t \div Unit  BY UnitIs, Division
  <1>5. n \in Nat /\ \A i \in 1..n : i \in 1..Width  BY <1>3, UnitIs
  <1>6. Numbers(d, n)  BY <1>1, <1>5, LeadingIs, Zenon DEF Numbers
  <1>7. PICK s : s = NanoText(t)  OBVIOUS
  <1>8. CASE n = 0
    <2>1. s = <<w, Zed>>  BY <1>1, <1>2, <1>4, <1>7, <1>8, Zenon DEF NanoText
    <2>2. s[1] = w /\ s[2] # Dot /\ s # <<>>  BY <2>1 DEF Zed, Dot
    <2>3. Digits(s) = 0 /\ \A i \in 1..0 : FALSE
      <3>1. \A i \in 1..0 : FALSE  OBVIOUS
      <3> QED  BY <2>2, <3>1, Zenon DEF Digits
    <2>4. Spells(s, t, 0)  BY <1>1, <1>3, <1>4, <1>8, <2>2, <2>3, Zenon DEF Spells
    <2>5. 0 \in 0..Width  BY UnitIs
    <2> QED  BY <1>7, <2>2, <2>4, <2>5, ParseIs, Zenon DEF NULL
  <1>9. CASE n # 0
    <2>1. s = Written(w, d, n)  BY <1>1, <1>2, <1>4, <1>7, <1>9, Zenon DEF NanoText, Written
    <2>2. Len(s) = n + 3 /\ s[1] = w /\ s[2] = Dot /\ \A i \in 1..n : s[i + 2] = Zero + d[i]
      <3>1. Shape(s, w, d, n)  BY <1>5, <1>6, <2>1, WrittenIs, Zenon
      <3> QED  BY <3>1, Zenon DEF Shape
    <2>3. (n + 3) - 3 = n /\ n + 3 # 0  BY <1>5
    <2>4. Digits(s) = n  BY <2>2, <2>3, Zenon DEF Digits
    <2>5. Spells(s, t, n)  BY <1>1, <1>3, <1>4, <2>2, <2>4, Zenon DEF Spells
    <2>6. s # <<>>
      <3>1. Len(<<>>) = 0  OBVIOUS
      <3> QED  BY <2>2, <2>3, <3>1, Zenon
    <2> QED  BY <1>3, <1>7, <2>5, <2>6, ParseIs, Zenon DEF NULL
  <1> QED  BY <1>8, <1>9

-----------------------------------------------------------------------------
(* The queue *)

(* The text a scheduler field has for an instant, before and after schema2. *)
FieldText(m, t) == IF m THEN ScheduleText(t) ELSE NanoText(t)

(* What the fields of a row r say about the instants i. *)
Tells(m, r, i) ==
    /\ r.state \in {"absent", "pending", "leased"}
    /\ r.state # "absent" => r.available = FieldText(m, i.available)
    /\ r.state = "leased" => r.expires = FieldText(m, i.expires)
    /\ i.available \in Instants /\ i.expires \in Instants

ScheduleInv ==
    /\ clock \in Instants /\ migrated \in BOOLEAN
    /\ row = [j \in ScheduledJobs |-> row[j]]
    /\ instant = [j \in ScheduledJobs |-> instant[j]]
    /\ \A j \in ScheduledJobs : Tells(migrated, row[j], instant[j])

LEMMA InstantsAre == Instants \subseteq Nat /\ 0 \in Instants /\ Unit - 1 \in Instants
  <1>1. PICK u \in Nat \ {0} : u = Unit  BY UnitIs
  <1>2. PICK n \in Nat \ {0} : n = Seconds  BY StoredTimeAssumption
  <1>3. PICK k \in Nat : n = 1 + k
    <2>1. n - 1 \in Nat /\ n = 1 + (n - 1)  OBVIOUS
    <2> QED  BY <2>1
  <1>4. n * u = u + k * u /\ k * u \in Nat  BY <1>3
  <1>5. 0..(n * u - 1) \subseteq Nat /\ 0 \in 0..(n * u - 1) /\ u - 1 \in 0..(n * u - 1)
    BY <1>4
  <1> QED  BY <1>1, <1>2, <1>5, Zenon DEF Instants

(* The fields of a row, and of its instants. *)
RowReads(r, s, a, e) == r.state = s /\ r.available = a /\ r.expires = e
TimesRead(i, a, e) == i.available = a /\ i.expires = e

LEMMA RowIs == \A s, c, a, e : RowReads(Row(s, c, a, e), s, a, e)
  BY DEF Row, RowReads

LEMMA TimesIs == \A c, a, e : TimesRead(Times(c, a, e), a, e)
  BY DEF Times, TimesRead

LEMMA ScheduleInvInit == ScheduleInit => ScheduleInv
  <1> SUFFICES ASSUME ScheduleInit PROVE ScheduleInv  OBVIOUS
  <1>1. clock \in Instants /\ migrated \in BOOLEAN /\ ~migrated
    BY InstantsAre, Zenon DEF ScheduleInit
  <1>2. PICK c, a, e \in [LegacyJobs -> Instants], s \in [LegacyJobs -> {"pending", "leased"}] :
          /\ instant = [j \in ScheduledJobs |-> IF j \in LegacyJobs THEN Times(c[j], a[j], e[j])
                                       ELSE Never]
          /\ row = [j \in ScheduledJobs |->
                IF j \in LegacyJobs
                THEN Row(s[j], NanoText(c[j]), NanoText(a[j]),
                         IF s[j] = "leased" THEN NanoText(e[j]) ELSE NULL)
                ELSE Absent]
    BY DEF ScheduleInit
  <1>3. ASSUME NEW j \in ScheduledJobs PROVE Tells(migrated, row[j], instant[j])
    <2>1. CASE j \in LegacyJobs
      <3>1. PICK x \in Instants : x = a[j]  BY <2>1, Zenon
      <3>2. PICK y \in Instants : y = e[j]  BY <2>1, Zenon
      <3>3. PICK z \in {"pending", "leased"} : z = s[j]  BY <2>1, Zenon
      <3>4. PICK tx : tx = NanoText(x)  OBVIOUS
      <3>5. PICK ty : ty = NanoText(y)  OBVIOUS
      <3>6. PICK tc : tc = NanoText(c[j])  OBVIOUS
      <3>7. row[j] = Row(z, tc, tx, IF z = "leased" THEN ty ELSE NULL) /\ instant[j] = Times(c[j], x, y)
        BY <1>2, <2>1, <3>1, <3>2, <3>3, <3>4, <3>5, <3>6, Zenon
      <3>8. /\ RowReads(row[j], z, tx, IF z = "leased" THEN ty ELSE NULL)
            /\ TimesRead(instant[j], x, y)
        BY <3>7, RowIs, TimesIs, Zenon
      <3> QED  BY <1>1, <3>4, <3>5, <3>8, Zenon DEF Tells, FieldText, RowReads, TimesRead
    <2>2. CASE j \notin LegacyJobs
      <3>1. row[j] = Absent /\ instant[j] = Never  BY <1>2, <2>2, Zenon
      <3>2. RowReads(row[j], "absent", NULL, NULL) /\ TimesRead(instant[j], 0, 0)
        BY <3>1, RowIs, TimesIs, Zenon DEF Absent, Never
      <3> QED  BY <3>2, InstantsAre, Zenon DEF Tells, RowReads, TimesRead
    <2> QED  BY <2>1, <2>2, Zenon
  <1>4. row = [j \in ScheduledJobs |-> row[j]] /\ instant = [j \in ScheduledJobs |-> instant[j]]
    BY <1>2, Zenon
  <1> QED  BY <1>1, <1>3, <1>4, Zenon DEF ScheduleInv

(* normalizeStewardSchedule keeps every instant. *)
LEMMA MigrationKeeps == ScheduleInv /\ MigrateFactsSchema => ScheduleInv'
  <1> SUFFICES ASSUME ScheduleInv, MigrateFactsSchema PROVE ScheduleInv'  OBVIOUS
  <1>1. /\ ~migrated /\ migrated' = TRUE /\ clock' = clock /\ instant' = instant
        /\ row' = [j \in ScheduledJobs |->
                  IF row[j].state = "absent" THEN Absent
                  ELSE Row("pending", row[j].created,
                           NormalizeStewardSchedule(row[j].available), NULL)]
    BY Zenon DEF MigrateFactsSchema
  <1>2. ASSUME NEW j \in ScheduledJobs PROVE Tells(TRUE, row'[j], instant[j])
    <2>1. Tells(migrated, row[j], instant[j])  BY Zenon DEF ScheduleInv
    <2>2. CASE row[j].state = "absent"
      <3>1. row'[j] = Absent  BY <1>1, <2>2, Zenon
      <3>2. RowReads(row'[j], "absent", NULL, NULL)  BY <3>1, RowIs, Zenon DEF Absent
      <3> QED  BY <2>1, <3>2, Zenon DEF Tells, RowReads
    <2>3. CASE row[j].state # "absent"
      <3>1. PICK t \in Instants : t = instant[j].available  BY <2>1, Zenon DEF Tells
      <3>2. row[j].available = NanoText(t)  BY <1>1, <2>1, <2>3, <3>1, Zenon DEF Tells, FieldText
      <3>3. t \in Nat  BY InstantsAre, Zenon
      <3>4. NormalizeStewardSchedule(row[j].available) = ScheduleText(t)
        BY <3>2, <3>3, NanoTextParses, Zenon DEF NormalizeStewardSchedule
      <3>5. row'[j] = Row("pending", row[j].created, ScheduleText(t), NULL)
        BY <1>1, <2>3, <3>4, Zenon
      <3>6. RowReads(row'[j], "pending", ScheduleText(t), NULL)
        BY <3>5, RowIs, Zenon
      <3> QED  BY <2>1, <3>1, <3>6, Zenon DEF Tells, FieldText, RowReads
    <2> QED  BY <2>2, <2>3, Zenon
  <1>3. row' = [j \in ScheduledJobs |-> row'[j]]  BY <1>1, Zenon
  <1> QED  BY <1>1, <1>2, <1>3, Zenon DEF ScheduleInv

LEMMA EnqueueKeeps ==
    ASSUME NEW k \in ScheduledJobs, ScheduleInv, Enqueue(k)
    PROVE  ScheduleInv'
  <1>1. /\ migrated /\ migrated' = migrated /\ clock' = clock
        /\ row' = [row EXCEPT ![k] = Row("pending", NanoText(clock), ScheduleText(clock), NULL)]
        /\ instant' = [instant EXCEPT ![k] = Times(clock, clock, 0)]
    BY Zenon DEF Enqueue
  <1>2. clock \in Instants /\ 0 \in Instants  BY InstantsAre, Zenon DEF ScheduleInv
  <1>3. ASSUME NEW j \in ScheduledJobs PROVE Tells(migrated, row'[j], instant'[j])
    <2>1. CASE j = k
      <3>1. /\ row'[j] = Row("pending", NanoText(clock), ScheduleText(clock), NULL)
            /\ instant'[j] = Times(clock, clock, 0)
        BY <1>1, <2>1, Zenon DEF ScheduleInv
      <3>2. RowReads(row'[j], "pending", ScheduleText(clock), NULL) /\ TimesRead(instant'[j], clock, 0)
        BY <3>1, RowIs, TimesIs, Zenon
      <3> QED  BY <1>1, <1>2, <3>2, Zenon DEF Tells, FieldText, RowReads, TimesRead
    <2>2. CASE j # k
      <3>1. row'[j] = row[j] /\ instant'[j] = instant[j]
        BY <1>1, <2>2, Zenon DEF ScheduleInv
      <3> QED  BY <3>1, Zenon DEF ScheduleInv
    <2> QED  BY <2>1, <2>2
  <1>4. row' = [j \in ScheduledJobs |-> row'[j]] /\ instant' = [j \in ScheduledJobs |-> instant'[j]]
    BY <1>1, Zenon DEF ScheduleInv
  <1> QED  BY <1>1, <1>2, <1>3, <1>4, Zenon DEF ScheduleInv

LEMMA FailKeeps ==
    ASSUME NEW k \in ScheduledJobs, NEW d \in Delays, ScheduleInv, FailStewardJob(k, d)
    PROVE  ScheduleInv'
  <1>1. /\ migrated /\ migrated' = migrated /\ clock' = clock /\ clock + d \in Instants
        /\ row' = [row EXCEPT ![k] = Row("pending", row[k].created, ScheduleText(clock + d), NULL)]
        /\ instant' = [instant EXCEPT ![k] = Times(instant[k].created, clock + d, 0)]
    BY Zenon DEF FailStewardJob
  <1>2. clock \in Instants /\ 0 \in Instants  BY InstantsAre, Zenon DEF ScheduleInv
  <1>3. ASSUME NEW j \in ScheduledJobs PROVE Tells(migrated, row'[j], instant'[j])
    <2>1. CASE j = k
      <3>1. /\ row'[j] = Row("pending", row[k].created, ScheduleText(clock + d), NULL)
            /\ instant'[j] = Times(instant[k].created, clock + d, 0)
        BY <1>1, <2>1, Zenon DEF ScheduleInv
      <3>2. RowReads(row'[j], "pending", ScheduleText(clock + d), NULL) /\ TimesRead(instant'[j], clock + d, 0)
        BY <3>1, RowIs, TimesIs, Zenon
      <3> QED  BY <1>1, <1>2, <3>2, Zenon DEF Tells, FieldText, RowReads, TimesRead
    <2>2. CASE j # k
      <3>1. row'[j] = row[j] /\ instant'[j] = instant[j]
        BY <1>1, <2>2, Zenon DEF ScheduleInv
      <3> QED  BY <3>1, Zenon DEF ScheduleInv
    <2> QED  BY <2>1, <2>2
  <1>4. row' = [j \in ScheduledJobs |-> row'[j]] /\ instant' = [j \in ScheduledJobs |-> instant'[j]]
    BY <1>1, Zenon DEF ScheduleInv
  <1> QED  BY <1>1, <1>2, <1>3, <1>4, Zenon DEF ScheduleInv

(* A claim returns the expired leases to the queue and leases a job of it. *)
LEMMA ClaimKeeps ==
    ASSUME NEW k \in ScheduledJobs, NEW d \in Delays, ScheduleInv, ClaimStewardJob(k, d)
    PROVE  ScheduleInv'
  <1> DEFINE reclaimed == [j \in ScheduledJobs |->
                IF Expired(j) THEN Row("pending", row[j].created, ScheduleText(clock), NULL)
                ELSE row[j]]
             due == [j \in ScheduledJobs |-> IF Expired(j) THEN clock ELSE instant[j].available]
  <1>1. /\ migrated /\ migrated' = migrated /\ clock' = clock /\ clock + d \in Instants
        /\ FirstReady(k)
        /\ row' = [reclaimed EXCEPT ![k] = Row("leased", row[k].created, reclaimed[k].available,
                                               ScheduleText(clock + d))]
        /\ instant' = [j \in ScheduledJobs |-> Times(instant[j].created, due[j],
                                    IF j = k THEN clock + d ELSE instant[j].expires)]
    BY Zenon DEF ClaimStewardJob
  <1>2. clock \in Instants  BY Zenon DEF ScheduleInv
  <1>3. Expired(k) \/ row[k].state = "pending"
    BY <1>1, Zenon DEF FirstReady, Ready, Due
  <1>4. ASSUME NEW j \in ScheduledJobs
        PROVE  /\ reclaimed[j].state \in {"absent", "pending", "leased"}
               /\ reclaimed[j].state # "absent" => reclaimed[j].available = ScheduleText(due[j])
               /\ reclaimed[j].state = "leased" => reclaimed[j].expires = ScheduleText(instant[j].expires)
               /\ due[j] \in Instants /\ instant[j].expires \in Instants
    <2>1. Tells(TRUE, row[j], instant[j])  BY <1>1, Zenon DEF ScheduleInv
    <2>2. CASE Expired(j)
      <3>1. reclaimed[j] = Row("pending", row[j].created, ScheduleText(clock), NULL) /\ due[j] = clock
        BY <2>2, Zenon
      <3> HIDE DEF reclaimed, due
      <3>2. RowReads(reclaimed[j], "pending", ScheduleText(clock), NULL)
        BY <3>1, RowIs, Zenon
      <3> QED  BY <1>2, <2>1, <3>1, <3>2, Zenon DEF Tells, RowReads
    <2>3. CASE ~Expired(j)
      <3>1. reclaimed[j] = row[j] /\ due[j] = instant[j].available  BY <2>3, Zenon
      <3> HIDE DEF reclaimed, due
      <3> QED  BY <2>1, <3>1, Zenon DEF Tells, FieldText
    <2> QED  BY <2>2, <2>3, Zenon
  <1>5. reclaimed[k].state # "absent"
    <2>1. CASE Expired(k)
      <3>1. reclaimed[k] = Row("pending", row[k].created, ScheduleText(clock), NULL)  BY <2>1, Zenon
      <3> HIDE DEF reclaimed
      <3>2. RowReads(reclaimed[k], "pending", ScheduleText(clock), NULL)
        BY <3>1, RowIs, Zenon
      <3> QED  BY <3>2, Zenon DEF RowReads
    <2>2. CASE ~Expired(k)
      <3>1. reclaimed[k] = row[k] /\ row[k].state = "pending"  BY <1>3, <2>2, Zenon
      <3> HIDE DEF reclaimed
      <3> QED  BY <3>1
    <2> QED  BY <2>1, <2>2, Zenon
  <1>6. reclaimed = [j \in ScheduledJobs |-> reclaimed[j]]  BY Zenon
  <1> HIDE DEF reclaimed, due
  <1>7. ASSUME NEW j \in ScheduledJobs PROVE Tells(migrated, row'[j], instant'[j])
    <2>1. CASE j = k
      <3>1. /\ row'[j] = Row("leased", row[k].created, reclaimed[k].available, ScheduleText(clock + d))
            /\ instant'[j] = Times(instant[j].created, due[k], clock + d)
        BY <1>1, <1>6, <2>1, Zenon
      <3>2. /\ RowReads(row'[j], "leased", reclaimed[k].available, ScheduleText(clock + d))
            /\ TimesRead(instant'[j], due[k], clock + d)
        BY <3>1, RowIs, TimesIs, Zenon
      <3>3. reclaimed[k].available = ScheduleText(due[k]) /\ due[k] \in Instants
        BY <1>4, <1>5, Zenon
      <3> QED  BY <1>1, <3>2, <3>3, Zenon DEF Tells, FieldText, RowReads, TimesRead
    <2>2. CASE j # k
      <3>1. row'[j] = reclaimed[j] /\ instant'[j] = Times(instant[j].created, due[j], instant[j].expires)
        BY <1>1, <1>6, <2>2, Zenon
      <3>2. TimesRead(instant'[j], due[j], instant[j].expires)
        BY <3>1, TimesIs, Zenon
      <3> QED  BY <1>1, <1>4, <3>1, <3>2, Zenon DEF Tells, FieldText, TimesRead
    <2> QED  BY <2>1, <2>2
  <1>8. row' = [j \in ScheduledJobs |-> row'[j]] /\ instant' = [j \in ScheduledJobs |-> instant'[j]]
    BY <1>1, <1>6, Zenon
  <1> QED  BY <1>1, <1>2, <1>7, <1>8, Zenon DEF ScheduleInv

LEMMA ScheduleInvKept == ScheduleInv /\ [ScheduleNext]_scheduleVars => ScheduleInv'
  <1> SUFFICES ASSUME ScheduleInv, [ScheduleNext]_scheduleVars PROVE ScheduleInv'  OBVIOUS
  <1>1. CASE MigrateFactsSchema  BY <1>1, MigrationKeeps
  <1>2. ASSUME NEW t \in Instants, Tick(t) PROVE ScheduleInv'
    BY <1>2, Zenon DEF Tick, ScheduleInv
  <1>3. CASE UNCHANGED scheduleVars  BY <1>3, Zenon DEF scheduleVars, ScheduleInv
  <1> QED
    BY <1>1, <1>2, <1>3, EnqueueKeeps, ClaimKeeps, FailKeeps, Zenon DEF ScheduleNext

(* ScheduleIsExact, for every base and number of digits, any jobs, delays   *)
(* and seconds: the texts that normalizeStewardSchedule and the scheduler   *)
(* write are due and expire, for SQL's comparison of text, when their       *)
(* instants have come, and for parseTime at the same moment.                *)
THEOREM TextKeepsTime == ScheduleSpec => []ScheduleIsExact
  <1>1. ScheduleInv => ScheduleIsExact
    <2> SUFFICES ASSUME ScheduleInv, migrated, NEW j \in ScheduledJobs
                 PROVE  /\ row[j].state = "pending" => (Due(j) <=> instant[j].available <= clock)
                        /\ row[j].state = "leased" => /\ Expired(j) <=> instant[j].expires <= clock
                                                      /\ Holds(j) <=> ~Expired(j)
      BY Zenon DEF ScheduleIsExact
    <2>1. Tells(TRUE, row[j], instant[j]) /\ clock \in Nat
      BY InstantsAre, Zenon DEF ScheduleInv
    <2>2. PICK a \in Nat : a = instant[j].available  BY <2>1, InstantsAre, Zenon DEF Tells
    <2>3. PICK e \in Nat : e = instant[j].expires  BY <2>1, InstantsAre, Zenon DEF Tells
    <2>4. row[j].state = "pending" => (Due(j) <=> a <= clock)
      BY <2>1, <2>2, TextDecides, Zenon DEF Tells, FieldText, Due
    <2>5. ASSUME row[j].state = "leased"
          PROVE  (Expired(j) <=> e <= clock) /\ (Holds(j) <=> ~Expired(j))
      <3>1. row[j].expires = ScheduleText(e)
        BY <2>1, <2>3, <2>5, Zenon DEF Tells, FieldText
      <3>2. Expired(j) <=> e <= clock
        BY <2>1, <2>5, <3>1, TextDecides, Zenon DEF Expired
      <3>3. Holds(j) <=> e > clock
        BY <2>5, <3>1, ScheduleTextParses, Zenon DEF Holds
      <3>4. e > clock <=> ~(e <= clock)  BY <2>1
      <3> QED  BY <3>2, <3>3, <3>4, Zenon
    <2> QED  BY <2>2, <2>3, <2>4, <2>5, Zenon
  <1> QED  BY <1>1, ScheduleInvInit, ScheduleInvKept, PTL DEF ScheduleSpec
=============================================================================

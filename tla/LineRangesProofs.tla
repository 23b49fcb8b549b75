--------------------------- MODULE LineRangesProofs ---------------------------
(***************************************************************************)
(* That the lists of LineRanges mean the sets of ReadLog, for files of any *)
(* length, lists of any size and any thresholds.  The loops of the code    *)
(* are recursive functions; what they compute is shown by induction on how *)
(* far they have come, as the absence of a least counterexample.           *)
(***************************************************************************)
EXTENDS LineRanges, FiniteSetTheorems, WellFoundedInduction, TLAPS

-----------------------------------------------------------------------------
(* Induction and recursion over the natural numbers.                       *)

LEMMA LeastNat ==
  ASSUME NEW T, T \subseteq Nat, T # {}
  PROVE  \E n \in T : \A m \in T : n <= m
<1>1. PICK n \in T : \A m \in T : ~ (<<m, n>> \in OpToRel(<, Nat))
  BY NatLessThanWellFounded, WFMin
<1>2. \A m \in T : ~ (m < n)
  <2> SUFFICES ASSUME NEW m \in T, m < n
               PROVE  <<m, n>> \in OpToRel(<, Nat)
    BY <1>1
  <2>1. m \in Nat /\ n \in Nat
    OBVIOUS
  <2> QED BY <2>1 DEF OpToRel
<1>3. \A m \in T : m \in Nat /\ n \in Nat
  OBVIOUS
<1> QED BY <1>2, <1>3

\* f[n] is what a loop has made of base after its steps g[a + 1] to g[n].
IsLoop(f, a, b, base, g) ==
  \A n \in a..b : f[n] = IF n = a THEN base ELSE g[n][f[n - 1]]
LoopExists(X, a, b, base, g) == \E f \in [a..b -> X] : IsLoop(f, a, b, base, g)

\* Every such loop has its results, and they stay where its steps stay.
LEMMA LoopHasResults ==
  ASSUME NEW X, NEW a \in Nat, NEW b \in Nat, NEW base \in X,
         NEW g \in [a..b -> [X -> X]]
  PROVE  LoopExists(X, a, b, base, g)
<1> USE DEF LoopExists, IsLoop
<1> DEFINE Upto(k) == \E f \in [a..k -> X] :
             \A n \in a..k : f[n] = IF n = a THEN base ELSE g[n][f[n - 1]]
           T == {k \in a..b : ~Upto(k)}
<1>1. T = {}
  <2> SUFFICES ASSUME T # {} PROVE FALSE
    OBVIOUS
  <2>1. PICK k \in T : \A m \in T : k <= m
    <3>1. T \subseteq Nat
      OBVIOUS
    <3> HIDE DEF T
    <3> QED BY <3>1, LeastNat
  <2>2. CASE k = a
    <3> DEFINE f == [n \in a..a |-> base]
    <3>1. f \in [a..k -> X]
      BY <2>2
    <3>2. \A n \in a..k : f[n] = IF n = a THEN base ELSE g[n][f[n - 1]]
      BY <2>2
    <3> HIDE DEF f
    <3> QED BY <3>1, <3>2
  <2>3. CASE k # a
    <3>1. k \in a..b
      OBVIOUS
    <3>2. k - 1 \in a..b /\ k - 1 \notin T
      <4> HIDE DEF T
      <4> QED BY <2>1, <2>3, <3>1
    <3>3. PICK f \in [a..(k - 1) -> X] :
            \A n \in a..(k - 1) : f[n] = IF n = a THEN base ELSE g[n][f[n - 1]]
      BY <3>2
    <3> DEFINE h == [n \in a..k |-> IF n = k THEN g[k][f[k - 1]] ELSE f[n]]
    <3>4. h \in [a..k -> X]
      BY <2>3, <3>3
    <3>5. ASSUME NEW n \in a..k
          PROVE  h[n] = IF n = a THEN base ELSE g[n][h[n - 1]]
      <4> HIDE DEF T, Upto
      <4>1. CASE n = k
        BY <4>1, <2>3, <3>1, <3>3
      <4>2. CASE n # k
        BY <4>2, <2>3, <3>1, <3>3
      <4> QED BY <4>1, <4>2
    <3> HIDE DEF h
    <3> QED BY <2>1, <3>4, <3>5
  <2> QED BY <2>2, <2>3
<1>2. CASE b < a
  <2> DEFINE f == [n \in a..b |-> base]
  <2>1. f \in [a..b -> X]
    OBVIOUS
  <2>2. \A n \in a..b : f[n] = IF n = a THEN base ELSE g[n][f[n - 1]]
    BY <1>2
  <2> QED BY <2>1, <2>2
<1>3. CASE a <= b
  <2>1. b \in a..b
    BY <1>3
  <2> QED BY <1>1, <2>1
<1> QED BY <1>2, <1>3

-----------------------------------------------------------------------------
(* Ranges and lists.                                                       *)

\* What a read can leave: lines that exist, or an open end.
GoodRange ==
  {r \in Int \X Int :
     /\ r[1] \in Line /\ r[1] <= r[2]
     /\ r[2] <= Top \/ (r[1] + UnknownEnd <= r[2] /\ r[2] <= Top + UnknownEnd)}

\* Between two ranges there is a line that neither has.
Apart(rs) == \A i, j \in DOMAIN rs : i < j => rs[i][2] + 1 < rs[j][1]
NormalList == {rs \in Seq(GoodRange) : Apart(rs)}

LEMMA GoodLines ==
  ASSUME NEW r \in GoodRange
  PROVE  /\ r = <<r[1], r[2]>> /\ r[1] \in Int /\ r[2] \in Int
         /\ \A l : l \in LinesOf(r) <=> l \in 1..(Top + 1) /\ r[1] <= l /\ l <= r[2]
BY Bounds DEF GoodRange, LinesOf, Line

LEMMA NeverFull ==
  ASSUME NEW rs \in Seq(GoodRange)
  PROVE  ~IsFullFile(rs)
BY Bounds DEF IsFullFile, GoodRange, Line

LEMMA CoverLines ==
  ASSUME NEW rs \in Seq(GoodRange)
  PROVE  \A l : l \in Cover(rs) <=> \E i \in 1..Len(rs) : l \in LinesOf(rs[i])
BY NeverFull DEF Cover

LEMMA PairWithEnd ==
  ASSUME NEW r \in Int \X Int, NEW e \in Int
  PROVE  [r EXCEPT ![2] = e] = <<r[1], e>> /\ [r EXCEPT ![2] = e] \in Int \X Int
<1>1. r = <<r[1], r[2]>> /\ r[1] \in Int /\ r[2] \in Int
  OBVIOUS
<1> QED BY <1>1

-----------------------------------------------------------------------------
(* _merge_ranges.                                                          *)

\* One pass of the loop: the list stays sorted with gaps and gains r's lines.
LEMMA JoinStep ==
  ASSUME NEW o \in NormalList, o # << >>, NEW r \in GoodRange, o[Len(o)][1] <= r[1]
  PROVE  /\ Join(o, r) \in NormalList /\ Join(o, r) # << >>
         /\ Join(o, r)[Len(Join(o, r))][1] <= r[1]
         /\ \A l : l \in Cover(Join(o, r)) <=> l \in Cover(o) \/ l \in LinesOf(r)
<1> DEFINE m == Len(o)
           last == o[m]
           j == Join(o, r)
<1>1. /\ m \in Nat /\ m >= 1 /\ o \in Seq(GoodRange)
      /\ \A i \in 1..m : o[i] \in GoodRange
  BY DEF NormalList
<1>2. /\ last \in GoodRange /\ last = <<last[1], last[2]>>
      /\ last[1] \in Int /\ last[2] \in Int /\ r = <<r[1], r[2]>>
      /\ r[1] \in Int /\ r[2] \in Int
  BY <1>1, GoodLines
<1>3. CASE r[1] <= last[2] + 1
  <2> DEFINE both == <<last[1], Greatest(last[2], r[2])>>
  <2>1. j = [o EXCEPT ![m] = both]
    <3> DEFINE end == Greatest(last[2], r[2])
    <3>1. j = [o EXCEPT ![m] = [last EXCEPT ![2] = end]]
      BY <1>3 DEF Join
    <3>2. end \in Int /\ last \in Int \X Int
      BY <1>2 DEF Greatest, GoodRange
    <3> HIDE DEF end, last, j
    <3>3. [last EXCEPT ![2] = end] = <<last[1], end>>
      BY <3>2, PairWithEnd
    <3> QED BY <3>1, <3>3 DEF end
  <2>2. both \in GoodRange
    BY <1>2, <1>3, Bounds DEF GoodRange, Greatest, Line
  <2>3. /\ j \in Seq(GoodRange) /\ Len(j) = m /\ j[m] = both
        /\ \A i \in 1..m : i # m => j[i] = o[i]
    BY <1>1, <2>1, <2>2
  <2>4. Apart(j)
    <3> SUFFICES ASSUME NEW a \in 1..m, NEW b \in 1..m, a < b
                 PROVE  j[a][2] + 1 < j[b][1]
      BY <2>3, <1>1 DEF Apart
    <3>1. o[a][2] + 1 < o[b][1]
      BY <1>1 DEF NormalList, Apart
    <3>2. a # m /\ j[a] = o[a] /\ j[b][1] = o[b][1]
      BY <2>3, <1>1
    <3> QED BY <3>1, <3>2
  <2>5. \A l : l \in LinesOf(both) <=> l \in LinesOf(last) \/ l \in LinesOf(r)
    BY <1>2, <1>3, <2>2, GoodLines, Bounds DEF Greatest
  <2>6. ASSUME NEW l
        PROVE  l \in Cover(j) <=> l \in Cover(o) \/ l \in LinesOf(r)
    <3>1. l \in Cover(j) <=> \E i \in 1..m : l \in LinesOf(j[i])
      BY <2>3, CoverLines
    <3>2. l \in Cover(o) <=> \E i \in 1..m : l \in LinesOf(o[i])
      BY <1>1, CoverLines
    <3> HIDE DEF both, j
    <3> QED BY <3>1, <3>2, <2>3, <2>5, <1>1
  <2>7. j[Len(j)][1] <= r[1] /\ j # << >>
    BY <2>3, <1>1, <1>2
  <2> QED BY <2>3, <2>4, <2>6, <2>7 DEF NormalList
<1>4. CASE ~(r[1] <= last[2] + 1)
  <2>1. j = Append(o, r)
    BY <1>4 DEF Join
  <2>2. /\ j \in Seq(GoodRange) /\ Len(j) = m + 1 /\ j[m + 1] = r
        /\ \A i \in 1..m : j[i] = o[i]
    BY <1>1, <2>1
  <2>3. Apart(j)
    <3> SUFFICES ASSUME NEW a \in 1..(m + 1), NEW b \in 1..(m + 1), a < b
                 PROVE  j[a][2] + 1 < j[b][1]
      BY <2>2, <1>1 DEF Apart
    <3>1. CASE b # m + 1
      BY <3>1, <1>1, <2>2 DEF NormalList, Apart
    <3>2. CASE b = m + 1 /\ a = m
      BY <3>2, <1>1, <1>2, <1>4, <2>2
    <3>3. CASE b = m + 1 /\ a # m
      <4>1. a \in 1..m /\ a < m /\ last[1] <= last[2]
        BY <3>3, <1>1, <1>2 DEF GoodRange
      <4>2. o[a][2] + 1 < last[1]
        BY <4>1, <1>1 DEF NormalList, Apart
      <4>3. o[a][2] \in Int
        BY <4>1, <1>1, GoodLines
      <4> QED BY <4>1, <4>2, <4>3, <3>3, <1>2, <1>4, <2>2
    <3> QED BY <3>1, <3>2, <3>3
  <2>4. ASSUME NEW l
        PROVE  l \in Cover(j) <=> l \in Cover(o) \/ l \in LinesOf(r)
    <3>1. l \in Cover(j) <=> \E i \in 1..(m + 1) : l \in LinesOf(j[i])
      BY <2>2, CoverLines
    <3>2. l \in Cover(o) <=> \E i \in 1..m : l \in LinesOf(o[i])
      BY <1>1, CoverLines
    <3> HIDE DEF j
    <3> QED BY <3>1, <3>2, <2>2, <1>1
  <2>5. j[Len(j)][1] <= r[1] /\ j # << >>
    BY <2>2, <1>1, <1>2
  <2> QED BY <2>2, <2>3, <2>4, <2>5 DEF NormalList
<1> QED BY <1>3, <1>4

Has(s, x) == \E i \in 1..Len(s) : s[i] = x

\* If some order of the ranges is ascending, sort finds one.
LEMMA SortOrders ==
  ASSUME NEW rs \in Seq(GoodRange), NEW q \in Bijection(DOMAIN rs, DOMAIN rs),
         IsSorted([i \in DOMAIN rs |-> rs[q[i]]])
  PROVE  /\ Sorted(rs) \in Seq(GoodRange) /\ Len(Sorted(rs)) = Len(rs)
         /\ IsSorted(Sorted(rs))
         /\ \A x : Has(Sorted(rs), x) <=> Has(rs, x)
<1> DEFINE D == 1..Len(rs)
           Orders == {[i \in D |-> rs[p[i]]] : p \in Bijection(D, D)}
<1>1. DOMAIN rs = D /\ Len(rs) \in Nat /\ \A i \in D : rs[i] \in GoodRange
  OBVIOUS
<1>2. \E s \in Orders : IsSorted(s)
  BY <1>1
<1>3. Sorted(rs) = CHOOSE s \in Orders : IsSorted(s)
  BY <1>1 DEF Sorted
<1>4. Sorted(rs) \in Orders /\ IsSorted(Sorted(rs))
  <2> HIDE DEF Orders
  <2> QED BY <1>2, <1>3
<1>5. PICK p \in Bijection(D, D) : Sorted(rs) = [i \in D |-> rs[p[i]]]
  BY <1>4
<1>6. p \in [D -> D] /\ \A t \in D : \E i \in D : p[i] = t
  BY DEF Bijection, Injection, Surjection
<1>7. Sorted(rs) \in Seq(GoodRange) /\ Len(Sorted(rs)) = Len(rs)
  BY <1>1, <1>5, <1>6
<1>8. ASSUME NEW x
      PROVE  Has(Sorted(rs), x) <=> Has(rs, x)
  <2>1. \A i \in D : p[i] \in D /\ Sorted(rs)[i] = rs[p[i]]
    BY <1>5, <1>6
  <2>2. \A t \in D : \E i \in D : Sorted(rs)[i] = rs[t]
    <3> SUFFICES ASSUME NEW t \in D PROVE \E i \in D : Sorted(rs)[i] = rs[t]
      OBVIOUS
    <3>1. PICK i \in D : p[i] = t
      BY <1>6
    <3> QED BY <3>1, <2>1
  <2> HIDE DEF D
  <2>3. (\E i \in D : Sorted(rs)[i] = x) <=> (\E i \in D : rs[i] = x)
    BY <2>1, <2>2
  <2> QED BY <2>3, <1>7 DEF Has, D
<1> QED BY <1>4, <1>7, <1>8

\* A normal list is in order already.
LEMMA SortNormal ==
  ASSUME NEW rs \in NormalList
  PROVE  /\ Sorted(rs) \in Seq(GoodRange) /\ Len(Sorted(rs)) = Len(rs)
         /\ \A x : Has(Sorted(rs), x) <=> Has(rs, x)
<1> DEFINE id == [i \in DOMAIN rs |-> i]
<1>1. id \in Bijection(DOMAIN rs, DOMAIN rs)
  BY DEF Bijection, Injection, Surjection, IsInjective
<1>2. rs \in Seq(GoodRange) /\ \A i \in DOMAIN rs : rs[i] \in GoodRange
  BY DEF NormalList
<1>3. ASSUME NEW i \in DOMAIN rs, NEW j \in DOMAIN rs, i < j
      PROVE  ~Before(rs[j], rs[i])
  <2>1. rs[i][2] + 1 < rs[j][1]
    BY <1>3 DEF NormalList, Apart
  <2>2. /\ rs[i][1] <= rs[i][2] /\ rs[i][1] \in Int /\ rs[i][2] \in Int
        /\ rs[j][1] \in Int
    BY <1>2 DEF GoodRange
  <2> QED BY <2>1, <2>2 DEF Before
<1>4. IsSorted([i \in DOMAIN rs |-> rs[id[i]]])
  BY <1>3 DEF IsSorted
<1> HIDE DEF id
<1> QED BY <1>1, <1>2, <1>4, SortOrders

\* Appended to a normal list a range has a place before which all begin no
\* later, and after which all begin later.
LEMMA SortInserts ==
  ASSUME NEW rs \in NormalList, NEW r \in GoodRange
  PROVE  LET s == Sorted(Append(rs, r))
         IN  /\ s \in Seq(GoodRange) /\ Len(s) = Len(rs) + 1 /\ IsSorted(s)
             /\ \A x : Has(s, x) <=> Has(rs, x) \/ x = r
<1> DEFINE m == Len(rs)
           all == Append(rs, r)
           D == 1..(m + 1)
           T == {i \in D : i = m + 1 \/ Before(r, rs[i])}
<1>1. /\ m \in Nat /\ rs \in Seq(GoodRange) /\ \A i \in 1..m : rs[i] \in GoodRange
      /\ all \in Seq(GoodRange) /\ DOMAIN all = D /\ Len(all) = m + 1
      /\ all[m + 1] = r /\ \A i \in 1..m : all[i] = rs[i]
  BY DEF NormalList
<1>2. PICK k \in T : \A i \in T : k <= i
  <2>1. T \subseteq Nat /\ m + 1 \in T
    BY <1>1
  <2> HIDE DEF T
  <2> QED BY <2>1, LeastNat
<1> DEFINE q == [i \in D |-> IF i < k THEN i ELSE IF i = k THEN m + 1 ELSE i - 1]
           back == [t \in D |-> IF t < k THEN t ELSE IF t = m + 1 THEN k ELSE t + 1]
<1>3. k \in D
  OBVIOUS
<1>4. q \in Bijection(D, D)
  <2>1. q \in [D -> D]
    BY <1>1, <1>3
  <2>2. \A a, b \in D : q[a] = q[b] => a = b
    BY <1>1, <1>3
  <2>3. \A t \in D : back[t] \in D /\ q[back[t]] = t
    BY <1>1, <1>3
  <2> HIDE DEF q, back, D
  <2> QED BY <2>1, <2>2, <2>3 DEF Bijection, Injection, Surjection, IsInjective
<1>5. ASSUME NEW i \in 1..m, NEW j \in 1..m, i < j
      PROVE  /\ ~Before(rs[j], rs[i])
             /\ Before(r, rs[i]) => ~Before(rs[j], r)
  <2>1. rs[i][2] + 1 < rs[j][1]
    BY <1>5 DEF NormalList, Apart
  <2>2. /\ rs[i][1] <= rs[i][2] /\ rs[i][1] \in Int /\ rs[i][2] \in Int
        /\ rs[j][1] \in Int /\ r[1] \in Int
    BY <1>1 DEF GoodRange
  <2> QED BY <2>1, <2>2 DEF Before
<1>6. \A i \in 1..m : Before(r, rs[i]) => ~Before(rs[i], r)
  BY <1>1 DEF Before, GoodRange
<1>7. /\ \A i \in 1..m : i < k => ~Before(r, rs[i])
      /\ k # m + 1 => Before(r, rs[k])
  <2>1. \A i \in 1..m : i \in D
    BY <1>1
  <2> QED BY <1>2, <2>1, <1>1
<1>8. ASSUME NEW i \in D, NEW j \in D, i < j
      PROVE  ~Before(all[q[j]], all[q[i]])
  <2>1. CASE j < k
    BY <2>1, <1>8, <1>1, <1>3, <1>5
  <2>2. CASE j = k
    BY <2>2, <1>8, <1>1, <1>3, <1>7
  <2>3. CASE j > k /\ i < k
    BY <2>3, <1>8, <1>1, <1>3, <1>5
  <2>4. CASE j > k /\ i = k
    <3>1. all[q[i]] = r /\ all[q[j]] = rs[j - 1] /\ j - 1 \in 1..m /\ k \in 1..m
      BY <2>4, <1>8, <1>1, <1>3
    <3>2. k <= j - 1
      BY <2>4, <1>1, <1>3
    <3>3. CASE k = j - 1
      BY <3>1, <3>3, <1>6, <1>7, <1>1
    <3>4. CASE k < j - 1
      BY <3>1, <3>4, <1>5, <1>7, <1>1
    <3> QED BY <3>1, <3>2, <3>3, <3>4
  <2>5. CASE j > k /\ i > k
    <3>1. /\ all[q[i]] = rs[i - 1] /\ all[q[j]] = rs[j - 1]
          /\ i - 1 \in 1..m /\ j - 1 \in 1..m /\ i - 1 < j - 1
      BY <2>5, <1>8, <1>1, <1>3
    <3> QED BY <3>1, <1>5
  <2> QED BY <2>1, <2>2, <2>3, <2>4, <2>5, <1>3
<1>9. IsSorted([i \in DOMAIN all |-> all[q[i]]])
  BY <1>1, <1>8 DEF IsSorted
<1>10. \A x : Has(all, x) <=> Has(rs, x) \/ x = r
  BY <1>1 DEF Has
<1> HIDE DEF all, q, D
<1>11. /\ Sorted(all) \in Seq(GoodRange) /\ Len(Sorted(all)) = Len(all)
       /\ IsSorted(Sorted(all)) /\ \A x : Has(Sorted(all), x) <=> Has(all, x)
  BY <1>1, <1>4, <1>9, SortOrders
<1> QED BY <1>1, <1>10, <1>11 DEF all

\* The loop of _merge_ranges has a result for every list, and reaches it pass by pass.
LEMMA JoinedInSteps ==
  ASSUME NEW s \in Seq(GoodRange), s # << >>
  PROVE  \E out :
           /\ out[1] = <<s[1]>>
           /\ \A n \in 2..Len(s) : out[n] = Join(out[n - 1], s[n])
           /\ Joined(s) = out[Len(s)]
<1> DEFINE Step(f) ==
             f = [n \in 1..Len(s) |-> IF n = 1 THEN <<s[1]>> ELSE Join(f[n - 1], s[n])]
           X == Seq(Int \X Int) \ {<< >>}
           g == [n \in 1..Len(s) |-> [x \in X |-> Join(x, s[n])]]
<1>1. /\ Len(s) \in Nat /\ Len(s) >= 1
      /\ \A n \in 1..Len(s) : s[n] \in Int \X Int
  BY DEF GoodRange
<1>2. <<s[1]>> \in X
  BY <1>1
<1>3. ASSUME NEW x \in X, NEW r \in Int \X Int
      PROVE  Join(x, r) \in X
  <2>1. Len(x) \in 1..Len(x) /\ x[Len(x)] \in Int \X Int
    OBVIOUS
  <2>2. Append(x, r) \in X
    <3>1. Append(x, r) \in Seq(Int \X Int) /\ Len(Append(x, r)) >= 1
      OBVIOUS
    <3> QED BY <3>1
  <2>3. ASSUME NEW e \in Int
        PROVE  [x EXCEPT ![Len(x)][2] = e] \in X
    <3>1. [x[Len(x)] EXCEPT ![2] = e] \in Int \X Int
      <4> HIDE DEF X
      <4> QED BY <2>1, PairWithEnd
    <3>2. [x EXCEPT ![Len(x)] = [x[Len(x)] EXCEPT ![2] = e]] \in X
      BY <2>1, <3>1
    <3> QED BY <3>2
  <2>4. Greatest(x[Len(x)][2], r[2]) \in Int
    BY <2>1 DEF Greatest
  <2> HIDE DEF X
  <2> QED BY <2>2, <2>3, <2>4 DEF Join
<1>4. g \in [1..Len(s) -> [X -> X]]
  <2> HIDE DEF X
  <2> QED BY <1>1, <1>3
<1>5. PICK f \in [1..Len(s) -> X] : IsLoop(f, 1, Len(s), <<s[1]>>, g)
  <2> HIDE DEF g, X
  <2>1. LoopExists(X, 1, Len(s), <<s[1]>>, g)
    BY <1>1, <1>2, <1>4, LoopHasResults
  <2> QED BY <2>1 DEF LoopExists
<1>6. Step(f)
  <2>1. ASSUME NEW n \in 1..Len(s), n # 1
        PROVE  g[n][f[n - 1]] = Join(f[n - 1], s[n])
    <3>1. n - 1 \in 1..Len(s)
      BY <2>1, <1>1
    <3>2. f[n - 1] \in X
      BY <3>1
    <3> HIDE DEF X
    <3> QED BY <3>1, <3>2
  <2> HIDE DEF g, X
  <2> QED BY <1>5, <2>1 DEF IsLoop
<1> DEFINE out == CHOOSE h : Step(h)
<1>7. Step(out)
  <2> HIDE DEF Step
  <2> QED BY <1>6
<1>8. Joined(s) = out[Len(s)]
  BY DEF Joined
<1> HIDE DEF out
<1>9. out[1] = <<s[1]>>
  BY <1>1, <1>7
<1>10. \A n \in 2..Len(s) : out[n] = Join(out[n - 1], s[n])
  <2> SUFFICES ASSUME NEW n \in 2..Len(s) PROVE out[n] = Join(out[n - 1], s[n])
    OBVIOUS
  <2>1. n \in 1..Len(s) /\ n # 1
    BY <1>1
  <2> QED BY <1>7, <2>1
<1> QED BY <1>8, <1>9, <1>10

\* What the loop makes of a sorted list, pass by pass.
LEMMA JoinedIsNormal ==
  ASSUME NEW s \in Seq(GoodRange), s # << >>, IsSorted(s)
  PROVE  /\ Joined(s) \in NormalList /\ Joined(s) # << >>
         /\ \A l : l \in Cover(Joined(s)) <=> \E i \in 1..Len(s) : l \in LinesOf(s[i])
<1>1. PICK out :
        /\ out[1] = <<s[1]>>
        /\ \A n \in 2..Len(s) : out[n] = Join(out[n - 1], s[n])
        /\ Joined(s) = out[Len(s)]
  BY JoinedInSteps
<1>2. /\ Len(s) \in Nat /\ Len(s) >= 1
      /\ \A n \in 1..Len(s) : s[n] \in GoodRange /\ s[n][1] \in Int
  BY DEF GoodRange
<1> DEFINE So(n) ==
             /\ out[n] \in NormalList /\ out[n] # << >>
             /\ out[n][Len(out[n])][1] <= s[n][1]
             /\ \A l : l \in Cover(out[n]) <=> \E i \in 1..n : l \in LinesOf(s[i])
           T == {n \in 1..Len(s) : ~So(n)}
<1>3. So(1)
  <2>1. out[1] \in Seq(GoodRange) /\ Len(out[1]) = 1 /\ out[1][1] = s[1]
    BY <1>1, <1>2
  <2>2. out[1] \in NormalList
    BY <2>1 DEF NormalList, Apart
  <2>3. \A l : l \in Cover(out[1]) <=> \E i \in 1..1 : l \in LinesOf(s[i])
    BY <2>1, CoverLines
  <2> QED BY <2>1, <2>2, <2>3, <1>2
<1>4. ASSUME NEW n \in 2..Len(s), So(n - 1)
      PROVE  So(n)
  <2>1. n - 1 \in 1..Len(s) /\ n \in 1..Len(s) /\ out[n] = Join(out[n - 1], s[n])
    BY <1>1, <1>2
  <2>2. s[n - 1][1] <= s[n][1]
    BY <2>1, <1>2 DEF IsSorted, Before
  <2>3. out[n - 1][Len(out[n - 1])][1] \in Int
    <3>1. out[n - 1] \in Seq(GoodRange) /\ out[n - 1] # << >>
      BY <1>4 DEF NormalList
    <3>2. out[n - 1][Len(out[n - 1])] \in GoodRange
      BY <3>1
    <3> QED BY <3>2 DEF GoodRange
  <2>4. out[n - 1][Len(out[n - 1])][1] <= s[n][1]
    BY <1>4, <2>1, <2>2, <2>3, <1>2
  <2>5. /\ out[n] \in NormalList /\ out[n] # << >>
        /\ out[n][Len(out[n])][1] <= s[n][1]
        /\ \A l : l \in Cover(out[n]) <=> l \in Cover(out[n - 1]) \/ l \in LinesOf(s[n])
    BY <1>2, <1>4, <2>1, <2>4, JoinStep
  <2>6. ASSUME NEW l
        PROVE  l \in Cover(out[n]) <=> \E i \in 1..n : l \in LinesOf(s[i])
    <3>1. l \in Cover(out[n - 1]) <=> \E i \in 1..(n - 1) : l \in LinesOf(s[i])
      BY <1>4
    <3>2. \A i : i \in 1..n <=> i \in 1..(n - 1) \/ i = n
      OBVIOUS
    <3> QED BY <2>5, <3>1, <3>2
  <2> QED BY <2>5, <2>6
<1>5. T = {}
  <2> SUFFICES ASSUME T # {} PROVE FALSE
    OBVIOUS
  <2>1. PICK k \in T : \A n \in T : k <= n
    <3>1. T \subseteq Nat
      OBVIOUS
    <3> HIDE DEF T
    <3> QED BY <3>1, LeastNat
  <2>2. k \in 1..Len(s) /\ ~So(k)
    OBVIOUS
  <2> HIDE DEF So
  <2>3. k # 1
    BY <2>2, <1>3
  <2>4. k \in 2..Len(s) /\ k - 1 \in 1..Len(s) /\ k - 1 \notin T
    <3> HIDE DEF T
    <3> QED BY <2>1, <2>2, <2>3, <1>2
  <2>5. So(k - 1)
    BY <2>4
  <2> QED BY <2>2, <2>4, <2>5, <1>4
<1>6. So(Len(s))
  <2> HIDE DEF So
  <2> QED BY <1>2, <1>5
<1> QED BY <1>1, <1>6

\* _merge_ranges after one more range.
THEOREM MergeAdds ==
  ASSUME NEW rs \in NormalList, NEW r \in GoodRange
  PROVE  LET merged == MergeRanges(Append(rs, r))
         IN  /\ merged \in NormalList /\ merged # << >>
             /\ \A l : l \in Cover(merged) <=> l \in Cover(rs) \/ l \in LinesOf(r)
<1> DEFINE s == Sorted(Append(rs, r))
           merged == MergeRanges(Append(rs, r))
<1>1. /\ s \in Seq(GoodRange) /\ Len(s) = Len(rs) + 1 /\ IsSorted(s)
      /\ \A x : Has(s, x) <=> Has(rs, x) \/ x = r
  BY SortInserts
<1>2. rs \in Seq(GoodRange) /\ Len(rs) \in Nat
  BY DEF NormalList
<1>3. s # << >>
  BY <1>1, <1>2
<1>4. merged = Joined(s)
  BY DEF MergeRanges
<1> HIDE DEF s, merged
<1>5. /\ merged \in NormalList /\ merged # << >>
      /\ \A l : l \in Cover(merged) <=> \E i \in 1..Len(s) : l \in LinesOf(s[i])
  BY <1>1, <1>3, <1>4, JoinedIsNormal
<1>6. ASSUME NEW l
      PROVE  l \in Cover(merged) <=> l \in Cover(rs) \/ l \in LinesOf(r)
  <2>1. l \in Cover(merged) <=> \E x : Has(s, x) /\ l \in LinesOf(x)
    BY <1>5 DEF Has
  <2>2. l \in Cover(rs) <=> \E x : Has(rs, x) /\ l \in LinesOf(x)
    BY <1>2, CoverLines DEF Has
  <2> QED BY <2>1, <2>2, <1>1
<1> QED BY <1>5, <1>6 DEF merged

-----------------------------------------------------------------------------
(* mark_file_read, and what the list then means.                           *)

\* The instance of ReadLog brings its own name for the same operator.
LEMMA SameCardinality ==
  ASSUME NEW S
  PROVE  Log!Cardinality(S) = Cardinality(S)
BY DEF Log!Cardinality, Cardinality

\* The first lines of the ranges are where the cover has its maximal runs.
LEMMA RunsAreRanges ==
  ASSUME NEW rs \in NormalList
  PROVE  Log!Runs(Cover(rs)) = Len(rs)
<1> DEFINE m == Len(rs)
           starts == {l \in Cover(rs) : l = 1 \/ l - 1 \notin Cover(rs)}
           at == [i \in 1..m |-> rs[i][1]]
<1>1. /\ m \in Nat /\ rs \in Seq(GoodRange)
      /\ \A i \in 1..m : /\ rs[i] \in GoodRange /\ rs[i][1] \in Int /\ rs[i][2] \in Int
                         /\ 1 <= rs[i][1] /\ rs[i][1] <= rs[i][2] /\ rs[i][1] <= Top
  BY Bounds DEF NormalList, GoodRange, Line
<1>2. ASSUME NEW l
      PROVE  l \in Cover(rs) <=>
               l \in 1..(Top + 1) /\ \E i \in 1..m : rs[i][1] <= l /\ l <= rs[i][2]
  BY <1>1, CoverLines, GoodLines
<1>3. \A i, j \in 1..m : i < j => rs[i][2] + 1 < rs[j][1]
  BY <1>1 DEF NormalList, Apart
<1>4. ASSUME NEW i \in 1..m
      PROVE  rs[i][1] \in starts
  <2>1. rs[i][1] \in Cover(rs)
    BY <1>1, <1>2, Bounds
  <2>2. ASSUME NEW j \in 1..m, rs[j][1] <= rs[i][1] - 1, rs[i][1] - 1 <= rs[j][2]
        PROVE  FALSE
    <3>1. CASE i < j
      BY <3>1, <2>2, <1>1, <1>3
    <3>2. CASE j < i
      BY <3>2, <2>2, <1>1, <1>3
    <3>3. CASE j = i
      BY <3>3, <2>2, <1>1
    <3> QED BY <3>1, <3>2, <3>3, <1>1
  <2>3. rs[i][1] - 1 \notin Cover(rs)
    BY <1>2, <2>2
  <2> QED BY <2>1, <2>3
<1>5. ASSUME NEW l \in starts
      PROVE  \E i \in 1..m : at[i] = l
  <2>1. /\ l \in 1..(Top + 1)
        /\ l = 1 \/ l - 1 \notin Cover(rs)
    BY <1>2
  <2>2. PICK i \in 1..m : rs[i][1] <= l /\ l <= rs[i][2]
    BY <1>2
  <2>3. CASE rs[i][1] = l
    BY <2>3
  <2>4. CASE rs[i][1] < l
    <3>1. l - 1 \in 1..(Top + 1) /\ rs[i][1] <= l - 1 /\ l - 1 <= rs[i][2]
      BY <2>1, <2>2, <2>4, <1>1, Bounds
    <3>2. l # 1
      BY <2>1, <2>4, <1>1
    <3> QED BY <3>1, <3>2, <2>1, <1>2
  <2> QED BY <2>1, <2>2, <2>3, <2>4, <1>1
<1>6. ASSUME NEW i \in 1..m, NEW j \in 1..m, at[i] = at[j]
      PROVE  i = j
  <2>1. CASE i < j
    BY <2>1, <1>1, <1>3, <1>6
  <2>2. CASE j < i
    BY <2>2, <1>1, <1>3, <1>6
  <2> QED BY <2>1, <2>2, <1>1
<1>7. at \in Bijection(1..m, starts)
  <2>1. at \in [1..m -> starts]
    BY <1>4
  <2> HIDE DEF starts, at
  <2>2. DOMAIN at = 1..m
    BY <2>1
  <2> QED BY <2>1, <2>2, <1>5, <1>6 DEF Bijection, Injection, Surjection, IsInjective
<1>8. IsFiniteSet(1..m) /\ Cardinality(1..m) = m
  <2>1. m \in Int /\ m >= 0 /\ 1 \in Int
    BY <1>1
  <2> HIDE DEF m
  <2>2. IsFiniteSet(1..m) /\ Cardinality(1..m) = IF 1 > m THEN 0 ELSE m - 1 + 1
    BY <2>1, FS_Interval
  <2> QED BY <2>1, <2>2
<1>9. ExistsBijection(1..m, starts)
  BY <1>7 DEF ExistsBijection
<1> HIDE DEF starts
<1>10. Cardinality(starts) = m
  BY <1>8, <1>9, FS_Bijection
<1>11. Log!Cardinality(starts) = m
  BY <1>10, SameCardinality
<1> QED BY <1>11 DEF Log!Runs, starts

\* The range from the first to the last stands for all lines in between.
LEMMA SpanIsOneRange ==
  ASSUME NEW rs \in NormalList, rs # << >>
  PROVE  LET one == <<rs[1][1], rs[Len(rs)][2]>>
         IN  << one >> \in NormalList /\ Cover(<< one >>) = Log!Span(Cover(rs))
<1> DEFINE m == Len(rs)
           first == rs[1][1]
           last == rs[m][2]
           one == <<first, last>>
<1>1. /\ m \in Nat /\ m >= 1 /\ rs \in Seq(GoodRange)
      /\ \A i \in 1..m : /\ rs[i] \in GoodRange /\ rs[i][1] \in Int /\ rs[i][2] \in Int
                         /\ 1 <= rs[i][1] /\ rs[i][1] <= rs[i][2] /\ rs[i][1] <= Top
  BY Bounds DEF NormalList, GoodRange, Line
<1>2. \A l : l \in Cover(rs) <=>
               l \in 1..(Top + 1) /\ \E i \in 1..m : rs[i][1] <= l /\ l <= rs[i][2]
  BY <1>1, CoverLines, GoodLines
<1>3. \A i, j \in 1..m : i < j => rs[i][2] + 1 < rs[j][1]
  BY <1>1 DEF NormalList, Apart
<1>4. \A i \in 1..m : first <= rs[i][1] /\ rs[i][2] <= last
  <2> SUFFICES ASSUME NEW i \in 1..m PROVE first <= rs[i][1] /\ rs[i][2] <= last
    OBVIOUS
  <2>1. first <= rs[i][1]
    <3>1. CASE i = 1
      BY <3>1, <1>1
    <3>2. CASE i # 1
      <4>1. 1 \in 1..m /\ 1 < i
        BY <3>2, <1>1
      <4> QED BY <4>1, <1>1, <1>3
    <3> QED BY <3>1, <3>2
  <2>2. rs[i][2] <= last
    <3>1. CASE i = m
      BY <3>1, <1>1
    <3>2. CASE i # m
      <4>1. m \in 1..m /\ i < m
        BY <3>2, <1>1
      <4> QED BY <4>1, <1>1, <1>3
    <3> QED BY <3>1, <3>2
  <2> QED BY <2>1, <2>2
<1>5. /\ 1 \in 1..m /\ m \in 1..m /\ first \in Int /\ last \in Int
      /\ first <= last /\ first \in Line
  <2>1. 1 \in 1..m /\ m \in 1..m
    BY <1>1
  <2>2. first \in Int /\ last \in Int /\ first <= rs[m][1] /\ rs[m][1] <= last
    BY <2>1, <1>1, <1>4
  <2> QED BY <2>1, <2>2, <1>1, Bounds DEF Line
<1>6. one \in GoodRange
  <2>1. rs[m] \in GoodRange /\ first <= rs[m][1]
    BY <1>1, <1>4, <1>5
  <2>2. last <= Top \/ (first + UnknownEnd <= last /\ last <= Top + UnknownEnd)
    BY <2>1, <1>1, <1>5, Bounds DEF GoodRange
  <2>3. one \in Int \X Int /\ one[1] = first /\ one[2] = last
    BY <1>5
  <2> HIDE DEF first, last, one
  <2> QED BY <2>2, <2>3, <1>5 DEF GoodRange
<1>7. << one >> \in Seq(GoodRange) /\ Len(<< one >>) = 1 /\ << one >>[1] = one
  BY <1>6
<1>8. << one >> \in NormalList
  BY <1>7 DEF NormalList, Apart
<1>9. \A l : l \in Cover(<< one >>) <=> l \in 1..(Top + 1) /\ first <= l /\ l <= last
  <2>1. one[1] = first /\ one[2] = last
    BY <1>5
  <2>2. \A l : l \in Cover(<< one >>) <=> l \in LinesOf(one)
    <3> DEFINE ones == << one >>
    <3>1. \A i : i \in 1..1 <=> i = 1
      OBVIOUS
    <3>2. ones \in Seq(GoodRange) /\ Len(ones) = 1 /\ ones[1] = one
      BY <1>7
    <3> HIDE DEF ones, one
    <3>3. \A l : l \in Cover(ones) <=> \E i \in 1..1 : l \in LinesOf(ones[i])
      BY <3>2, CoverLines
    <3> QED BY <3>1, <3>2, <3>3 DEF ones
  <2> HIDE DEF one, first, last
  <2> QED BY <2>1, <2>2, <1>6, GoodLines
<1>10. ASSUME NEW l \in Cover(<< one >>)
       PROVE  l \in Log!Span(Cover(rs))
  <2> DEFINE z == IF last <= Top + 1 THEN last ELSE Top + 1
  <2>1. l \in 1..(Top + 1) /\ first <= l /\ l <= last
    BY <1>9
  <2>2. first \in Cover(rs) /\ first <= l
    <3>1. first \in 1..(Top + 1) /\ rs[1][1] <= first /\ first <= rs[1][2]
      BY <1>1, <1>5, Bounds DEF Line
    <3> QED BY <3>1, <2>1, <1>2, <1>5
  <2>3. z \in Cover(rs) /\ l <= z
    <3>1. z \in 1..(Top + 1) /\ rs[m][1] <= z /\ z <= rs[m][2] /\ l <= z
      BY <2>1, <1>1, <1>5, Bounds
    <3> QED BY <3>1, <1>2, <1>5
  <2> QED BY <2>1, <2>2, <2>3 DEF Log!Span, Log!Whole
<1>11. ASSUME NEW l \in Log!Span(Cover(rs))
       PROVE  l \in Cover(<< one >>)
  <2>1. l \in 1..(Top + 1)
    BY DEF Log!Span, Log!Whole
  <2>2. PICK a \in Cover(rs), b \in Cover(rs) : a <= l /\ l <= b
    BY DEF Log!Span
  <2>3. a \in Int /\ b \in Int /\ first <= a /\ b <= last
    <3>1. a \in 1..(Top + 1) /\ \E i \in 1..m : rs[i][1] <= a /\ a <= rs[i][2]
      BY <1>2
    <3>2. b \in 1..(Top + 1) /\ \E i \in 1..m : rs[i][1] <= b /\ b <= rs[i][2]
      BY <1>2
    <3> QED BY <3>1, <3>2, <1>1, <1>4, <1>5
  <2>4. first <= l /\ l <= last
    BY <2>1, <2>2, <2>3, <1>5
  <2> QED BY <2>1, <2>4, <1>9
<1> QED BY <1>8, <1>10, <1>11

\* mark_file_read below the threshold: normal lists stay normal and within the
\* cap, and the list that comes out stands for what Recorded says.
LEMMA MarkedIs ==
  ASSUME NEW rs \in NormalList, NEW r \in GoodRange, NEW n \in Nat, n < FullAt
  PROVE  /\ Marked(rs, n, r) \in NormalList /\ Len(Marked(rs, n, r)) <= MaxRanges
         /\ LET both == Cover(rs) \cup LinesOf(r)
            IN  Cover(Marked(rs, n, r)) =
                  IF Log!Runs(both) > MaxRanges THEN Log!Span(both) ELSE both
<1> DEFINE merged == MergeRanges(Append(rs, r))
           both == Cover(rs) \cup LinesOf(r)
           one == <<merged[1][1], merged[Len(merged)][2]>>
<1>1. merged \in NormalList /\ merged # << >>
  BY MergeAdds
<1>2. Cover(merged) = both
  <2>1. \A l : l \in Cover(merged) <=> l \in Cover(rs) \/ l \in LinesOf(r)
    BY MergeAdds
  <2> HIDE DEF merged
  <2> QED BY <2>1
<1>3. Marked(rs, n, r) = IF Len(merged) > MaxRanges THEN << one >> ELSE merged
  <2>1. FullAt \in Nat /\ ~(n >= FullAt)
    BY Bounds
  <2> QED BY <2>1 DEF Marked
<1> HIDE DEF merged, both
<1>4. /\ << one >> \in NormalList /\ Cover(<< one >>) = Log!Span(both)
      /\ Log!Runs(both) = Len(merged)
  BY <1>1, <1>2, SpanIsOneRange, RunsAreRanges
<1>5. Len(merged) \in Nat /\ MaxRanges \in Nat \ {0} /\ Len(<< one >>) = 1
  BY <1>1, Bounds DEF NormalList
<1> HIDE DEF one
<1>6. Cover(Marked(rs, n, r)) =
        IF Log!Runs(both) > MaxRanges THEN Log!Span(both) ELSE both
  BY <1>2, <1>3, <1>4
<1>7. Marked(rs, n, r) \in NormalList /\ Len(Marked(rs, n, r)) <= MaxRanges
  BY <1>1, <1>3, <1>4, <1>5
<1> QED BY <1>6, <1>7 DEF both

LEMMA FullFileMeans ==
  IsFullFile(FullFile) /\ Cover(FullFile) = Log!Whole
BY DEF IsFullFile, FullFile, Cover, Log!Whole

\* What a Read leaves in the list: a..b, or everything from a on.
LEMMA ReadLeaves ==
  ASSUME NEW a \in Line
  PROVE  /\ \A b \in a..Top : <<a, b>> \in GoodRange /\ LinesOf(<<a, b>>) = a..b
         /\ <<a, a + UnknownEnd>> \in GoodRange
         /\ LinesOf(<<a, a + UnknownEnd>>) = a..(Top + 1)
<1>1. ASSUME NEW b \in a..Top
      PROVE  <<a, b>> \in GoodRange /\ LinesOf(<<a, b>>) = a..b
  <2>1. <<a, b>> \in GoodRange
    BY Bounds DEF GoodRange, Line
  <2>2. \A l : l \in LinesOf(<<a, b>>) <=> l \in 1..(Top + 1) /\ a <= l /\ l <= b
    BY <2>1, GoodLines
  <2>3. \A l : l \in a..b <=> l \in 1..(Top + 1) /\ a <= l /\ l <= b
    BY Bounds DEF Line
  <2> QED BY <2>1, <2>2, <2>3
<1>2. /\ <<a, a + UnknownEnd>> \in GoodRange
      /\ LinesOf(<<a, a + UnknownEnd>>) = a..(Top + 1)
  <2> DEFINE e == a + UnknownEnd
  <2>1. <<a, e>> \in GoodRange
    BY Bounds DEF GoodRange, Line
  <2>2. \A l : l \in LinesOf(<<a, e>>) <=> l \in 1..(Top + 1) /\ a <= l /\ l <= e
    BY <2>1, GoodLines
  <2>3. \A l : l \in a..(Top + 1) <=> l \in 1..(Top + 1) /\ a <= l /\ l <= e
    BY Bounds DEF Line
  <2> QED BY <2>1, <2>2, <2>3
<1> QED BY <1>1, <1>2

-----------------------------------------------------------------------------
(* The invariant: the list is normal and within the cap until the file     *)
(* counts as read in full, and from then on it is the whole file.          *)
ListInv ==
  /\ count \in Nat
  /\ \/ ranges = FullFile /\ count >= FullAt
     \/ ranges \in NormalList /\ Len(ranges) <= MaxRanges

LEMMA InitList == Init => ListInv
<1> SUFFICES ASSUME Init PROVE ListInv
  OBVIOUS
<1>1. ranges = << >> /\ count = 0
  BY DEF Init
<1>2. << >> \in NormalList /\ Len(<< >>) = 0
  BY DEF NormalList, Apart
<1> QED BY <1>1, <1>2, Bounds DEF ListInv

\* One call of mark_file_read: the invariant stays, and the step is one of the set.
LEMMA MarkKeepsList ==
  ASSUME ListInv, NEW a, NEW b, <<a, b>> \in GoodRange, Mark(a, b)
  PROVE  /\ ListInv'
         /\ Cover(ranges') = Log!Recorded(Cover(ranges), count, LinesOf(<<a, b>>))
<1>1. /\ count' = count + 1 /\ count \in Nat /\ count' \in Nat
      /\ ranges' = Marked(ranges, count + 1, <<a, b>>)
  BY DEF Mark, ListInv
<1>2. CASE count + 1 >= FullAt
  <2>1. ranges' = FullFile
    BY <1>1, <1>2 DEF Marked
  <2> QED BY <2>1, <1>1, <1>2, FullFileMeans DEF ListInv, Log!Recorded, FullFile
<1>3. CASE ~(count + 1 >= FullAt)
  <2>1. count + 1 \in Nat /\ count + 1 < FullAt /\ ~(count >= FullAt)
    BY <1>1, <1>3, Bounds
  <2>2. ranges \in NormalList
    BY <2>1 DEF ListInv
  <2>3. /\ ranges' \in NormalList /\ Len(ranges') <= MaxRanges
        /\ LET both == Cover(ranges) \cup LinesOf(<<a, b>>)
           IN  Cover(ranges') =
                 IF Log!Runs(both) > MaxRanges THEN Log!Span(both) ELSE both
    BY <1>1, <2>1, <2>2, MarkedIs
  <2>4. ListInv'
    BY <1>1, <2>3 DEF ListInv
  <2> QED BY <2>3, <2>4, <1>3 DEF Log!Recorded
<1> QED BY <1>2, <1>3

LEMMA NextKeepsList ==
  ASSUME ListInv, [Next]_vars
  PROVE  ListInv'
<1>1. CASE MarkLines
  BY <1>1, MarkKeepsList, ReadLeaves DEF MarkLines
<1>2. CASE MarkToEnd
  BY <1>2, MarkKeepsList, ReadLeaves DEF MarkToEnd
<1>3. CASE MarkSymbol
  BY <1>3, Bounds DEF MarkSymbol, ListInv
<1>4. CASE UNCHANGED vars
  BY <1>4 DEF vars, ListInv
<1> QED BY <1>1, <1>2, <1>3, <1>4 DEF Next

THEOREM ListInvariant == Spec => []ListInv
BY InitList, NextKeepsList, PTL DEF Spec

\* Whatever is read, the list stays sorted with a line missing after every
\* range and within _MAX_LINE_RANGES_PER_FILE, or is the whole file.
THEOREM NormalAlways == Spec => []Normal
<1>1. ASSUME ListInv
      PROVE  Normal
  <2>1. CASE ranges = FullFile
    BY <2>1 DEF Normal
  <2>2. CASE ranges \in NormalList /\ Len(ranges) <= MaxRanges
    <3>1. ASSUME NEW i \in DOMAIN ranges
          PROVE  /\ ranges[i][1] \in Line
                 /\ ranges[i][2] \in ranges[i][1]..(Top + UnknownEnd)
      BY <2>2, Bounds DEF NormalList, GoodRange, Line
    <3>2. ASSUME NEW i \in DOMAIN ranges, i > 1
          PROVE  ranges[i][1] > ranges[i - 1][2] + 1
      <4>1. /\ i - 1 \in DOMAIN ranges /\ i - 1 < i
            /\ ranges[i] \in GoodRange /\ ranges[i - 1] \in GoodRange
        BY <2>2, <3>2 DEF NormalList
      <4>2. ranges[i - 1][2] + 1 < ranges[i][1]
        BY <2>2, <4>1 DEF NormalList, Apart
      <4> QED BY <4>1, <4>2 DEF GoodRange
    <3> QED BY <2>2, <3>1, <3>2 DEF Normal
  <2> QED BY <2>1, <2>2, <1>1 DEF ListInv
<1> QED BY <1>1, ListInvariant, PTL

\* The list implements the set of lines: each call of mark_file_read on the list
\* is the call on the set, and a symbol read leaves both alone.
THEOREM ListsImplementSets == Spec => MarksAreRecorded
<1>1. Init => Log!Init
  <2> DEFINE none == << >>
  <2>1. none \in Seq(GoodRange) /\ Len(none) = 0
    OBVIOUS
  <2>2. Cover(none) = {}
    <3> HIDE DEF none
    <3>1. \A l : l \in Cover(none) <=> \E i \in 1..0 : l \in LinesOf(none[i])
      BY <2>1, CoverLines
    <3>2. 1..0 = {}
      OBVIOUS
    <3> QED BY <3>1, <3>2
  <2> QED BY <2>2 DEF Init, Log!Init
<1>2. ASSUME ListInv, [Next]_vars
      PROVE  [Log!Next]_<<Cover(ranges), count>>
  <2> DEFINE Windows == {a..b : a \in Line, b \in 1..(Top + 1)} \ {{}}
  <2>1. CASE MarkLines
    <3>1. PICK a \in Line : \E b \in a..Top : Mark(a, b)
      BY <2>1 DEF MarkLines
    <3>2. PICK b \in a..Top : Mark(a, b)
      BY <3>1
    <3>3. <<a, b>> \in GoodRange /\ LinesOf(<<a, b>>) = a..b
      BY ReadLeaves
    <3>4. a..b \in Windows
      BY Bounds DEF Line
    <3>5. Cover(ranges)' = Log!Recorded(Cover(ranges), count, a..b)
      BY <1>2, <3>2, <3>3, MarkKeepsList
    <3>6. Log!MarkLines(a..b)
      BY <3>2, <3>5 DEF Log!MarkLines, Mark
    <3>7. \E win \in Windows : Log!MarkLines(win)
      <4> HIDE DEF Windows
      <4> QED BY <3>4, <3>6
    <3> QED BY <3>7 DEF Log!Next
  <2>2. CASE MarkToEnd
    <3>1. PICK a \in Line : Mark(a, a + UnknownEnd)
      BY <2>2 DEF MarkToEnd
    <3> DEFINE b == Top + 1
    <3>2. a..b \in Windows
      BY Bounds DEF Line
    <3>3. Cover(ranges)' = Log!Recorded(Cover(ranges), count, a..b)
      BY <1>2, <3>1, ReadLeaves, MarkKeepsList
    <3>4. Log!MarkLines(a..b)
      BY <3>1, <3>3 DEF Log!MarkLines, Mark
    <3>5. \E win \in Windows : Log!MarkLines(win)
      <4> HIDE DEF Windows, b
      <4> QED BY <3>2, <3>4
    <3> QED BY <3>5 DEF Log!Next
  <2>3. CASE MarkSymbol
    BY <2>3 DEF MarkSymbol, Log!Next, Log!MarkSymbol
  <2>4. CASE UNCHANGED vars
    BY <2>4 DEF vars
  <2> QED BY <2>1, <2>2, <2>3, <2>4, <1>2 DEF Next
<1> QED BY <1>1, <1>2, ListInvariant, PTL DEF Spec, MarksAreRecorded, Log!Spec

-----------------------------------------------------------------------------
(* _window_is_covered.                                                     *)

\* Because a line is missing after every range, one range answers for a window.
LEMMA OneRangeAnswers ==
  ASSUME NEW rs \in NormalList, NEW x \in 1..(Top + 1), NEW y \in 1..(Top + 1), x <= y
  PROVE  x..y \subseteq Cover(rs) <=>
           \E i \in 1..Len(rs) : rs[i][1] <= x /\ rs[i][2] >= y
<1>1. /\ Len(rs) \in Nat /\ rs \in Seq(GoodRange)
      /\ \A i \in 1..Len(rs) :
           /\ rs[i] \in GoodRange /\ rs[i][1] \in Int /\ rs[i][2] \in Int
           /\ 1 <= rs[i][1] /\ rs[i][1] <= rs[i][2]
  BY Bounds DEF NormalList, GoodRange, Line
<1>2. \A l : l \in Cover(rs) <=>
             l \in 1..(Top + 1) /\ \E i \in 1..Len(rs) : rs[i][1] <= l /\ l <= rs[i][2]
  BY <1>1, CoverLines, GoodLines
<1>3. \A i, j \in 1..Len(rs) : i < j => rs[i][2] + 1 < rs[j][1]
  BY <1>1 DEF NormalList, Apart
<1>4. ASSUME x..y \subseteq Cover(rs)
      PROVE  \E i \in 1..Len(rs) : rs[i][1] <= x /\ rs[i][2] >= y
  <2>1. x \in Cover(rs)
    BY <1>4
  <2>2. PICK i \in 1..Len(rs) : rs[i][1] <= x /\ x <= rs[i][2]
    BY <2>1, <1>2
  <2>3. CASE rs[i][2] < y
    <3>1. rs[i][2] + 1 \in x..y
      BY <2>2, <2>3, <1>1
    <3>2. PICK j \in 1..Len(rs) : rs[j][1] <= rs[i][2] + 1 /\ rs[i][2] + 1 <= rs[j][2]
      BY <3>1, <1>2, <1>4
    <3>3. CASE i < j
      BY <3>2, <3>3, <1>1, <1>3
    <3>4. CASE j < i
      BY <3>2, <3>4, <2>2, <1>1, <1>3
    <3>5. CASE j = i
      BY <3>2, <3>5, <1>1
    <3> QED BY <3>3, <3>4, <3>5, <1>1
  <2> QED BY <2>2, <2>3, <1>1
<1>5. ASSUME NEW i \in 1..Len(rs), rs[i][1] <= x, rs[i][2] >= y
      PROVE  x..y \subseteq Cover(rs)
  <2> SUFFICES ASSUME NEW l \in x..y PROVE l \in Cover(rs)
    OBVIOUS
  <2>1. l \in 1..(Top + 1) /\ rs[i][1] <= l /\ l <= rs[i][2]
    BY <1>1, <1>5, Bounds
  <2> QED BY <2>1, <1>2
<1> QED BY <1>4, <1>5

LEMMA ToEndIsOpenEnd ==
  ASSUME NEW rs \in Seq(GoodRange), NEW a \in Line
  PROVE  CoveredToEnd(rs, a) <=>
           \E i \in 1..Len(rs) : rs[i][1] <= a /\ rs[i][2] >= Top + 1
<1>1. \A i \in 1..Len(rs) :
        rs[i] \in GoodRange
  OBVIOUS
<1>2. ASSUME NEW r \in GoodRange
      PROVE  r[2] - r[1] >= UnknownEnd <=> r[2] >= Top + 1
  BY Bounds DEF GoodRange, Line
<1>3. DOMAIN rs = 1..Len(rs)
  OBVIOUS
<1> QED BY <1>1, <1>2, <1>3 DEF CoveredToEnd

\* A hook's answer about a window is the truth about its lines: no Read is denied
\* for lines that were not read, and none is let through for lines that were.
THEOREM AnswersAlwaysAgree == Spec => []AnswersAgree
<1>1. ASSUME ListInv
      PROVE  AnswersAgree
  <2>1. CASE ranges = FullFile
    BY <2>1, FullFileMeans DEF AnswersAgree
  <2>2. CASE ranges \in NormalList
    <3>1. ranges \in Seq(GoodRange) /\ DOMAIN ranges = 1..Len(ranges)
      BY <2>2 DEF NormalList
    <3>2. ASSUME NEW a \in Line
          PROVE  CoveredToEnd(ranges, a) <=> a..(Top + 1) \subseteq Cover(ranges)
      <4>1. a \in 1..(Top + 1) /\ Top + 1 \in 1..(Top + 1) /\ a <= Top + 1
        BY Bounds DEF Line
      <4> QED BY <4>1, <2>2, <3>1, OneRangeAnswers, ToEndIsOpenEnd
    <3>3. ASSUME NEW a \in Line, NEW b \in a..Top
          PROVE  CoveredTo(ranges, a, b) <=> a..b \subseteq Cover(ranges)
      <4>1. a \in 1..(Top + 1) /\ b \in 1..(Top + 1) /\ a <= b
        BY Bounds DEF Line
      <4> QED BY <4>1, <2>2, <3>1, OneRangeAnswers DEF CoveredTo
    <3> QED BY <3>2, <3>3 DEF AnswersAgree
  <2> QED BY <2>1, <2>2, <1>1 DEF ListInv
<1> QED BY <1>1, ListInvariant, PTL

-----------------------------------------------------------------------------
(* The reads that the hint about a partly covered window proposes.         *)

\* Windows in ascending order; InSome says that one of them has the line.
Piece == {u \in Int \X Int : u[1] <= u[2]}
Ascending(s) == \A i, j \in DOMAIN s : i < j => s[i][2] < s[j][1]
PieceList == {s \in Seq(Piece) : Ascending(s)}
InSome(s, l) == \E i \in 1..Len(s) : s[i][1] <= l /\ l <= s[i][2]

LEMMA Concatenated ==
  ASSUME NEW s \in PieceList, NEW t \in PieceList,
         \A i \in 1..Len(s) : \A j \in 1..Len(t) : s[i][2] < t[j][1]
  PROVE  s \o t \in PieceList /\ \A l : InSome(s \o t, l) <=> InSome(s, l) \/ InSome(t, l)
<1> DEFINE m == Len(s)
           k == Len(t)
           c == s \o t
<1>1. /\ s \in Seq(Piece) /\ t \in Seq(Piece) /\ m \in Nat /\ k \in Nat
      /\ DOMAIN s = 1..m /\ DOMAIN t = 1..k
  BY DEF PieceList
<1>2. /\ c \in Seq(Piece) /\ Len(c) = m + k /\ DOMAIN c = 1..(m + k)
      /\ \A i \in 1..m : c[i] = s[i]
      /\ \A i \in 1..k : c[m + i] = t[i]
  BY <1>1
<1> HIDE DEF c, m, k
<1>3. ASSUME NEW i \in 1..(m + k), NEW j \in 1..(m + k), i < j
      PROVE  c[i][2] < c[j][1]
  <2>1. CASE j <= m
    <3>1. i \in 1..m /\ j \in 1..m
      BY <2>1, <1>1, <1>3
    <3> QED BY <3>1, <1>1, <1>2, <1>3 DEF PieceList, Ascending
  <2>2. CASE i <= m /\ j > m
    <3>1. i \in 1..m /\ j - m \in 1..k /\ j = m + (j - m)
      BY <2>2, <1>1
    <3>2. c[i] = s[i] /\ c[j] = t[j - m]
      BY <3>1, <1>2
    <3> QED BY <3>1, <3>2 DEF m, k
  <2>3. CASE i > m
    <3>1. /\ i - m \in 1..k /\ j - m \in 1..k /\ i - m < j - m
          /\ i = m + (i - m) /\ j = m + (j - m)
      BY <2>3, <1>1, <1>3
    <3>2. c[i] = t[i - m] /\ c[j] = t[j - m]
      BY <3>1, <1>2
    <3> QED BY <3>1, <3>2, <1>1 DEF PieceList, Ascending
  <2> QED BY <2>1, <2>2, <2>3, <1>1
<1>4. c \in PieceList
  BY <1>2, <1>3 DEF PieceList, Ascending
<1>5. ASSUME NEW l
      PROVE  InSome(c, l) <=> InSome(s, l) \/ InSome(t, l)
  <2>1. ASSUME NEW i \in 1..(m + k), c[i][1] <= l, l <= c[i][2]
        PROVE  InSome(s, l) \/ InSome(t, l)
    <3>1. CASE i <= m
      BY <3>1, <2>1, <1>1, <1>2 DEF InSome, m
    <3>2. CASE i > m
      <4>1. i - m \in 1..k /\ i = m + (i - m)
        BY <3>2, <1>1
      <4>2. c[i] = t[i - m]
        BY <4>1, <1>2
      <4> QED BY <4>1, <4>2, <2>1 DEF InSome, k
    <3> QED BY <3>1, <3>2, <1>1
  <2>2. ASSUME NEW i \in 1..m, s[i][1] <= l, l <= s[i][2]
        PROVE  InSome(c, l)
    <3>1. i \in 1..(m + k) /\ c[i] = s[i]
      BY <1>1, <1>2
    <3> QED BY <3>1, <2>2, <1>2 DEF InSome
  <2>3. ASSUME NEW i \in 1..k, t[i][1] <= l, l <= t[i][2]
        PROVE  InSome(c, l)
    <3>1. m + i \in 1..(m + k) /\ c[m + i] = t[i]
      BY <1>1, <1>2
    <3> QED BY <3>1, <2>3, <1>2 DEF InSome
  <2> QED BY <2>1, <2>2, <2>3, <1>2 DEF InSome, m, k
<1> QED BY <1>4, <1>5 DEF c

LEMMA SinglePiece ==
  ASSUME NEW u \in Piece
  PROVE  << u >> \in PieceList /\ \A l : InSome(<< u >>, l) <=> u[1] <= l /\ l <= u[2]
<1> DEFINE s == << u >>
<1>1. s \in Seq(Piece) /\ Len(s) = 1 /\ s[1] = u /\ DOMAIN s = 1..1
  OBVIOUS
<1>2. \A i : i \in 1..1 <=> i = 1
  OBVIOUS
<1> HIDE DEF s
<1> QED BY <1>1, <1>2 DEF s, PieceList, Ascending, InSome

LEMMA NoPiece ==
  << >> \in PieceList /\ \A l : ~InSome(<< >>, l)
<1> DEFINE s == << >>
<1>1. s \in Seq(Piece) /\ Len(s) = 0 /\ DOMAIN s = {} /\ 1..0 = {}
  OBVIOUS
<1> HIDE DEF s
<1> QED BY <1>1 DEF s, PieceList, Ascending, InSome

\* A range leaves of a piece exactly the lines of the piece that it does not have.
LEMMA PiecesLeft ==
  ASSUME NEW u \in Piece, NEW r \in Piece
  PROVE  /\ Pieces(u, r) \in PieceList
         /\ \A l \in Int : InSome(Pieces(u, r), l) <=>
              u[1] <= l /\ l <= u[2] /\ ~(r[1] <= l /\ l <= r[2])
<1>1. /\ u[1] \in Int /\ u[2] \in Int /\ r[1] \in Int /\ r[2] \in Int
      /\ u[1] <= u[2] /\ r[1] <= r[2]
  BY DEF Piece
<1>2. CASE r[2] < u[1] \/ r[1] > u[2]
  <2>1. Pieces(u, r) = << u >>
    BY <1>2 DEF Pieces
  <2> QED BY <1>1, <1>2, <2>1, SinglePiece
<1>3. CASE ~(r[2] < u[1] \/ r[1] > u[2])
  <2> DEFINE front == <<u[1], r[1] - 1>>
             back == <<r[2] + 1, u[2]>>
             s == IF r[1] > u[1] THEN << front >> ELSE << >>
             t == IF r[2] < u[2] THEN << back >> ELSE << >>
  <2>1. Pieces(u, r) = s \o t
    BY <1>3 DEF Pieces
  <2>2. /\ s \in PieceList
        /\ \A l \in Int : InSome(s, l) <=> u[1] <= l /\ l < r[1]
        /\ \A i \in 1..Len(s) : s[i] = front
    <3>1. CASE r[1] > u[1]
      <4>1. front \in Piece
        BY <1>1, <3>1 DEF Piece
      <4>2. s = << front >> /\ Len(s) = 1 /\ s[1] = front
        BY <3>1
      <4>3. s \in PieceList /\ \A l : InSome(s, l) <=> front[1] <= l /\ l <= front[2]
        <5> HIDE DEF front, s
        <5> QED BY <4>1, <4>2, SinglePiece
      <4> HIDE DEF s
      <4> QED BY <1>1, <4>2, <4>3
    <3>2. CASE ~(r[1] > u[1])
      <4>1. s = << >> /\ Len(s) = 0
        BY <3>2
      <4> HIDE DEF s
      <4> QED BY <1>1, <3>2, <4>1, NoPiece
    <3> QED BY <3>1, <3>2
  <2>3. /\ t \in PieceList
        /\ \A l \in Int : InSome(t, l) <=> r[2] < l /\ l <= u[2]
        /\ \A i \in 1..Len(t) : t[i] = back
    <3>1. CASE r[2] < u[2]
      <4>1. back \in Piece
        BY <1>1, <3>1 DEF Piece
      <4>2. t = << back >> /\ Len(t) = 1 /\ t[1] = back
        BY <3>1
      <4>3. t \in PieceList /\ \A l : InSome(t, l) <=> back[1] <= l /\ l <= back[2]
        <5> HIDE DEF back, t
        <5> QED BY <4>1, <4>2, SinglePiece
      <4> HIDE DEF t
      <4> QED BY <1>1, <4>2, <4>3
    <3>2. CASE ~(r[2] < u[2])
      <4>1. t = << >> /\ Len(t) = 0
        BY <3>2
      <4> HIDE DEF t
      <4> QED BY <1>1, <3>2, <4>1, NoPiece
    <3> QED BY <3>1, <3>2
  <2>4. front[2] < back[1]
    BY <1>1
  <2> HIDE DEF s, t, front, back
  <2>5. \A i \in 1..Len(s) : \A j \in 1..Len(t) : s[i][2] < t[j][1]
    BY <2>2, <2>3, <2>4
  <2>6. /\ s \o t \in PieceList
        /\ \A l : InSome(s \o t, l) <=> InSome(s, l) \/ InSome(t, l)
    BY <2>2, <2>3, <2>5, Concatenated
  <2>7. ASSUME NEW l \in Int
        PROVE  InSome(s \o t, l) <=> u[1] <= l /\ l <= u[2] /\ ~(r[1] <= l /\ l <= r[2])
    <3>1. InSome(s \o t, l) <=> (u[1] <= l /\ l < r[1]) \/ (r[2] < l /\ l <= u[2])
      BY <2>2, <2>3, <2>6
    <3>2. (u[1] <= l /\ l < r[1]) \/ (r[2] < l /\ l <= u[2]) <=>
            u[1] <= l /\ l <= u[2] /\ ~(r[1] <= l /\ l <= r[2])
      BY <1>1, <1>3
    <3> QED BY <3>1, <3>2
  <2> QED BY <2>1, <2>6, <2>7
<1> QED BY <1>2, <1>3

\* The inner loop reaches its result piece by piece.
LEMMA CutInSteps ==
  ASSUME NEW pending \in PieceList, NEW r \in Piece
  PROVE  \E nxt :
           /\ nxt[0] = << >>
           /\ \A n \in 1..Len(pending) : nxt[n] = nxt[n - 1] \o Pieces(pending[n], r)
           /\ Cut(pending, r) = nxt[Len(pending)]
<1> DEFINE b == Len(pending)
           Step(f) ==
             f = [n \in 0..b |->
                    IF n = 0 THEN << >> ELSE f[n - 1] \o Pieces(pending[n], r)]
           X == Seq(Piece)
           g == [n \in 0..b |->
                   [x \in X |-> IF n = 0 THEN x ELSE x \o Pieces(pending[n], r)]]
           none == << >>
<1>1. b \in Nat /\ \A n \in 1..b : pending[n] \in Piece
  BY DEF PieceList
<1>2. none \in X
  OBVIOUS
<1>3. ASSUME NEW x \in X, NEW n \in 1..b
      PROVE  x \o Pieces(pending[n], r) \in X
  <2>1. Pieces(pending[n], r) \in X
    BY <1>1, PiecesLeft DEF PieceList
  <2> QED BY <2>1
<1>4. g \in [0..b -> [X -> X]]
  <2>1. ASSUME NEW n \in 0..b, n # 0
        PROVE  n \in 1..b
    BY <2>1, <1>1
  <2> HIDE DEF X, b
  <2> QED BY <2>1, <1>3
<1>5. PICK f \in [0..b -> X] : IsLoop(f, 0, b, none, g)
  <2> HIDE DEF g, X, none, b
  <2>1. LoopExists(X, 0, b, none, g)
    BY <1>1, <1>2, <1>4, LoopHasResults
  <2> QED BY <2>1 DEF LoopExists
<1>6. Step(f)
  <2>1. ASSUME NEW n \in 0..b, n # 0
        PROVE  g[n][f[n - 1]] = f[n - 1] \o Pieces(pending[n], r)
    <3>1. n - 1 \in 0..b
      BY <2>1, <1>1
    <3>2. f[n - 1] \in X
      BY <3>1
    <3> HIDE DEF X, b
    <3> QED BY <2>1, <3>1, <3>2
  <2> HIDE DEF g, X, b
  <2> QED BY <1>5, <2>1 DEF IsLoop
<1> DEFINE nxt == CHOOSE h : Step(h)
<1>7. Step(nxt)
  <2> HIDE DEF Step
  <2> QED BY <1>6
<1>8. Cut(pending, r) = nxt[b]
  BY DEF Cut
<1> HIDE DEF nxt
<1>9. nxt[0] = << >>
  <2>1. 0 \in 0..b
    BY <1>1
  <2> HIDE DEF b
  <2> QED BY <1>7, <2>1
<1>10. \A n \in 1..b : nxt[n] = nxt[n - 1] \o Pieces(pending[n], r)
  <2> SUFFICES ASSUME NEW n \in 1..b
               PROVE  nxt[n] = nxt[n - 1] \o Pieces(pending[n], r)
    OBVIOUS
  <2>1. n \in 0..b /\ n # 0
    BY <1>1
  <2> HIDE DEF b
  <2> QED BY <1>7, <2>1
<1> QED BY <1>8, <1>9, <1>10

\* The pieces lose the range's lines and no other.
LEMMA CutLeaves ==
  ASSUME NEW pending \in PieceList, NEW r \in Piece
  PROVE  /\ Cut(pending, r) \in PieceList
         /\ \A l \in Int : InSome(Cut(pending, r), l) <=>
              InSome(pending, l) /\ ~(r[1] <= l /\ l <= r[2])
<1> DEFINE m == Len(pending)
<1>1. PICK nxt :
        /\ nxt[0] = << >>
        /\ \A n \in 1..m : nxt[n] = nxt[n - 1] \o Pieces(pending[n], r)
        /\ Cut(pending, r) = nxt[m]
  BY CutInSteps
<1>2. /\ m \in Nat
      /\ \A n \in 1..m : /\ pending[n] \in Piece
                         /\ pending[n][1] \in Int /\ pending[n][2] \in Int
      /\ \A i, j \in 1..m : i < j => pending[i][2] < pending[j][1]
  <2>1. pending \in Seq(Piece) /\ DOMAIN pending = 1..m /\ m \in Nat
    BY DEF PieceList
  <2>2. \A n \in 1..m : pending[n] \in Piece
    BY <2>1
  <2>3. \A u \in Piece : u[1] \in Int /\ u[2] \in Int
    BY DEF Piece
  <2>4. \A i, j \in 1..m : i < j => pending[i][2] < pending[j][1]
    BY <2>1 DEF PieceList, Ascending
  <2> QED BY <2>1, <2>2, <2>3, <2>4
<1> DEFINE Upto(n, l) == \E i \in 1..n : pending[i][1] <= l /\ l <= pending[i][2]
           So(n) == /\ nxt[n] \in PieceList
                    /\ \A l \in Int : InSome(nxt[n], l) <=>
                         Upto(n, l) /\ ~(r[1] <= l /\ l <= r[2])
           T == {n \in 0..m : ~So(n)}
<1>3. So(0)
  <2>1. \A l : ~Upto(0, l)
    <3>1. 1..0 = {}
      OBVIOUS
    <3> QED BY <3>1
  <2> HIDE DEF Upto
  <2> QED BY <2>1, <1>1, NoPiece
<1> HIDE DEF m
<1>4. ASSUME NEW n \in 1..m, So(n - 1)
      PROVE  So(n)
  <2> DEFINE s == nxt[n - 1]
             t == Pieces(pending[n], r)
  <2>1. /\ s \in PieceList /\ t \in PieceList /\ nxt[n] = s \o t
        /\ \A l \in Int : InSome(t, l) <=> pending[n][1] <= l /\ l <= pending[n][2]
                                           /\ ~(r[1] <= l /\ l <= r[2])
    BY <1>1, <1>2, <1>4, PiecesLeft
  <2>2. \A l \in Int : InSome(s, l) <=> Upto(n - 1, l) /\ ~(r[1] <= l /\ l <= r[2])
    BY <1>4
  <2>3. ASSUME NEW i \in 1..Len(s), NEW j \in 1..Len(t)
        PROVE  s[i][2] < t[j][1]
    <3>1. s[i] \in Piece /\ t[j] \in Piece
      <4> HIDE DEF s, t
      <4> QED BY <2>1 DEF PieceList
    <3>2. /\ s[i][2] \in Int /\ s[i][1] <= s[i][2]
          /\ t[j][1] \in Int /\ t[j][1] <= t[j][2]
      BY <3>1 DEF Piece
    <3>3. InSome(s, s[i][2]) /\ InSome(t, t[j][1])
      <4> HIDE DEF s, t
      <4> QED BY <3>2 DEF InSome
    <3>4. Upto(n - 1, s[i][2]) /\ pending[n][1] <= t[j][1]
      <4> HIDE DEF s, t, Upto
      <4> QED BY <2>1, <2>2, <3>2, <3>3
    <3>5. PICK k \in 1..(n - 1) : s[i][2] <= pending[k][2]
      BY <3>4
    <3>6. k \in 1..m /\ k < n
      BY <1>2
    <3>7. pending[k][2] < pending[n][1]
      BY <3>6, <1>2
    <3> HIDE DEF s, t
    <3> QED BY <3>2, <3>4, <3>5, <3>6, <3>7, <1>2
  <2>4. /\ nxt[n] \in PieceList
        /\ \A l : InSome(nxt[n], l) <=> InSome(s, l) \/ InSome(t, l)
    <3> HIDE DEF s, t
    <3> QED BY <2>1, <2>3, Concatenated
  <2>5. \A l : Upto(n, l) <=> Upto(n - 1, l) \/ (pending[n][1] <= l /\ l <= pending[n][2])
    <3>1. \A i : i \in 1..n <=> i \in 1..(n - 1) \/ i = n
      OBVIOUS
    <3> QED BY <3>1
  <2> HIDE DEF s, t, Upto
  <2> QED BY <2>1, <2>2, <2>4, <2>5
<1>5. T = {}
  <2> SUFFICES ASSUME T # {} PROVE FALSE
    OBVIOUS
  <2>1. PICK k \in T : \A n \in T : k <= n
    <3>1. T \subseteq Nat
      OBVIOUS
    <3> HIDE DEF T
    <3> QED BY <3>1, LeastNat
  <2>2. k \in 0..m /\ ~So(k)
    OBVIOUS
  <2> HIDE DEF So
  <2>3. k # 0
    BY <2>2, <1>3
  <2>4. k \in 1..m /\ k - 1 \in 0..m /\ k - 1 \notin T
    <3> HIDE DEF T
    <3> QED BY <2>1, <2>2, <2>3, <1>2
  <2>5. So(k - 1)
    BY <2>4
  <2> QED BY <2>2, <2>4, <2>5, <1>4
<1>6. So(m)
  <2> HIDE DEF So
  <2>1. m \in 0..m
    BY <1>2
  <2> QED BY <2>1, <1>5
<1> QED BY <1>1, <1>6 DEF InSome, m

\* The outer loop reaches its result range by range.
LEMMA CutAllInSteps ==
  ASSUME NEW window \in Piece, NEW s \in Seq(Piece)
  PROVE  \E out :
           /\ out[0] = << window >>
           /\ \A n \in 1..Len(s) : out[n] = Cut(out[n - 1], s[n])
           /\ CutAll(window, s) = out[Len(s)]
<1> DEFINE b == Len(s)
           Step(f) == f = [n \in 0..b |->
                             IF n = 0 THEN << window >> ELSE Cut(f[n - 1], s[n])]
           g == [n \in 0..b |-> [x \in PieceList |-> IF n = 0 THEN x ELSE Cut(x, s[n])]]
           base == << window >>
<1>1. b \in Nat /\ \A n \in 1..b : s[n] \in Piece
  OBVIOUS
<1>2. base \in PieceList
  BY SinglePiece
<1>3. ASSUME NEW x \in PieceList, NEW n \in 1..b
      PROVE  Cut(x, s[n]) \in PieceList
  BY <1>1, CutLeaves
<1>4. g \in [0..b -> [PieceList -> PieceList]]
  <2>1. ASSUME NEW n \in 0..b, n # 0
        PROVE  n \in 1..b
    BY <2>1, <1>1
  <2> HIDE DEF b
  <2> QED BY <2>1, <1>3
<1>5. PICK f \in [0..b -> PieceList] : IsLoop(f, 0, b, base, g)
  <2> HIDE DEF g, base, b
  <2>1. LoopExists(PieceList, 0, b, base, g)
    BY <1>1, <1>2, <1>4, LoopHasResults
  <2> QED BY <2>1 DEF LoopExists
<1>6. Step(f)
  <2>1. ASSUME NEW n \in 0..b, n # 0
        PROVE  g[n][f[n - 1]] = Cut(f[n - 1], s[n])
    <3>1. n - 1 \in 0..b
      BY <2>1, <1>1
    <3>2. f[n - 1] \in PieceList
      BY <3>1
    <3> HIDE DEF b
    <3> QED BY <2>1, <3>1, <3>2
  <2> HIDE DEF g, b
  <2> QED BY <1>5, <2>1 DEF IsLoop
<1> DEFINE out == CHOOSE h : Step(h)
<1>7. Step(out)
  <2> HIDE DEF Step
  <2> QED BY <1>6
<1>8. CutAll(window, s) = out[b]
  BY DEF CutAll
<1> HIDE DEF out
<1>9. out[0] = << window >>
  <2>1. 0 \in 0..b
    BY <1>1
  <2> HIDE DEF b
  <2> QED BY <1>7, <2>1
<1>10. \A n \in 1..b : out[n] = Cut(out[n - 1], s[n])
  <2> SUFFICES ASSUME NEW n \in 1..b PROVE out[n] = Cut(out[n - 1], s[n])
    OBVIOUS
  <2>1. n \in 0..b /\ n # 0
    BY <1>1
  <2> HIDE DEF b
  <2> QED BY <1>7, <2>1
<1> QED BY <1>8, <1>9, <1>10

\* What is left of a window is what no range of the list has, in ascending order.
LEMMA CutAllLeaves ==
  ASSUME NEW window \in Piece, NEW s \in Seq(Piece)
  PROVE  /\ CutAll(window, s) \in PieceList
         /\ \A l \in Int : InSome(CutAll(window, s), l) <=>
              window[1] <= l /\ l <= window[2] /\ ~InSome(s, l)
<1> DEFINE m == Len(s)
<1>1. PICK out :
        /\ out[0] = << window >>
        /\ \A n \in 1..m : out[n] = Cut(out[n - 1], s[n])
        /\ CutAll(window, s) = out[m]
  BY CutAllInSteps
<1>2. m \in Nat /\ \A n \in 1..m : s[n] \in Piece
  OBVIOUS
<1> DEFINE Upto(n, l) == \E i \in 1..n : s[i][1] <= l /\ l <= s[i][2]
           So(n) == /\ out[n] \in PieceList
                    /\ \A l \in Int : InSome(out[n], l) <=>
                         window[1] <= l /\ l <= window[2] /\ ~Upto(n, l)
           T == {n \in 0..m : ~So(n)}
<1>3. So(0)
  <2>1. \A l : ~Upto(0, l)
    <3>1. 1..0 = {}
      OBVIOUS
    <3> QED BY <3>1
  <2>2. /\ out[0] \in PieceList
        /\ \A l : InSome(out[0], l) <=> window[1] <= l /\ l <= window[2]
    BY <1>1, SinglePiece
  <2> HIDE DEF Upto
  <2> QED BY <2>1, <2>2
<1> HIDE DEF m
<1>4. ASSUME NEW n \in 1..m, So(n - 1)
      PROVE  So(n)
  <2>1. /\ out[n] \in PieceList
        /\ \A l \in Int : InSome(out[n], l) <=>
             InSome(out[n - 1], l) /\ ~(s[n][1] <= l /\ l <= s[n][2])
    BY <1>1, <1>2, <1>4, CutLeaves
  <2>2. \A l : Upto(n, l) <=> Upto(n - 1, l) \/ (s[n][1] <= l /\ l <= s[n][2])
    <3>1. \A i : i \in 1..n <=> i \in 1..(n - 1) \/ i = n
      OBVIOUS
    <3> QED BY <3>1
  <2>3. \A l \in Int : InSome(out[n - 1], l) <=>
          window[1] <= l /\ l <= window[2] /\ ~Upto(n - 1, l)
    BY <1>4
  <2> HIDE DEF Upto
  <2> QED BY <2>1, <2>2, <2>3
<1>5. T = {}
  <2> SUFFICES ASSUME T # {} PROVE FALSE
    OBVIOUS
  <2>1. PICK k \in T : \A n \in T : k <= n
    <3>1. T \subseteq Nat
      OBVIOUS
    <3> HIDE DEF T
    <3> QED BY <3>1, LeastNat
  <2>2. k \in 0..m /\ ~So(k)
    OBVIOUS
  <2> HIDE DEF So
  <2>3. k # 0
    BY <2>2, <1>3
  <2>4. k \in 1..m /\ k - 1 \in 0..m /\ k - 1 \notin T
    <3> HIDE DEF T
    <3> QED BY <2>1, <2>2, <2>3, <1>2
  <2>5. So(k - 1)
    BY <2>4
  <2> QED BY <2>2, <2>4, <2>5, <1>4
<1>6. So(m)
  <2> HIDE DEF So
  <2>1. m \in 0..m
    BY <1>2
  <2> QED BY <2>1, <1>5
<1> QED BY <1>1, <1>6 DEF InSome, m

\* The proposals for a window: its lines that the list does not have.
LEMMA AdviceIs ==
  ASSUME NEW rs \in NormalList, NEW a \in Line, NEW b \in a..Top
  PROVE  LET left == UncoveredSubranges(rs, a, b)
         IN  /\ left \in PieceList /\ left \in Seq(GoodRange)
             /\ \A l \in Int : InSome(left, l) <=> l \in a..b /\ l \notin Cover(rs)
<1> DEFINE s == Sorted(rs)
           left == UncoveredSubranges(rs, a, b)
           window == <<a, b>>
<1>1. /\ rs \in Seq(GoodRange) /\ s \in Seq(GoodRange) /\ Len(s) = Len(rs)
      /\ \A x : Has(s, x) <=> Has(rs, x)
  BY SortNormal DEF NormalList
<1>2. /\ a \in Int /\ b \in Int /\ a <= b /\ 1 <= a /\ b <= Top
      /\ window \in Piece /\ window[1] = a /\ window[2] = b
  BY Bounds DEF Line, Piece
<1>3. left = CutAll(window, s)
  BY <1>1, NeverFull DEF UncoveredSubranges
<1>4. s \in Seq(Piece)
  <2>1. GoodRange \subseteq Piece
    BY DEF GoodRange, Piece
  <2> HIDE DEF s
  <2> QED BY <1>1, <2>1
<1> HIDE DEF s, left, window
<1>5. /\ left \in PieceList
      /\ \A l \in Int : InSome(left, l) <=> a <= l /\ l <= b /\ ~InSome(s, l)
  BY <1>2, <1>3, <1>4, CutAllLeaves
<1>6. ASSUME NEW l \in Int, a <= l, l <= b
      PROVE  InSome(s, l) <=> l \in Cover(rs)
  <2>1. l \in 1..(Top + 1)
    BY <1>2, <1>6, Bounds
  <2>2. InSome(s, l) <=> \E x : Has(s, x) /\ x[1] <= l /\ l <= x[2]
    BY DEF InSome, Has
  <2>3. l \in Cover(rs) <=> \E i \in 1..Len(rs) : l \in LinesOf(rs[i])
    BY <1>1, CoverLines
  <2>4. \A i \in 1..Len(rs) : l \in LinesOf(rs[i]) <=> rs[i][1] <= l /\ l <= rs[i][2]
    BY <2>1, <1>1, GoodLines
  <2> QED BY <2>2, <2>3, <2>4, <1>1 DEF Has
<1>7. \A l \in Int : InSome(left, l) <=> l \in a..b /\ l \notin Cover(rs)
  BY <1>2, <1>5, <1>6
<1>8. left \in Seq(GoodRange)
  <2>1. left \in Seq(Piece) /\ Len(left) \in Nat /\ DOMAIN left = 1..Len(left)
    BY <1>5 DEF PieceList
  <2>2. ASSUME NEW i \in 1..Len(left)
        PROVE  left[i] \in GoodRange
    <3>1. /\ left[i] \in Int \X Int /\ left[i][1] \in Int /\ left[i][2] \in Int
          /\ left[i][1] <= left[i][2]
      BY <2>1 DEF Piece
    <3>2. InSome(left, left[i][1]) /\ InSome(left, left[i][2])
      BY <3>1 DEF InSome
    <3>3. left[i][1] \in a..b /\ left[i][2] \in a..b
      BY <3>1, <3>2, <1>7
    <3> QED BY <3>1, <3>3, <1>2, Bounds DEF GoodRange, Line
  <2> QED BY <2>1, <2>2
<1> QED BY <1>5, <1>7, <1>8 DEF left

\* The proposed reads are made one after the other.
LEMMA FollowedInSteps ==
  ASSUME NEW X, NEW rs \in X, NEW advice \in Seq(GoodRange),
         \A x \in X : \A r \in GoodRange : Marked(x, 0, r) \in X
  PROVE  \E after :
           /\ after[0] = rs
           /\ \A n \in 1..Len(advice) : after[n] = Marked(after[n - 1], 0, advice[n])
           /\ Followed(rs, advice) = after[Len(advice)]
<1> DEFINE b == Len(advice)
           Step(f) == f = [n \in 0..b |->
                             IF n = 0 THEN rs ELSE Marked(f[n - 1], 0, advice[n])]
           g == [n \in 0..b |-> [x \in X |-> IF n = 0 THEN x ELSE Marked(x, 0, advice[n])]]
<1>1. b \in Nat /\ \A n \in 1..b : advice[n] \in GoodRange
  OBVIOUS
<1>2. ASSUME NEW x \in X, NEW n \in 1..b
      PROVE  Marked(x, 0, advice[n]) \in X
  BY <1>1
<1>3. g \in [0..b -> [X -> X]]
  <2>1. ASSUME NEW n \in 0..b, n # 0
        PROVE  n \in 1..b
    BY <2>1, <1>1
  <2> HIDE DEF b
  <2> QED BY <2>1, <1>2
<1>4. PICK f \in [0..b -> X] : IsLoop(f, 0, b, rs, g)
  <2> HIDE DEF g, b
  <2>1. LoopExists(X, 0, b, rs, g)
    BY <1>1, <1>3, LoopHasResults
  <2> QED BY <2>1 DEF LoopExists
<1>5. Step(f)
  <2>1. ASSUME NEW n \in 0..b, n # 0
        PROVE  g[n][f[n - 1]] = Marked(f[n - 1], 0, advice[n])
    <3>1. n - 1 \in 0..b
      BY <2>1, <1>1
    <3>2. f[n - 1] \in X
      BY <3>1
    <3> HIDE DEF b
    <3> QED BY <2>1, <3>1, <3>2
  <2> HIDE DEF g, b
  <2> QED BY <1>4, <2>1 DEF IsLoop
<1> DEFINE after == CHOOSE h : Step(h)
<1>6. Step(after)
  <2> HIDE DEF Step
  <2> QED BY <1>5
<1>7. Followed(rs, advice) = after[b]
  BY DEF Followed
<1> HIDE DEF after
<1>8. after[0] = rs
  <2>1. 0 \in 0..b
    BY <1>1
  <2> HIDE DEF b
  <2> QED BY <1>6, <2>1
<1>9. \A n \in 1..b : after[n] = Marked(after[n - 1], 0, advice[n])
  <2> SUFFICES ASSUME NEW n \in 1..b PROVE after[n] = Marked(after[n - 1], 0, advice[n])
    OBVIOUS
  <2>1. n \in 0..b /\ n # 0
    BY <1>1
  <2> HIDE DEF b
  <2> QED BY <1>6, <2>1
<1> QED BY <1>7, <1>8, <1>9

\* A mark loses no line: what the cap makes of the list spans all of it.
LEMMA MarkedKeepsLines ==
  ASSUME NEW rs \in NormalList, NEW r \in GoodRange, 0 < FullAt
  PROVE  /\ Marked(rs, 0, r) \in NormalList
         /\ Cover(rs) \cup LinesOf(r) \subseteq Cover(Marked(rs, 0, r))
<1> DEFINE both == Cover(rs) \cup LinesOf(r)
<1>1. /\ Marked(rs, 0, r) \in NormalList
      /\ Cover(Marked(rs, 0, r)) = IF Log!Runs(both) > MaxRanges THEN Log!Span(both) ELSE both
  BY MarkedIs
<1>2. both \subseteq 1..(Top + 1)
  <2>1. \A i \in 1..Len(rs) : rs[i] \in GoodRange
    BY DEF NormalList
  <2>2. \A l : l \in Cover(rs) <=> \E i \in 1..Len(rs) : l \in LinesOf(rs[i])
    BY CoverLines DEF NormalList
  <2> QED BY <2>1, <2>2, GoodLines
<1> HIDE DEF both
<1>3. both \subseteq Log!Span(both)
  <2> SUFFICES ASSUME NEW l \in both PROVE l \in Log!Span(both)
    OBVIOUS
  <2>1. l \in 1..(Top + 1) /\ l <= l
    BY <1>2, Bounds
  <2> QED BY <2>1 DEF Log!Span, Log!Whole
<1> QED BY <1>1, <1>3 DEF both

LEMMA FollowedKeepsLines ==
  ASSUME NEW rs \in NormalList, NEW advice \in Seq(GoodRange), 0 < FullAt
  PROVE  /\ Followed(rs, advice) \in NormalList
         /\ Cover(rs) \subseteq Cover(Followed(rs, advice))
         /\ \A i \in 1..Len(advice) :
              LinesOf(advice[i]) \subseteq Cover(Followed(rs, advice))
<1> DEFINE m == Len(advice)
<1>1. m \in Nat /\ \A n \in 1..m : advice[n] \in GoodRange
  OBVIOUS
<1>2. PICK after :
        /\ after[0] = rs
        /\ \A n \in 1..m : after[n] = Marked(after[n - 1], 0, advice[n])
        /\ Followed(rs, advice) = after[m]
  <2>1. \A x \in NormalList : \A r \in GoodRange : Marked(x, 0, r) \in NormalList
    BY MarkedKeepsLines
  <2> QED BY <2>1, FollowedInSteps
<1> HIDE DEF m
<1> DEFINE So(n) == /\ after[n] \in NormalList
                    /\ Cover(rs) \subseteq Cover(after[n])
                    /\ \A i \in 1..n : LinesOf(advice[i]) \subseteq Cover(after[n])
           T == {n \in 0..m : ~So(n)}
<1>3. So(0)
  <2>1. 1..0 = {}
    OBVIOUS
  <2> QED BY <2>1, <1>2
<1>4. ASSUME NEW n \in 1..m, So(n - 1)
      PROVE  So(n)
  <2>1. /\ after[n] \in NormalList
        /\ Cover(after[n - 1]) \cup LinesOf(advice[n]) \subseteq Cover(after[n])
    BY <1>1, <1>2, <1>4, MarkedKeepsLines
  <2>2. \A i : i \in 1..n <=> i \in 1..(n - 1) \/ i = n
    OBVIOUS
  <2> QED BY <2>1, <2>2, <1>4
<1>5. T = {}
  <2> SUFFICES ASSUME T # {} PROVE FALSE
    OBVIOUS
  <2>1. PICK k \in T : \A n \in T : k <= n
    <3>1. T \subseteq Nat
      OBVIOUS
    <3> HIDE DEF T
    <3> QED BY <3>1, LeastNat
  <2>2. k \in 0..m /\ ~So(k)
    OBVIOUS
  <2> HIDE DEF So
  <2>3. k # 0
    BY <2>2, <1>3
  <2>4. k \in 1..m /\ k - 1 \in 0..m /\ k - 1 \notin T
    <3> HIDE DEF T
    <3> QED BY <2>1, <2>2, <2>3, <1>1
  <2>5. So(k - 1)
    BY <2>4
  <2> QED BY <2>2, <2>4, <2>5, <1>4
<1>6. So(m)
  <2> HIDE DEF So
  <2>1. m \in 0..m
    BY <1>1
  <2> QED BY <2>1, <1>5
<1> QED BY <1>2, <1>6 DEF m

\* With a threshold of 0 the first read makes it the whole file.
LEMMA FollowedToFull ==
  ASSUME NEW rs, NEW advice \in Seq(GoodRange), advice # << >>, FullAt = 0
  PROVE  Followed(rs, advice) = FullFile
<1> DEFINE X == {rs, FullFile}
           m == Len(advice)
<1>1. \A x, r : Marked(x, 0, r) = FullFile
  BY DEF Marked
<1>2. PICK after :
        /\ after[0] = rs
        /\ \A n \in 1..m : after[n] = Marked(after[n - 1], 0, advice[n])
        /\ Followed(rs, advice) = after[m]
  <2>1. \A x \in X : \A r \in GoodRange : Marked(x, 0, r) \in X
    BY <1>1
  <2>2. rs \in X
    OBVIOUS
  <2> HIDE DEF X
  <2> QED BY <2>1, <2>2, FollowedInSteps
<1>3. m \in 1..m
  OBVIOUS
<1> HIDE DEF m
<1> QED BY <1>1, <1>2, <1>3

\* An agent that makes the reads the hint proposes ends with its window covered,
\* and none of them reads a line twice or one the list had.
THEOREM AdviceAlwaysCompletes == Spec => []AdviceCompletes
<1>1. ASSUME ListInv, NEW a \in Line, NEW b \in a..Top, Advice(ranges, a, b) # << >>
      PROVE  LET advice == Advice(ranges, a, b)
                 Lines(u) == u[1]..u[2]
                 after == Followed(ranges, advice)
             IN  /\ IsFullFile(after) \/ CoveredTo(after, a, b)
                 /\ \A i, j \in DOMAIN advice :
                      i # j => Lines(advice[i]) \cap Lines(advice[j]) = {}
                 /\ \A i \in DOMAIN advice :
                      Lines(advice[i]) # {} /\ Lines(advice[i]) \cap Cover(ranges) = {}
  <2> DEFINE advice == Advice(ranges, a, b)
             Lines(u) == u[1]..u[2]
             after == Followed(ranges, advice)
  <2>1. ranges \in NormalList
    <3>1. ranges # FullFile
      BY <1>1, FullFileMeans DEF Advice, UncoveredSubranges
    <3> QED BY <3>1, <1>1 DEF ListInv
  <2>2. /\ advice \in PieceList /\ advice \in Seq(GoodRange) /\ advice # << >>
        /\ \A l \in Int : InSome(advice, l) <=> l \in a..b /\ l \notin Cover(ranges)
    <3>1. advice = UncoveredSubranges(ranges, a, b)
      BY <1>1 DEF Advice
    <3> QED BY <3>1, <2>1, <1>1, AdviceIs
  <2> HIDE DEF advice
  <2>3. /\ advice \in Seq(Piece) /\ DOMAIN advice = 1..Len(advice)
        /\ \A i \in DOMAIN advice :
             /\ advice[i] \in GoodRange
             /\ advice[i][1] \in Int /\ advice[i][2] \in Int
             /\ advice[i][1] <= advice[i][2]
    BY <2>2 DEF PieceList, Piece
  <2>4. ASSUME NEW i \in DOMAIN advice, NEW j \in DOMAIN advice, i # j
        PROVE  Lines(advice[i]) \cap Lines(advice[j]) = {}
    <3>1. i < j \/ j < i
      BY <2>3, <2>4
    <3>2. advice[i][2] < advice[j][1] \/ advice[j][2] < advice[i][1]
      BY <3>1, <2>2 DEF PieceList, Ascending
    <3> QED BY <3>2, <2>3
  <2>5. ASSUME NEW i \in DOMAIN advice
        PROVE  Lines(advice[i]) # {} /\ Lines(advice[i]) \cap Cover(ranges) = {}
    <3>1. advice[i][1] \in Lines(advice[i])
      BY <2>3
    <3>2. \A l \in Lines(advice[i]) : l \in Int /\ InSome(advice, l)
      BY <2>3 DEF InSome
    <3> HIDE DEF Lines
    <3> QED BY <3>1, <3>2, <2>2
  <2>6. IsFullFile(after) \/ CoveredTo(after, a, b)
    <3>1. CASE FullAt = 0
      BY <3>1, <2>2, FollowedToFull, FullFileMeans
    <3>2. CASE FullAt # 0
      <4>1. 0 < FullAt
        BY <3>2, Bounds
      <4>2. /\ after \in NormalList
            /\ Cover(ranges) \subseteq Cover(after)
            /\ \A i \in 1..Len(advice) : LinesOf(advice[i]) \subseteq Cover(after)
        BY <4>1, <2>1, <2>2, FollowedKeepsLines
      <4> HIDE DEF after
      <4>3. a..b \subseteq Cover(after)
        <5> SUFFICES ASSUME NEW l \in a..b, l \notin Cover(ranges)
                     PROVE  l \in Cover(after)
          BY <4>2
        <5>1. l \in Int /\ l \in 1..(Top + 1)
          BY <1>1, Bounds DEF Line
        <5>2. PICK i \in 1..Len(advice) : advice[i][1] <= l /\ l <= advice[i][2]
          BY <5>1, <2>2 DEF InSome
        <5>3. l \in LinesOf(advice[i])
          BY <5>1, <5>2, <2>3, GoodLines
        <5> QED BY <5>2, <5>3, <4>2
      <4>4. a \in 1..(Top + 1) /\ b \in 1..(Top + 1) /\ a <= b
        BY <1>1, Bounds DEF Line
      <4>5. \E i \in 1..Len(after) : after[i][1] <= a /\ after[i][2] >= b
        BY <4>2, <4>3, <4>4, OneRangeAnswers
      <4> QED BY <4>2, <4>5 DEF CoveredTo, NormalList
    <3> QED BY <3>1, <3>2
  <2> QED BY <2>4, <2>5, <2>6 DEF advice
<1>2. ASSUME ListInv
      PROVE  AdviceCompletes
  BY <1>1, <1>2 DEF AdviceCompletes
<1> QED BY <1>2, ListInvariant, PTL
=============================================================================

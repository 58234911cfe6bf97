------------------------ MODULE CanonicalSink_proofs ------------------------
(***************************************************************************)
(* Proofs about CanonicalSink, for every set of writers and chunks, every  *)
(* content of the chunks, batch size and number of transactions.           *)
(***************************************************************************)
EXTENDS CanonicalSink, WellFoundedInduction, TLAPS

-----------------------------------------------------------------------------
(***************************************************************************)
(* Induction.  The provers cannot instantiate an induction theorem that    *)
(* takes a predicate, but they can reason about the set of the numbers     *)
(* that satisfy it: a nonempty set of naturals has a least element.        *)
(***************************************************************************)

LEMMA LeastElement ==
    ASSUME NEW T \in SUBSET Nat, T # {}
    PROVE  \E x \in T : \A y \in T : x <= y
<1> DEFINE R == OpToRel(<, Nat)
<1>1. PICK x \in T : \A y \in T : ~ (<<y, x>> \in R)
  <2>1. IsWellFoundedOn(R, Nat)
    BY NatLessThanWellFounded
  <2> HIDE DEF R
  <2>2. QED BY <2>1, WFMin
<1>2. ASSUME NEW y \in T, y < x PROVE FALSE
  <2>1. <<y, x>> \in R
    BY <1>2 DEF OpToRel
  <2>2. QED BY <1>1, <2>1
<1> HIDE DEF R
<1>3. QED BY <1>2

LEMMA SetInduction ==
    ASSUME NEW S, 0 \in S, \A n \in Nat : n \in S => n + 1 \in S
    PROVE  \A n \in Nat : n \in S
<1>1. SUFFICES ASSUME Nat \ S # {} PROVE FALSE
  OBVIOUS
<1>2. PICK x \in Nat \ S : \A y \in Nat \ S : x <= y
  BY <1>1, LeastElement
<1>3. x - 1 \in Nat /\ x - 1 \in S
  BY <1>2
<1>4. QED BY <1>2, <1>3

\* f follows step from v0 on, up to N.
Follows(f, v0, N, step) ==
    \A n \in 0..N : f[n] = IF n = 0 THEN v0 ELSE step[<<n, f[n - 1]>>]

\* A function defined by recursion on 0..N exists.
LEMMA RecursionExists ==
    ASSUME NEW V, NEW v0 \in V, NEW N \in Nat, NEW step \in [(1..N) \X V -> V]
    PROVE  \E f \in [0..N -> V] : Follows(f, v0, N, step)
<1> DEFINE Solves(m, f) == Follows(f, v0, m, step)
           S == {m \in Nat : m <= N => \E f \in [0..m -> V] : Solves(m, f)}
<1>1. 0 \in S
  <2>1. [n \in 0..0 |-> v0] \in [0..0 -> V] /\ Solves(0, [n \in 0..0 |-> v0])
    BY DEF Follows
  <2>2. QED BY <2>1
<1>2. ASSUME NEW m \in Nat, m \in S PROVE m + 1 \in S
  <2>1. SUFFICES ASSUME m + 1 <= N PROVE \E f \in [0..(m + 1) -> V] : Solves(m + 1, f)
    OBVIOUS
  <2>2. PICK f \in [0..m -> V] : Solves(m, f)
    BY <1>2, <2>1
  <2> DEFINE h == [n \in 0..(m + 1) |-> IF n = m + 1 THEN step[<<n, f[m]>>] ELSE f[n]]
  <2>3. step[<<m + 1, f[m]>>] \in V
    BY <2>1
  <2>4. h \in [0..(m + 1) -> V]
    BY <2>3
  <2>5. ASSUME NEW n \in 0..(m + 1)
        PROVE  h[n] = IF n = 0 THEN v0 ELSE step[<<n, h[n - 1]>>]
    <3>1. CASE n = m + 1
      <4>1. h[n] = step[<<n, f[m]>>] /\ h[n - 1] = f[m]
        BY <3>1
      <4>2. QED BY <4>1, <3>1
    <3>2. CASE n \in 0..m
      <4>1. h[n] = f[n] /\ (n # 0 => h[n - 1] = f[n - 1])
        BY <3>2
      <4>2. QED BY <4>1, <2>2, <3>2 DEF Follows
    <3>3. QED BY <3>1, <3>2
  <2>6. QED BY <2>4, <2>5 DEF Follows
<1> HIDE DEF S
<1>3. \A m \in Nat : m \in S
  BY <1>1, <1>2, SetInduction
<1>4. QED BY <1>3 DEF S

-----------------------------------------------------------------------------
(* What the operators of HotMerge return. *)

LEMMA OverType ==
    ASSUME NEW f \in Contributions, NEW g \in Contributions
    PROVE  Over(f, g) \in Contributions
<1>1. PICK C \in SUBSET Columns : f \in [C -> Values]
  BY DEF Contributions
<1>2. PICK D \in SUBSET Columns : g \in [D -> Values]
  BY DEF Contributions
<1>3. C \cup D \in SUBSET Columns
  OBVIOUS
<1>4. Over(f, g) \in [C \cup D -> Values]
  BY <1>1, <1>2 DEF Over
<1>5. QED BY <1>3, <1>4 DEF Contributions

LEMMA RowTimes ==
    /\ \A r \in EventRow : r.ts \in Nat
    /\ \A g \in HotRow : g.at \in Nat
    /\ \A r \in EventRow : [at |-> r.ts, cols |-> r.contrib] \in HotRow
BY HotMergeAssumption DEF EventRow, HotRow

LEMMA JoinType ==
    ASSUME NEW g \in HotRow, NEW r \in EventRow
    PROVE  /\ JoinGroup(g, r) \in HotRow
           /\ JoinGroup(g, r).at >= g.at
           /\ JoinGroup(g, r).at >= r.ts
           /\ JoinGroup(g, r).at \in {g.at, r.ts}
<1>1. g.at \in Times /\ g.cols \in Contributions /\ r.ts \in Times /\ r.contrib \in Contributions
  BY DEF HotRow, EventRow
<1>2. g.at \in Nat /\ r.ts \in Nat
  BY RowTimes
<1>3. Over(r.contrib, g.cols) \in Contributions /\ Over(g.cols, r.contrib) \in Contributions
  BY <1>1, OverType
<1>4. QED BY <1>1, <1>2, <1>3 DEF JoinGroup, HotRow

LEMMA UpdatedType ==
    ASSUME NEW h \in HotRow, NEW g \in HotRow
    PROVE  Updated(h, g) \in HotRow /\ Updated(h, g).at = g.at
BY OverType DEF Updated, HotRow

\* The group of s after the first n rows, given the one after n - 1.
Grown(batch, s, n, v) ==
    IF batch[n].sku # s THEN v
    ELSE IF v = NoRow THEN [at |-> batch[n].ts, cols |-> batch[n].contrib]
    ELSE JoinGroup(v, batch[n])

LEMMA HotGroupDef ==
    ASSUME NEW batch \in Seq(EventRow), NEW s
    PROVE  \E f :
              /\ f[0] = NoRow
              /\ \A n \in 1..Len(batch) : f[n] = Grown(batch, s, n, f[n - 1])
              /\ HotGroup(batch, s) = f[Len(batch)]
<1> DEFINE N == Len(batch)
           V == HotRow \cup {NoRow}
           IsGroup(f) == f = [n \in 0..N |-> IF n = 0 THEN NoRow ELSE Grown(batch, s, n, f[n - 1])]
           step == [p \in (1..N) \X V |-> Grown(batch, s, p[1], p[2])]
<1>1. N \in Nat
  OBVIOUS
<1>2. ASSUME NEW n \in 1..N, NEW v \in V PROVE Grown(batch, s, n, v) \in V
  <2>1. batch[n] \in EventRow
    OBVIOUS
  <2>2. QED BY <2>1, RowTimes, JoinType DEF Grown
<1>3. step \in [(1..N) \X V -> V]
  BY <1>2
<1>4. \A n \in 1..N, v \in V : step[<<n, v>>] = Grown(batch, s, n, v)
  OBVIOUS
<1> HIDE DEF step
<1>5. PICK f \in [0..N -> V] : Follows(f, NoRow, N, step)
  <2>1. NoRow \in V
    OBVIOUS
  <2> HIDE DEF V, N
  <2>2. QED BY <1>1, <1>3, <2>1, RecursionExists
<1>6. ASSUME NEW n \in 0..N PROVE f[n] = IF n = 0 THEN NoRow ELSE Grown(batch, s, n, f[n - 1])
  <2>1. n # 0 => n \in 1..N /\ f[n - 1] \in V
    OBVIOUS
  <2> HIDE DEF V, N
  <2>2. QED BY <1>4, <1>5, <2>1 DEF Follows
<1>7. \E g : IsGroup(g)
  <2>1. f = [n \in 0..N |-> f[n]]
    OBVIOUS
  <2>2. IsGroup(f)
    BY <1>6, <2>1, Zenon
  <2>3. QED BY <2>2
<1> DEFINE g == CHOOSE g : IsGroup(g)
<1>8. IsGroup(g)
  BY <1>7
<1>9. HotGroup(batch, s) = g[N]
  BY DEF HotGroup, Grown
<1> HIDE DEF g
<1>10. g[0] = NoRow /\ \A n \in 1..N : g[n] = Grown(batch, s, n, g[n - 1])
  BY <1>8
<1>11. QED BY <1>9, <1>10

\* What the group of s says about the first n rows of a batch.
Spans(batch, s, n, g) ==
    /\ (\A i \in 1..n : batch[i].sku # s) => g = NoRow
    /\ (\E i \in 1..n : batch[i].sku = s) =>
         /\ g \in HotRow
         /\ \A i \in 1..n : batch[i].sku = s => g.at >= batch[i].ts
         /\ \E i \in 1..n : batch[i].sku = s /\ g.at = batch[i].ts

LEMMA GroupSpans ==
    ASSUME NEW batch \in Seq(EventRow), NEW s
    PROVE  Spans(batch, s, Len(batch), HotGroup(batch, s))
<1>1. PICK f : /\ f[0] = NoRow
               /\ \A n \in 1..Len(batch) : f[n] = Grown(batch, s, n, f[n - 1])
               /\ HotGroup(batch, s) = f[Len(batch)]
  BY HotGroupDef
<1>2. NoRow \notin HotRow
  BY HotMergeAssumption
<1> DEFINE S == {n \in Nat : n <= Len(batch) => Spans(batch, s, n, f[n])}
<1>3. 0 \in S
  BY <1>1 DEF Spans
<1>4. ASSUME NEW n \in Nat, n \in S PROVE n + 1 \in S
  <2>1. SUFFICES ASSUME n + 1 <= Len(batch) PROVE Spans(batch, s, n + 1, f[n + 1])
    OBVIOUS
  <2>2. Spans(batch, s, n, f[n])
    BY <1>4, <2>1
  <2>3. f[n + 1] = Grown(batch, s, n + 1, f[n])
    BY <1>1, <2>1
  <2>4. \A i \in 1..(n + 1) : batch[i] \in EventRow
    BY <2>1
  <2>5. \A i \in 1..(n + 1) : batch[i].ts \in Nat
    BY <2>4, RowTimes
  <2>5a. batch[n + 1] \in EventRow
    BY <2>4
  <2>6. CASE batch[n + 1].sku # s
    BY <2>2, <2>3, <2>6 DEF Spans, Grown
  <2>7. CASE batch[n + 1].sku = s /\ f[n] = NoRow
    <3>1. \A i \in 1..n : batch[i].sku # s
      BY <2>2, <2>7, <1>2 DEF Spans
    <3>2. f[n + 1] = [at |-> batch[n + 1].ts, cols |-> batch[n + 1].contrib]
      BY <2>3, <2>7 DEF Grown
    <3>3. f[n + 1] \in HotRow /\ f[n + 1].at = batch[n + 1].ts /\ batch[n + 1].ts \in Nat
      BY <3>2, <2>5a, RowTimes
    <3>4. \A i \in 1..(n + 1) : batch[i].sku = s => i = n + 1
      BY <3>1
    <3>5. QED BY <3>3, <3>4, <2>7, n + 1 \in 1..(n + 1) DEF Spans
  <2>8. CASE batch[n + 1].sku = s /\ f[n] # NoRow
    <3>1. /\ f[n] \in HotRow
          /\ \A i \in 1..n : batch[i].sku = s => f[n].at >= batch[i].ts
          /\ \E i \in 1..n : batch[i].sku = s /\ f[n].at = batch[i].ts
      BY <2>2, <2>8 DEF Spans
    <3>2. f[n + 1] = JoinGroup(f[n], batch[n + 1])
      BY <2>3, <2>8 DEF Grown
    <3>3. /\ f[n + 1] \in HotRow /\ f[n + 1].at >= f[n].at /\ f[n + 1].at >= batch[n + 1].ts
          /\ f[n + 1].at \in {f[n].at, batch[n + 1].ts}
      BY <3>1, <3>2, <2>5a, JoinType
    <3>4. f[n].at \in Nat /\ f[n + 1].at \in Nat
      BY <3>1, <3>3, RowTimes
    <3>5. \A i \in 1..(n + 1) : batch[i].sku = s => f[n + 1].at >= batch[i].ts
      <4>1. SUFFICES ASSUME NEW i \in 1..(n + 1), batch[i].sku = s PROVE f[n + 1].at >= batch[i].ts
        OBVIOUS
      <4>2. CASE i \in 1..n
        <5>1. f[n].at >= batch[i].ts /\ batch[i].ts \in Nat
          BY <3>1, <4>1, <4>2, <2>5
        <5>2. QED BY <5>1, <3>3, <3>4
      <4>3. CASE i = n + 1
        BY <3>3, <4>3
      <4>4. QED BY <4>2, <4>3
    <3>6. \E i \in 1..(n + 1) : batch[i].sku = s /\ f[n + 1].at = batch[i].ts
      BY <3>1, <3>3, <2>8
    <3>7. QED BY <3>3, <3>5, <3>6, <2>8 DEF Spans
  <2>9. QED BY <2>6, <2>7, <2>8
<1> HIDE DEF S
<1>5. \A n \in Nat : n \in S
  BY <1>3, <1>4, SetInduction
<1>6. QED BY <1>1, <1>5 DEF S

\* The group of a SKU of the batch is a hot row; its time is the latest of its rows'.
LEMMA GroupIsLatest ==
    ASSUME NEW batch \in Seq(EventRow), NEW s \in BatchSkus(batch)
    PROVE  /\ HotGroup(batch, s) \in HotRow
           /\ \A r \in RowsIn(batch) : r.sku = s => HotGroup(batch, s).at >= r.ts
           /\ \E r \in RowsIn(batch) : r.sku = s /\ HotGroup(batch, s).at = r.ts
<1>1. Spans(batch, s, Len(batch), HotGroup(batch, s))
  BY GroupSpans
<1>2. \E i \in 1..Len(batch) : batch[i].sku = s
  BY DEF BatchSkus, RowsIn
<1>3. QED BY <1>1, <1>2 DEF Spans, RowsIn

\* Unseen keeps exactly the rows that are not known.
LEMMA UnseenRows ==
    ASSUME NEW batch \in Seq(EventRow), NEW known
    PROVE  /\ Unseen(batch, known) \in Seq(EventRow)
           /\ Len(Unseen(batch, known)) <= Len(batch)
           /\ RowsIn(Unseen(batch, known)) = RowsIn(batch) \ known
<1> DEFINE N == Len(batch)
           V == Seq(EventRow)
           Longer(n, v) == IF batch[n] \in known THEN v ELSE Append(v, batch[n])
           IsKept(f) == f = [n \in 0..N |-> IF n = 0 THEN << >> ELSE Longer(n, f[n - 1])]
           step == [p \in (1..N) \X V |-> Longer(p[1], p[2])]
<1>1. N \in Nat /\ << >> \in V
  OBVIOUS
<1>2. ASSUME NEW n \in 1..N, NEW v \in V PROVE Longer(n, v) \in V
  OBVIOUS
<1>3. step \in [(1..N) \X V -> V]
  BY <1>2
<1>4. \A n \in 1..N, v \in V : step[<<n, v>>] = Longer(n, v)
  OBVIOUS
<1> HIDE DEF step
<1>5. PICK f \in [0..N -> V] : Follows(f, << >>, N, step)
  <2> HIDE DEF V, N
  <2>1. QED BY <1>1, <1>3, RecursionExists
<1>6. ASSUME NEW n \in 0..N PROVE f[n] = IF n = 0 THEN << >> ELSE Longer(n, f[n - 1])
  <2>1. n # 0 => n \in 1..N /\ f[n - 1] \in V
    OBVIOUS
  <2> HIDE DEF V, N, Longer
  <2>2. QED BY <1>4, <1>5, <2>1 DEF Follows
<1>7. \E g : IsKept(g)
  <2>1. f = [n \in 0..N |-> f[n]]
    OBVIOUS
  <2> HIDE DEF Longer
  <2>2. IsKept(f)
    BY <1>6, <2>1, Zenon
  <2>3. QED BY <2>2
<1> DEFINE g == CHOOSE g : IsKept(g)
<1>8. IsKept(g)
  BY <1>7
<1>9. Unseen(batch, known) = g[N]
  BY DEF Unseen
<1> HIDE DEF g
<1>10. g[0] = << >> /\ \A n \in 1..N : g[n] = Longer(n, g[n - 1])
  <2> HIDE DEF Longer
  <2>1. QED BY <1>8
<1> DEFINE Good(n) == /\ g[n] \in V
                      /\ Len(g[n]) <= n
                      /\ RowsIn(g[n]) = {batch[i] : i \in 1..n} \ known
           S == {n \in Nat : n <= N => Good(n)}
<1>11. 0 \in S
  <2>1. RowsIn(<< >>) = {} /\ {batch[i] : i \in 1..0} = {}
    BY DEF RowsIn
  <2>2. g[0] \in V /\ Len(g[0]) = 0
    BY <1>10
  <2>3. Good(0)
    BY <1>10, <2>1, <2>2
  <2>4. QED BY <2>3
<1>12. ASSUME NEW n \in Nat, n \in S PROVE n + 1 \in S
  <2>1. SUFFICES ASSUME n + 1 <= N PROVE Good(n + 1)
    OBVIOUS
  <2>2. g[n] \in V /\ Len(g[n]) <= n /\ RowsIn(g[n]) = {batch[i] : i \in 1..n} \ known
    BY <1>12, <2>1
  <2>3. g[n + 1] = Longer(n + 1, g[n]) /\ batch[n + 1] \in EventRow
    BY <1>10, <2>1
  <2>4. {batch[i] : i \in 1..(n + 1)} = {batch[i] : i \in 1..n} \cup {batch[n + 1]}
    BY <2>1
  <2>5. CASE batch[n + 1] \in known
    BY <2>2, <2>3, <2>4, <2>5
  <2>6. CASE batch[n + 1] \notin known
    <3>1. g[n + 1] = Append(g[n], batch[n + 1])
      BY <2>3, <2>6
    <3>2. RowsIn(Append(g[n], batch[n + 1])) = RowsIn(g[n]) \cup {batch[n + 1]}
      BY <2>2, <2>3 DEF RowsIn
    <3>3. g[n + 1] \in V /\ Len(g[n + 1]) <= n + 1
      BY <3>1, <2>2, <2>3
    <3>4. QED BY <3>1, <3>2, <3>3, <2>2, <2>4, <2>6
  <2>7. QED BY <2>5, <2>6
<1> HIDE DEF S
<1>13. \A n \in Nat : n \in S
  BY <1>11, <1>12, SetInduction
<1>14. Good(N)
  BY <1>13 DEF S
<1>15. RowsIn(batch) = {batch[i] : i \in 1..N}
  BY DEF RowsIn
<1>16. QED BY <1>9, <1>14, <1>15

LEMMA BatchRows ==
    ASSUME NEW c \in Chunks, NEW i \in 1..BatchCount(c)
    PROVE  /\ Batch(c, i) \in Seq(EventRow)
           /\ RowsIn(Batch(c, i)) \subseteq RowsIn(EventRows[c])
<1> DEFINE rows  == EventRows[c]
           first == (i - 1) * BatchSize + 1
           last  == IF i * BatchSize < Len(rows) THEN i * BatchSize ELSE Len(rows)
<1>1. rows \in Seq(EventRow) /\ Len(rows) \in Nat
  BY HotMergeAssumption
<1>2. i \in Nat /\ i - 1 \in Nat /\ BatchSize \in Nat
  BY HotMergeAssumption
<1>3. (i - 1) * BatchSize \in Nat /\ i * BatchSize \in Nat
  BY <1>2
<1>4. first \in Nat /\ first >= 1 /\ last \in Nat /\ last <= Len(rows)
  BY <1>1, <1>3
<1>5. Batch(c, i) = SubSeq(rows, first, last)
  BY DEF Batch
<1> HIDE DEF first, last, rows
<1>6. \A n \in first..last : n \in 1..Len(rows) /\ rows[n] \in EventRow
  BY <1>1, <1>4
<1>7. SubSeq(rows, first, last) \in Seq(EventRow)
  BY <1>1, <1>4, <1>6
<1>8. RowsIn(SubSeq(rows, first, last)) \subseteq RowsIn(rows)
  <2>1. SUFFICES ASSUME NEW n \in 1..Len(SubSeq(rows, first, last))
                 PROVE  SubSeq(rows, first, last)[n] \in RowsIn(rows)
    BY <1>7 DEF RowsIn
  <2>2. SubSeq(rows, first, last)[n] = rows[first + n - 1] /\ first + n - 1 \in first..last
    BY <1>1, <1>4, <2>1
  <2>3. QED BY <1>1, <1>6, <2>2 DEF RowsIn
<1>9. QED BY <1>5, <1>7, <1>8 DEF rows

LEMMA DivBounds ==
    ASSUME NEW a \in Nat, NEW b \in Nat \ {0}
    PROVE  a \div b \in Nat /\ b * (a \div b) <= a /\ a < b * (a \div b) + b
OBVIOUS

LEMMA TimesMonotone ==
    ASSUME NEW b \in Nat, NEW x \in Nat, NEW y \in Nat, x <= y
    PROVE  b * x <= b * y
OBVIOUS

\* Every row of a chunk is in one of its batches.
LEMMA BatchesCover ==
    ASSUME NEW c \in Chunks, NEW r \in RowsIn(EventRows[c])
    PROVE  \E i \in 1..BatchCount(c) : r \in RowsIn(Batch(c, i))
<1> DEFINE L == Len(EventRows[c])
           d == (L + BatchSize - 1) \div BatchSize
<1>1. EventRows[c] \in Seq(EventRow) /\ L \in Nat /\ BatchSize \in Nat \ {0}
  BY HotMergeAssumption
<1>2. PICK k \in 1..L : r = EventRows[c][k]
  BY <1>1 DEF RowsIn
<1> DEFINE q == (k - 1) \div BatchSize
<1>3. q \in Nat /\ BatchSize * q <= k - 1 /\ k - 1 < BatchSize * q + BatchSize
  BY <1>1, k - 1 \in Nat, DivBounds
<1>4. d \in Nat /\ BatchSize * d <= L + BatchSize - 1 /\ L + BatchSize - 1 < BatchSize * d + BatchSize
  BY <1>1, L + BatchSize - 1 \in Nat, DivBounds
<1> HIDE DEF q, d, L
<1>5. q + 1 <= d
  <2>1. SUFFICES ASSUME d <= q PROVE FALSE
    BY <1>3, <1>4
  <2>2. BatchSize * d <= BatchSize * q
    BY <1>1, <1>3, <1>4, <2>1, TimesMonotone
  <2>3. BatchSize * d \in Nat /\ BatchSize * q \in Nat
    BY <1>1, <1>3, <1>4
  <2>4. QED BY <1>1, <1>2, <1>3, <1>4, <2>2, <2>3
<1>6. q + 1 \in 1..BatchCount(c)
  BY <1>3, <1>4, <1>5 DEF BatchCount, d, L
<1> DEFINE first == q * BatchSize + 1
           last  == IF (q + 1) * BatchSize < L THEN (q + 1) * BatchSize ELSE L
<1>7. q * BatchSize = BatchSize * q /\ (q + 1) * BatchSize = BatchSize * q + BatchSize
      /\ BatchSize * q \in Nat
  BY <1>1, <1>3
<1>8. first \in Nat /\ last \in Nat /\ first >= 1 /\ last <= L /\ k \in first..last
  BY <1>1, <1>2, <1>3, <1>7
<1>9. Batch(c, q + 1) = SubSeq(EventRows[c], first, last)
  <2>1. ((q + 1) - 1) * BatchSize + 1 = first
    BY <1>3
  <2>2. QED BY <2>1 DEF Batch, L
<1> HIDE DEF first, last
<1>10. SubSeq(EventRows[c], first, last) \in Seq(EventRow)
  BY <1>6, <1>9, BatchRows
<1>11. k - first + 1 \in 1..Len(SubSeq(EventRows[c], first, last))
  BY <1>1, <1>8 DEF L
<1>12. SubSeq(EventRows[c], first, last)[k - first + 1] = EventRows[c][k]
  BY <1>1, <1>8 DEF L
<1>13. r \in RowsIn(Batch(c, q + 1))
  <2>1. k - first + 1 \in DOMAIN SubSeq(EventRows[c], first, last)
    BY <1>10, <1>11
  <2>2. QED BY <2>1, <1>2, <1>9, <1>12, Zenon DEF RowsIn
<1>14. QED BY <1>6, <1>13

LEMMA ChunkRows ==
    ASSUME NEW c \in Chunks
    PROVE  RowsIn(EventRows[c]) \subseteq EventRow
<1>1. EventRows[c] \in Seq(EventRow)
  BY HotMergeAssumption
<1>2. QED BY <1>1 DEF RowsIn

LEMMA FirstBatch ==
    ASSUME NEW c \in Chunks
    PROVE  BatchCount(c) \in Nat /\ (Len(EventRows[c]) > 0 => BatchCount(c) >= 1)
<1> DEFINE L == Len(EventRows[c])
           d == (L + BatchSize - 1) \div BatchSize
<1>1. L \in Nat /\ BatchSize \in Nat \ {0} /\ L + BatchSize - 1 \in Nat
  BY HotMergeAssumption
<1>2. d \in Nat /\ L + BatchSize - 1 < BatchSize * d + BatchSize
  BY <1>1, DivBounds
<1>3. BatchCount(c) = d
  BY DEF BatchCount
<1> HIDE DEF d, L
<1>4. d = 0 => BatchSize * d = 0
  BY <1>1
<1>5. L > 0 => d >= 1
  BY <1>1, <1>2, <1>4
<1>6. QED BY <1>2, <1>3, <1>5 DEF L

-----------------------------------------------------------------------------
(***************************************************************************)
(* The inductive invariant.  A commit makes a whole batch visible, so what *)
(* the log and the hot table promise must already hold of what each open   *)
(* transaction is about to commit, and must survive the commits of others. *)
(***************************************************************************)

Open(w) == pc[w] \in {"write", "exists"}

\* An open transaction works on the rows and SKUs of its batch.
ShapeInv ==
    \A w \in Writers :
        /\ pc[w] = "exists" => groups[w] # {} /\ todo[w] = << >> /\ job[w] \notin Catalogue
        /\ Open(w) => /\ groups[w] \subseteq BatchSkus(CurrentBatch(w))
                      /\ DOMAIN held[w] \subseteq BatchSkus(CurrentBatch(w))
                      /\ Len(todo[w]) <= Len(CurrentBatch(w))
                      /\ RowsIn(todo[w]) \subseteq RowsIn(CurrentBatch(w))
                      /\ job[w] \in Catalogue => todo[w] = << >>

\* Every row of the batch is in the table, inserted, or still to be sent.
RowInv ==
    \A w \in Writers : Open(w) =>
        /\ \A e \in pend[w] : e.row \in RowsIn(CurrentBatch(w)) /\ job[w] \notin Catalogue
        /\ job[w] \notin Catalogue =>
             \A r \in RowsIn(CurrentBatch(w)) :
                 r \in RowsIn(todo[w]) \/ InTable(r, log) \/ InTable(r, pend[w])

\* The unique index, over committed and uncommitted rows.
UniqueInv ==
    /\ NoRepeatedRow
    /\ \A w \in Writers : \A e \in pend[w] :
          /\ ~InTable(e.row, log)
          /\ \A f \in pend[w] : e.row = f.row => e = f
    /\ \A v, w \in Writers : v # w => \A e \in pend[v], f \in pend[w] : e.row # f.row

\* A hot row is locked by one transaction at a time.
LockInv ==
    \A v, w \in Writers : v # w => DOMAIN held[v] \cap DOMAIN held[w] = {}

\* The content a transaction holds for a hot row is still the merge of its group into
\* the committed row: nobody changed that row since.
MergeInv ==
    \A w \in Writers : \A s \in DOMAIN held[w] :
        /\ held[w][s] = DW!Merged(job[w], s, HotGroup(CurrentBatch(w), s))
        /\ job[w] \notin Catalogue => hot[s] # NoRow

IInv == TypeOK /\ ShapeInv /\ RowInv /\ UniqueInv /\ LockInv /\ MergeInv

LEMMA InitInv == Init => IInv
<1> SUFFICES ASSUME Init PROVE IInv
  OBVIOUS
<1>1. InitialHot \in [Skus -> HotRow \cup {NoRow}]
  <2>1. << >> \in Contributions
    <3>1. << >> \in [{} -> Values]
      OBVIOUS
    <3>2. QED BY <3>1 DEF Contributions
  <2>2. [at |-> 0, cols |-> << >>] \in HotRow
    BY <2>1, HotMergeAssumption DEF HotRow
  <2>3. QED BY <2>2 DEF InitialHot
<1>2. \A w \in Writers : NothingOpen(w)
  BY DEF Init, NothingOpen
<1>3. TypeOK
  <2>1. << >> \in [{} -> HotRow] /\ DOMAIN << >> = {}
    OBVIOUS
  <2>2. QED BY <1>1, <1>2, <2>1, CanonicalSinkAssumption DEF Init, TypeOK
<1>4. ShapeInv /\ RowInv /\ UniqueInv /\ LockInv /\ MergeInv
  <2>1. \A w \in Writers : ~Open(w) /\ pend[w] = {} /\ DOMAIN held[w] = {} /\ pc[w] # "exists"
    BY DEF Init, Open
  <2>2. log = {}
    BY DEF Init
  <2>3. QED BY <2>1, <2>2 DEF ShapeInv, RowInv, UniqueInv, LockInv, MergeInv, NoRepeatedRow
<1>5. QED BY <1>3, <1>4 DEF IInv

\* What an open transaction knows about its batch.
LEMMA OpenBatch ==
    ASSUME TypeOK, NEW w \in Writers, pc[w] # "idle"
    PROVE  /\ job[w] \in Chunks /\ part[w] \in 1..BatchCount(job[w])
           /\ CurrentBatch(w) \in Seq(EventRow)
           /\ RowsIn(CurrentBatch(w)) \subseteq RowsIn(EventRows[job[w]])
           /\ RowsIn(CurrentBatch(w)) \subseteq EventRow
           /\ BatchSkus(CurrentBatch(w)) \subseteq Skus
<1>1. job[w] \in Chunks /\ part[w] \in 1..BatchCount(job[w])
  BY DEF TypeOK
<1>2. CurrentBatch(w) \in Seq(EventRow) /\ RowsIn(CurrentBatch(w)) \subseteq RowsIn(EventRows[job[w]])
  BY <1>1, BatchRows DEF CurrentBatch
<1>3. RowsIn(CurrentBatch(w)) \subseteq EventRow
  BY <1>2 DEF RowsIn
<1>4. BatchSkus(CurrentBatch(w)) \subseteq Skus
  BY <1>3 DEF BatchSkus, EventRow
<1>5. QED BY <1>1, <1>2, <1>3, <1>4

LEMMA NextSkuLeft ==
    ASSUME TypeOK, NEW w \in Writers, groups[w] # {}
    PROVE  NextSku(w) \in groups[w] /\ NextSku(w) \in Skus
<1>1. groups[w] \in SUBSET Nat /\ groups[w] \subseteq Skus
  BY HotMergeAssumption DEF TypeOK
<1>2. \E x \in groups[w] : \A y \in groups[w] : x <= y
  BY <1>1, LeastElement
<1>3. QED BY <1>1, <1>2 DEF NextSku

-----------------------------------------------------------------------------
(* One lemma per action. *)

LEMMA StartStep ==
    ASSUME IInv, NEW w \in Writers, NEW c \in Chunks, StartChunk(w, c)
    PROVE  IInv'
<1> USE DEF IInv, StartChunk, txnVars
<1>1. BatchCount(c) \in Nat /\ BatchCount(c) >= 1
  BY FirstBatch
<1>2. TypeOK'
  BY <1>1 DEF TypeOK, NothingOpen
<1>3. \A v \in Writers : /\ Open(v)' <=> Open(v)
                         /\ Open(v) => v # w /\ CurrentBatch(v)' = CurrentBatch(v)
                         /\ pc'[v] = "exists" <=> pc[v] = "exists"
                         /\ pend'[v] # {} \/ DOMAIN held'[v] # {} => v # w
  BY DEF Open, CurrentBatch, TypeOK, NothingOpen
<1>4. ShapeInv'
  BY <1>3 DEF ShapeInv, TypeOK
<1>5. RowInv'
  BY <1>3 DEF RowInv, TypeOK
<1>6. UniqueInv'
  BY DEF UniqueInv, NoRepeatedRow, InTable
<1>7. LockInv'
  BY DEF LockInv
<1>8. MergeInv'
  BY <1>3 DEF MergeInv, TypeOK, DW!Merged, CurrentBatch
<1>9. QED BY <1>2, <1>4, <1>5, <1>6, <1>7, <1>8

LEMMA DetectStep ==
    ASSUME IInv, NEW w \in Writers, DetectDuplicates(w)
    PROVE  IInv'
<1> DEFINE known == {r \in RowsIn(CurrentBatch(w)) : DuplicateNoop(r)}
           fresh == IF job[w] \in Catalogue THEN << >> ELSE Unseen(CurrentBatch(w), known)
<1> USE DEF IInv
<1>1. pc[w] = "detect" /\ NothingOpen(w)
  BY DEF DetectDuplicates, TypeOK
<1>2. /\ job[w] \in Chunks
      /\ CurrentBatch(w) \in Seq(EventRow)
      /\ RowsIn(CurrentBatch(w)) \subseteq EventRow
      /\ BatchSkus(CurrentBatch(w)) \subseteq Skus
  BY <1>1, OpenBatch
<1>3. /\ fresh \in Seq(EventRow)
      /\ Len(fresh) <= Len(CurrentBatch(w))
      /\ RowsIn(fresh) \subseteq RowsIn(CurrentBatch(w))
      /\ job[w] \in Catalogue => fresh = << >>
      /\ job[w] \notin Catalogue =>
           \A r \in RowsIn(CurrentBatch(w)) : r \in RowsIn(fresh) \/ InTable(r, log)
  <2>1. CASE job[w] \in Catalogue
    <3>1. RowsIn(<< >>) = {} /\ Len(CurrentBatch(w)) \in Nat
      BY <1>2 DEF RowsIn
    <3>2. QED BY <2>1, <3>1
  <2>2. CASE job[w] \notin Catalogue
    <3>1. \A r \in known : InTable(r, log)
      BY DEF DuplicateNoop, InTable
    <3> HIDE DEF known
    <3>2. QED BY <2>2, <1>2, <3>1, UnseenRows
  <2>3. QED BY <2>1, <2>2
<1>4. /\ todo' = [todo EXCEPT ![w] = fresh]
      /\ groups' = [groups EXCEPT ![w] = BatchSkus(CurrentBatch(w))]
      /\ pc' = [pc EXCEPT ![w] = "write"]
      /\ txns < MaxTxns /\ txns' = txns + 1 /\ begun' = [begun EXCEPT ![w] = txns']
      /\ UNCHANGED <<log, hot, done, job, part, pend, held, missed>>
  BY DEF DetectDuplicates
<1> HIDE DEF fresh
<1>5. TypeOK'
  <2>1. txns' \in 0..MaxTxns
    BY <1>4, CanonicalSinkAssumption DEF TypeOK
  <2>2. QED BY <1>1, <1>2, <1>3, <1>4, <2>1 DEF TypeOK, NothingOpen
<1>6. \A v \in Writers : CurrentBatch(v)' = CurrentBatch(v)
  BY <1>4 DEF CurrentBatch
<1>7. \A v \in Writers \ {w} : (Open(v)' <=> Open(v)) /\ pc'[v] = pc[v] /\ todo'[v] = todo[v] /\ groups'[v] = groups[v]
  BY <1>4 DEF Open, TypeOK
<1>8. pc'[w] = "write" /\ todo'[w] = fresh /\ groups'[w] = BatchSkus(CurrentBatch(w))
      /\ pend[w] = {} /\ held[w] = << >>
  BY <1>1, <1>4 DEF TypeOK, NothingOpen
<1>9. ShapeInv'
  <2>1. DOMAIN held[w] = {}
    BY <1>8
  <2>2. SUFFICES ASSUME NEW v \in Writers PROVE ShapeInv!(v)'
    BY DEF ShapeInv
  <2>3. CASE v = w
    BY <2>1, <2>3, <1>3, <1>4, <1>6, <1>8 DEF Open
  <2>4. CASE v # w
    BY <2>4, <1>4, <1>6, <1>7 DEF ShapeInv, Open
  <2>5. QED BY <2>3, <2>4
<1>10. RowInv'
  BY <1>3, <1>4, <1>6, <1>7, <1>8 DEF RowInv, InTable
<1>11. UniqueInv'
  BY <1>4 DEF UniqueInv, NoRepeatedRow, InTable
<1>12. LockInv'
  BY <1>4 DEF LockInv
<1>13. MergeInv'
  BY <1>4, <1>6 DEF MergeInv, DW!Merged
<1>14. QED BY <1>5, <1>9, <1>10, <1>11, <1>12, <1>13

LEMMA InsertStep ==
    ASSUME IInv, NEW w \in Writers, InsertEvent(w)
    PROVE  IInv'
<1> DEFINE r == Head(todo[w])
           e == [row |-> r, last_updated_at |-> begun[w], id |-> Len(CurrentBatch(w)) - Len(todo[w])]
           pended == IF InTable(r, log \cup pend[w]) THEN pend[w] ELSE pend[w] \cup {e}
<1> USE DEF IInv
<1>1. /\ pc[w] = "write" /\ todo[w] # << >> /\ ~Conflicts(w, r)
      /\ pend' = [pend EXCEPT ![w] = pended]
      /\ todo' = [todo EXCEPT ![w] = Tail(todo[w])]
      /\ UNCHANGED <<log, hot, done, txns, pc, job, part, begun, groups, held, missed>>
  BY DEF InsertEvent
<1>2. /\ job[w] \in Chunks
      /\ CurrentBatch(w) \in Seq(EventRow)
      /\ RowsIn(CurrentBatch(w)) \subseteq EventRow
  BY <1>1, OpenBatch
<1>3. todo[w] \in Seq(EventRow) /\ Len(todo[w]) <= Len(CurrentBatch(w))
      /\ RowsIn(todo[w]) \subseteq RowsIn(CurrentBatch(w)) /\ job[w] \notin Catalogue
  BY <1>1 DEF TypeOK, ShapeInv, Open
<1>4. /\ r \in EventRow /\ r \in RowsIn(CurrentBatch(w))
      /\ Tail(todo[w]) \in Seq(EventRow) /\ Len(Tail(todo[w])) <= Len(CurrentBatch(w))
      /\ RowsIn(todo[w]) = {r} \cup RowsIn(Tail(todo[w]))
  <2>1. Len(todo[w]) >= 1 /\ Len(todo[w]) \in Nat /\ r = todo[w][1]
    BY <1>1, <1>3
  <2>2. r \in RowsIn(todo[w])
    BY <2>1, <1>3 DEF RowsIn
  <2>3. Tail(todo[w]) \in Seq(EventRow) /\ Len(Tail(todo[w])) = Len(todo[w]) - 1
        /\ \A n \in 1..(Len(todo[w]) - 1) : Tail(todo[w])[n] = todo[w][n + 1]
    BY <1>1, <1>3
  <2>4. RowsIn(todo[w]) = {r} \cup RowsIn(Tail(todo[w]))
    <3>1. RowsIn(Tail(todo[w])) \subseteq RowsIn(todo[w])
      BY <2>1, <2>3, <1>3 DEF RowsIn
    <3>2. ASSUME NEW n \in 1..Len(todo[w]), n # 1 PROVE todo[w][n] \in RowsIn(Tail(todo[w]))
      <4>1. n - 1 \in 1..(Len(todo[w]) - 1) /\ Tail(todo[w])[n - 1] = todo[w][n]
        BY <2>1, <2>3, <3>2
      <4>2. n - 1 \in DOMAIN Tail(todo[w])
        BY <4>1, <2>3
      <4>3. QED BY <4>1, <4>2, Zenon DEF RowsIn
    <3>3. RowsIn(todo[w]) \subseteq {r} \cup RowsIn(Tail(todo[w]))
      BY <2>1, <3>2, <1>3 DEF RowsIn
    <3>4. QED BY <2>2, <3>1, <3>3
  <2>5. QED BY <2>1, <2>2, <2>3, <2>4, <1>2, <1>3
<1>5. e \in Entry /\ e.row = r
  BY <1>2, <1>3, <1>4, CanonicalSinkAssumption DEF Entry, TypeOK
<1> HIDE DEF r, e
<1>6. pended \in SUBSET Entry
  BY <1>5 DEF TypeOK
<1>7. InTable(r, log) \/ InTable(r, pended)
  BY <1>5 DEF InTable
<1> DEFINE Fresh == ~InTable(r, log) /\ ~InTable(r, pend[w])
<1>8. pended = pend[w] \/ (Fresh /\ pended = pend[w] \cup {e})
  BY DEF InTable
<1>9. \A v \in Writers \ {w} : \A f \in pend[v] : f.row # r
  BY <1>1 DEF Conflicts, InTable
<1> HIDE DEF pended
<1>10. TypeOK'
  BY <1>1, <1>4, <1>6 DEF TypeOK, NothingOpen
<1>11. \A v \in Writers : CurrentBatch(v)' = CurrentBatch(v) /\ (Open(v)' <=> Open(v))
  BY <1>1 DEF CurrentBatch, Open
<1>12. pend'[w] = pended /\ todo'[w] = Tail(todo[w])
       /\ \A v \in Writers \ {w} : pend'[v] = pend[v] /\ todo'[v] = todo[v]
  BY <1>1 DEF TypeOK
<1>13. ShapeInv'
  BY <1>1, <1>3, <1>4, <1>11, <1>12 DEF ShapeInv
<1>14. RowInv'
  <2>1. SUFFICES ASSUME NEW v \in Writers, Open(v) PROVE RowInv!(v)!2'
    BY <1>11 DEF RowInv
  <2>2. CASE v # w
    BY <2>1, <2>2, <1>1, <1>11, <1>12 DEF RowInv, InTable
  <2>3. CASE v = w
    BY <2>1, <2>3, <1>1, <1>3, <1>4, <1>5, <1>7, <1>8, <1>11, <1>12 DEF RowInv, InTable
  <2>4. QED BY <2>2, <2>3
<1>15. UniqueInv'
  BY <1>1, <1>5, <1>8, <1>9, <1>12 DEF UniqueInv, NoRepeatedRow, InTable
<1>16. LockInv'
  BY <1>1 DEF LockInv
<1>17. MergeInv'
  BY <1>1, <1>11 DEF MergeInv, DW!Merged
<1>18. QED BY <1>10, <1>13, <1>14, <1>15, <1>16, <1>17

\* The merge of a group of the batch into a committed row is a hot row that is not
\* behind either.
LEMMA MergedRow ==
    ASSUME TypeOK, NEW w \in Writers, pc[w] # "idle",
           NEW s \in BatchSkus(CurrentBatch(w)), hot[s] # NoRow \/ job[w] \in Catalogue
    PROVE  LET g == HotGroup(CurrentBatch(w), s)
               m == DW!Merged(job[w], s, g)
           IN  /\ m \in HotRow
               /\ m.at >= g.at
               /\ hot[s] # NoRow => m.at >= hot[s].at
               /\ m.at = g.at \/ (hot[s] # NoRow /\ m.at = hot[s].at)
<1> DEFINE g == HotGroup(CurrentBatch(w), s)
<1>1. s \in Skus /\ CurrentBatch(w) \in Seq(EventRow)
  BY OpenBatch
<1>2. g \in HotRow /\ g.at \in Nat
  BY <1>1, GroupIsLatest, RowTimes
<1> HIDE DEF g
<1>3. hot[s] = NoRow \/ (hot[s] \in HotRow /\ hot[s].at \in Nat)
  BY <1>1, RowTimes DEF TypeOK
<1>4. CASE hot[s] = NoRow
  BY <1>2, <1>4 DEF DW!Merged, g
<1>5. CASE hot[s] # NoRow
  <2>1. Updated(hot[s], g) \in HotRow /\ Updated(hot[s], g).at = g.at
    BY <1>2, <1>3, <1>5, UpdatedType
  <2>2. DW!Merged(job[w], s, g) = IF g.at >= hot[s].at THEN Updated(hot[s], g) ELSE hot[s]
    BY <1>5 DEF DW!Merged, NotOlder, DW!NotOlder, Updated, DW!Updated, Over, DW!Over
  <2>3. QED BY <1>2, <1>3, <1>5, <2>1, <2>2 DEF g
<1>6. QED BY <1>4, <1>5

\* A statement that locks the next hot row and holds its merged content.
LEMMA HoldStep ==
    ASSUME IInv, NEW w \in Writers, MergeNext(w), ~LockedByOther(w, NextSku(w)),
           hot[NextSku(w)] # NoRow \/ job[w] \in Catalogue,
           Write(w, NextSku(w), DW!Merged(job[w], NextSku(w), Group(w))),
           groups' = [groups EXCEPT ![w] = @ \ {NextSku(w)}],
           UNCHANGED <<log, hot, done, txns, pc, job, part, begun, todo, pend, missed>>
    PROVE  IInv'
<1> DEFINE s == NextSku(w)
           m == DW!Merged(job[w], s, Group(w))
           mine == Over([x \in {s} |-> m], held[w])
<1> USE DEF IInv
<1>1. pc[w] = "write" /\ Open(w) /\ s \in groups[w] /\ s \in Skus
  BY NextSkuLeft DEF MergeNext, Open
<1>2. s \in BatchSkus(CurrentBatch(w)) /\ m \in HotRow
  BY <1>1, MergedRow DEF ShapeInv, Group
<1>3. held' = [held EXCEPT ![w] = mine]
  BY DEF Write
<1>4. /\ DOMAIN mine = {s} \cup DOMAIN held[w]
      /\ mine[s] = m
      /\ \A x \in DOMAIN held[w] \ {s} : mine[x] = held[w][x]
      /\ mine \in [DOMAIN mine -> HotRow]
  BY <1>2 DEF Over, TypeOK
<1> HIDE DEF m, s, mine
<1>5. held'[w] = mine /\ (\A v \in Writers \ {w} : held'[v] = held[v]) /\ groups'[w] = groups[w] \ {s}
      /\ \A v \in Writers \ {w} : groups'[v] = groups[v]
  BY <1>3 DEF TypeOK, s
<1>6. TypeOK'
  BY <1>1, <1>3, <1>4, <1>5 DEF TypeOK, NothingOpen
<1>7. \A v \in Writers : CurrentBatch(v)' = CurrentBatch(v) /\ (Open(v)' <=> Open(v))
  BY DEF CurrentBatch, Open
<1>8. ShapeInv'
  <2>1. SUFFICES ASSUME NEW v \in Writers PROVE ShapeInv!(v)'
    BY DEF ShapeInv
  <2>2. CASE v # w
    BY <2>2, <1>5, <1>7 DEF ShapeInv
  <2>3. CASE v = w
    BY <2>3, <1>1, <1>2, <1>4, <1>5, <1>7 DEF ShapeInv
  <2>4. QED BY <2>2, <2>3
<1>9. RowInv'
  BY <1>7 DEF RowInv, InTable
<1>10. UniqueInv'
  BY DEF UniqueInv, NoRepeatedRow, InTable
<1>11. LockInv'
  <2>1. \A v \in Writers \ {w} : s \notin DOMAIN held[v]
    BY DEF LockedByOther, s
  <2>2. QED BY <2>1, <1>4, <1>5 DEF LockInv
<1>12. MergeInv'
  <2>1. SUFFICES ASSUME NEW v \in Writers, NEW x \in DOMAIN held'[v]
                 PROVE  /\ held'[v][x] = DW!Merged(job[v], x, HotGroup(CurrentBatch(v), x))
                        /\ job[v] \notin Catalogue => hot[x] # NoRow
    BY <1>7 DEF MergeInv, DW!Merged
  <2>2. CASE v = w /\ x = s
    BY <2>2, <1>4, <1>5 DEF m, s, Group
  <2>3. CASE x \in DOMAIN held[v] /\ held'[v][x] = held[v][x]
    BY <2>3 DEF MergeInv
  <2>4. QED BY <2>1, <2>2, <2>3, <1>4, <1>5
<1>13. QED BY <1>6, <1>8, <1>9, <1>10, <1>11, <1>12

LEMMA UpdateStep ==
    ASSUME IInv, NEW w \in Writers, UpdateHot(w)
    PROVE  IInv'
<1>1. Updated(hot[NextSku(w)], Group(w)) = DW!Merged(job[w], NextSku(w), Group(w))
  BY DEF UpdateHot, Matches, DW!Merged, NotOlder, DW!NotOlder, Updated, DW!Updated, Over, DW!Over
<1>2. QED BY <1>1, HoldStep DEF UpdateHot, Matches

LEMMA UpsertStep ==
    ASSUME IInv, NEW w \in Writers, UpsertHot(w)
    PROVE  IInv'
<1> DEFINE row == IF hot[NextSku(w)] = NoRow THEN Group(w)
                  ELSE IF Matches(w) THEN Updated(hot[NextSku(w)], Group(w))
                  ELSE hot[NextSku(w)]
<1>1. row = DW!Merged(job[w], NextSku(w), Group(w))
  BY DEF UpsertHot, Matches, DW!Merged, NotOlder, DW!NotOlder, Updated, DW!Updated, Over, DW!Over
<1>2. Write(w, NextSku(w), row)
  BY DEF UpsertHot
<1> HIDE DEF row
<1>3. QED BY <1>1, <1>2, HoldStep DEF UpsertHot

\* A statement that found no row to update, and the existence check after it.
LEMMA LookStep ==
    ASSUME IInv, NEW w \in Writers, UpdateMatchesNothing(w) \/ CheckExists(w)
    PROVE  IInv'
<1> USE DEF IInv
<1>1. /\ pc[w] \in {"write", "exists"} /\ groups[w] # {} /\ job[w] \notin Catalogue
      /\ todo[w] = << >>
      /\ UNCHANGED <<log, hot, done, txns, job, part, begun, todo, pend, held>>
  BY DEF UpdateMatchesNothing, CheckExists, MergeNext, txnVars, ShapeInv
<1>2. NextSku(w) \in groups[w] /\ NextSku(w) \in Skus
  BY <1>1, NextSkuLeft
<1>3. /\ pc' \in [Writers -> {"idle", "detect", "write", "exists"}]
      /\ groups' \in [Writers -> SUBSET Skus] /\ missed' \in [Writers -> SUBSET Skus]
      /\ pc'[w] \in {"write", "exists"} /\ (pc'[w] = "exists" => groups'[w] # {})
      /\ groups'[w] \subseteq groups[w]
      /\ \A v \in Writers \ {w} : pc'[v] = pc[v] /\ groups'[v] = groups[v] /\ missed'[v] = missed[v]
  <2>1. CASE UpdateMatchesNothing(w)
    BY <2>1, <1>1 DEF UpdateMatchesNothing, txnVars, TypeOK
  <2>2. CASE CheckExists(w)
    <3>1. CountMiss(w) \in SUBSET Skus
      BY <1>2 DEF CountMiss, TypeOK
    <3>2. QED BY <2>2, <3>1 DEF CheckExists, TypeOK
  <2>3. QED BY <2>1, <2>2
<1>4. TypeOK'
  BY <1>1, <1>3 DEF TypeOK, NothingOpen
<1>5. \A v \in Writers : CurrentBatch(v)' = CurrentBatch(v) /\ (Open(v)' <=> Open(v))
  BY <1>1, <1>3 DEF CurrentBatch, Open
<1>6. ShapeInv'
  BY <1>1, <1>3, <1>5 DEF ShapeInv
<1>7. RowInv' /\ UniqueInv' /\ LockInv' /\ MergeInv'
  BY <1>1, <1>5 DEF RowInv, UniqueInv, LockInv, MergeInv, NoRepeatedRow, InTable, DW!Merged
<1>8. QED BY <1>4, <1>6, <1>7

\* A transaction that ends without a trace in the tables.
LEMMA AbortStep ==
    ASSUME IInv, NEW w \in Writers, Abort(w)
    PROVE  IInv'
<1> USE DEF IInv
<1>1. /\ pc' = [pc EXCEPT ![w] = "idle"] /\ job' = [job EXCEPT ![w] = None]
      /\ part' = [part EXCEPT ![w] = 0]
      /\ todo' = [todo EXCEPT ![w] = << >>] /\ groups' = [groups EXCEPT ![w] = {}]
      /\ pend' = [pend EXCEPT ![w] = {}] /\ held' = [held EXCEPT ![w] = << >>]
      /\ missed' = [missed EXCEPT ![w] = {}] /\ begun' = [begun EXCEPT ![w] = 0]
      /\ UNCHANGED <<log, hot, done, txns>>
  BY DEF Abort, EndTxn, Idle
<1>2. DOMAIN << >> = {} /\ << >> \in [{} -> HotRow]
  OBVIOUS
<1>3. TypeOK'
  BY <1>1, <1>2, CanonicalSinkAssumption DEF TypeOK, NothingOpen
<1>4. ~Open(w)' /\ pend'[w] = {} /\ DOMAIN held'[w] = {} /\ pc'[w] = "idle"
  BY <1>1, <1>2 DEF Open, TypeOK
<1>5. \A v \in Writers \ {w} :
         /\ CurrentBatch(v)' = CurrentBatch(v) /\ (Open(v)' <=> Open(v)) /\ pc'[v] = pc[v]
         /\ todo'[v] = todo[v] /\ groups'[v] = groups[v] /\ pend'[v] = pend[v]
         /\ held'[v] = held[v] /\ job'[v] = job[v]
  BY <1>1 DEF CurrentBatch, Open, TypeOK
<1>6. ShapeInv' /\ RowInv'
  BY <1>1, <1>4, <1>5 DEF ShapeInv, RowInv, InTable
<1>7. UniqueInv' /\ LockInv'
  BY <1>1, <1>4, <1>5 DEF UniqueInv, LockInv, NoRepeatedRow, InTable
<1>8. MergeInv'
  BY <1>1, <1>4, <1>5 DEF MergeInv, DW!Merged
<1>9. QED BY <1>3, <1>6, <1>7, <1>8

Commits(w) ==
    /\ BatchWritten(w) /\ CommitTables(w) /\ EndTxn(w)
    /\ \/ Idle(w)
       \/ /\ part[w] < BatchCount(job[w])
          /\ pc' = [pc EXCEPT ![w] = "detect"] /\ part' = [part EXCEPT ![w] = @ + 1] /\ job' = job
    /\ done' \in {done, done \cup {job[w]}}
    /\ txns' = txns

LEMMA CommitsAre ==
    ASSUME NEW w \in Writers, CommitBatch(w) \/ CommitRaises(w)
    PROVE  Commits(w)
BY DEF CommitBatch, CommitRaises, Commits, Idle

LEMMA CommitStep ==
    ASSUME IInv, NEW w \in Writers, Commits(w)
    PROVE  IInv'
<1> USE DEF IInv
<1>1. /\ pc[w] = "write" /\ Open(w) /\ todo[w] = << >> /\ groups[w] = {}
      /\ hot' = Committed(w) /\ log' = log \cup pend[w]
      /\ todo' = [todo EXCEPT ![w] = << >>] /\ groups' = [groups EXCEPT ![w] = {}]
      /\ pend' = [pend EXCEPT ![w] = {}] /\ held' = [held EXCEPT ![w] = << >>]
      /\ missed' = [missed EXCEPT ![w] = {}] /\ begun' = [begun EXCEPT ![w] = 0]
      /\ txns' = txns
  BY DEF Commits, BatchWritten, CommitTables, EndTxn, Open
<1>2. DOMAIN << >> = {} /\ << >> \in [{} -> HotRow]
  OBVIOUS
<1>3. job[w] \in Chunks /\ part[w] \in 1..BatchCount(job[w]) /\ BatchCount(job[w]) \in Nat
  BY <1>1, OpenBatch, FirstBatch
<1>4. /\ pc' \in [Writers -> {"idle", "detect", "write", "exists"}]
      /\ job' \in [Writers -> Chunks \cup {None}] /\ part' \in [Writers -> Nat]
      /\ pc'[w] \in {"idle", "detect"}
      /\ IF pc'[w] = "idle" THEN job'[w] = None /\ part'[w] = 0
                            ELSE job'[w] \in Chunks /\ part'[w] \in 1..BatchCount(job'[w])
      /\ \A v \in Writers \ {w} : pc'[v] = pc[v] /\ job'[v] = job[v] /\ part'[v] = part[v]
  <2>1. CASE Idle(w)
    BY <2>1 DEF Idle, TypeOK
  <2>2. CASE ~Idle(w)
    <3>1. /\ part[w] < BatchCount(job[w]) /\ job' = job
          /\ pc' = [pc EXCEPT ![w] = "detect"] /\ part' = [part EXCEPT ![w] = @ + 1]
      BY <2>2 DEF Commits
    <3>2. part[w] + 1 \in 1..BatchCount(job[w]) /\ part[w] + 1 \in Nat
      BY <1>3, <3>1
    <3>3. pc'[w] = "detect" /\ part'[w] = part[w] + 1
      BY <3>1 DEF TypeOK
    <3>4. QED BY <1>3, <3>1, <3>2, <3>3 DEF TypeOK
  <2>3. QED BY <2>1, <2>2
<1>5. /\ hot' \in [Skus -> HotRow \cup {NoRow}]
      /\ \A x \in Skus : hot'[x] = IF x \in DOMAIN held[w] THEN held[w][x] ELSE hot[x]
  BY <1>1 DEF Committed, TypeOK
<1>6. log' \subseteq Entry /\ done' \subseteq Chunks
  BY <1>1, <1>3 DEF Commits, TypeOK
<1>7. NothingOpen(w)'
  BY <1>1 DEF NothingOpen, TypeOK
<1>8. /\ ~Open(w)' /\ pend'[w] = {} /\ DOMAIN held'[w] = {} /\ pc'[w] # "exists"
      /\ \A v \in Writers \ {w} :
           /\ CurrentBatch(v)' = CurrentBatch(v) /\ (Open(v)' <=> Open(v)) /\ pc'[v] = pc[v]
           /\ todo'[v] = todo[v] /\ groups'[v] = groups[v] /\ pend'[v] = pend[v]
           /\ held'[v] = held[v] /\ job'[v] = job[v]
  BY <1>1, <1>2, <1>4 DEF CurrentBatch, Open, TypeOK
<1>9. TypeOK'
  <2>1. \A v \in Writers : pc'[v] \in {"idle", "detect"} => NothingOpen(v)'
    BY <1>1, <1>4, <1>7 DEF NothingOpen, TypeOK
  <2>2. \A v \in Writers : IF pc'[v] = "idle" THEN job'[v] = None /\ part'[v] = 0
                            ELSE job'[v] \in Chunks /\ part'[v] \in 1..BatchCount(job'[v])
    BY <1>4 DEF TypeOK
  <2>3. /\ txns' \in 0..MaxTxns /\ begun' \in [Writers -> 0..MaxTxns]
        /\ todo' \in [Writers -> Seq(EventRow)] /\ groups' \in [Writers -> SUBSET Skus]
        /\ pend' \in [Writers -> SUBSET Entry] /\ missed' \in [Writers -> SUBSET Skus]
    BY <1>1, CanonicalSinkAssumption DEF TypeOK
  <2>4. /\ DOMAIN held' = Writers
        /\ \A v \in Writers : DOMAIN held'[v] \subseteq Skus /\ held'[v] \in [DOMAIN held'[v] -> HotRow]
    BY <1>1, <1>2, <1>8 DEF TypeOK
  <2>5. QED BY <1>4, <1>5, <1>6, <2>1, <2>2, <2>3, <2>4 DEF TypeOK
<1>10. ShapeInv'
  BY <1>8 DEF ShapeInv
<1>11. RowInv'
  BY <1>1, <1>8 DEF RowInv, InTable
<1>12. UniqueInv'
  <2>1. NoRepeatedRow'
    BY <1>1 DEF UniqueInv, NoRepeatedRow, InTable
  <2>2. \A v \in Writers \ {w} : \A e \in pend[v] : ~InTable(e.row, log')
    BY <1>1 DEF UniqueInv, InTable
  <2>3. QED BY <2>1, <2>2, <1>1, <1>8 DEF UniqueInv, InTable
<1>13. LockInv'
  BY <1>8 DEF LockInv
<1>14. MergeInv'
  <2>1. SUFFICES ASSUME NEW v \in Writers \ {w}, NEW x \in DOMAIN held[v]
                 PROVE  /\ held[v][x] = DW!Merged(job[v], x, HotGroup(CurrentBatch(v), x))'
                        /\ job[v] \notin Catalogue => hot'[x] # NoRow
    BY <1>8 DEF MergeInv
  <2>2. x \in Skus /\ x \notin DOMAIN held[w]
    BY DEF LockInv, TypeOK
  <2>3. hot'[x] = hot[x]
    BY <2>2, <1>5
  <2>4. QED BY <2>3, <1>8 DEF MergeInv, DW!Merged
<1>15. QED BY <1>9, <1>10, <1>11, <1>12, <1>13, <1>14

LEMMA NextInv == IInv /\ [Next]_vars => IInv'
<1> SUFFICES ASSUME IInv, [Next]_vars PROVE IInv'
  OBVIOUS
<1>1. CASE Next
  <2>1. PICK w \in Writers : WriterStep(w) \/ \E c \in Chunks : StartChunk(w, c)
    BY <1>1 DEF Next
  <2>2. CASE \E c \in Chunks : StartChunk(w, c)
    BY <2>2, StartStep
  <2>3. CASE WriterStep(w)
    BY <2>3, DetectStep, InsertStep, UpdateStep, UpsertStep, LookStep, AbortStep, CommitsAre, CommitStep
       DEF WriterStep
  <2>4. QED BY <2>1, <2>2, <2>3
<1>2. CASE UNCHANGED vars
  BY <1>2 DEF vars, IInv, TypeOK, NothingOpen, ShapeInv, RowInv, UniqueInv, LockInv, MergeInv,
     NoRepeatedRow, InTable, Open, CurrentBatch, DW!Merged
<1>3. QED BY <1>1, <1>2

LEMMA Invariance == Spec => []IInv
BY InitInv, NextInv, PTL DEF Spec

\* The types of write_chunk's state, and: between two transactions a writer holds no
\* row, lock or miss of an earlier one.
THEOREM SinkTypes == Spec => []TypeOK
<1>1. IInv => TypeOK
  BY DEF IInv
<1>2. QED BY <1>1, Invariance, PTL

\* The event log holds a byte-identical row once, whichever instances write its chunk
\* at the same time and however often it is redelivered.
THEOREM RowsAreUnique == Spec => []NoRepeatedRow
<1>1. IInv => NoRepeatedRow
  BY DEF IInv, UniqueInv
<1>2. QED BY <1>1, Invariance, PTL

-----------------------------------------------------------------------------
(* What a commit does to the tables, and what follows from it. *)

LEMMA OnlyCommits ==
    ASSUME [Next]_vars
    PROVE  UNCHANGED <<log, hot, done>> \/ \E w \in Writers : CommitBatch(w) \/ CommitRaises(w)
<1>1. CASE UNCHANGED vars
  BY <1>1 DEF vars
<1>2. ASSUME NEW w \in Writers, NEW c \in Chunks, StartChunk(w, c) PROVE UNCHANGED <<log, hot, done>>
  BY <1>2 DEF StartChunk
<1>3. ASSUME NEW w \in Writers, WriterStep(w), ~(CommitBatch(w) \/ CommitRaises(w))
      PROVE  UNCHANGED <<log, hot, done>>
  BY <1>3 DEF WriterStep, DetectDuplicates, InsertEvent, UpdateHot, UpdateMatchesNothing,
     CheckExists, UpsertHot, Abort
<1>4. QED BY <1>1, <1>2, <1>3 DEF Next

Rows == {e.row : e \in log}

\* A commit adds the rows of its batch to the log and merges groups of its batch into
\* hot rows, as the committed rows are at that moment.
LEMMA CommitMerges ==
    ASSUME IInv, NEW w \in Writers, Commits(w)
    PROVE  /\ job[w] \in Chunks /\ part[w] \in 1..BatchCount(job[w])
           /\ Rows' = IF job[w] \in Catalogue THEN Rows ELSE Rows \cup RowsIn(CurrentBatch(w))
           /\ hot' = [s \in Skus |-> IF s \in DOMAIN held[w]
                                     THEN DW!Merged(job[w], s, HotGroup(CurrentBatch(w), s)) ELSE hot[s]]
           /\ \A s \in DOMAIN held[w] :
                 /\ s \in BatchSkus(CurrentBatch(w)) /\ s \in Skus
                 /\ hot[s] # NoRow \/ job[w] \in Catalogue
<1> USE DEF IInv
<1>1. /\ pc[w] = "write" /\ Open(w) /\ todo[w] = << >>
      /\ hot' = Committed(w) /\ log' = log \cup pend[w]
  BY DEF Commits, BatchWritten, CommitTables, Open
<1>2. job[w] \in Chunks /\ part[w] \in 1..BatchCount(job[w])
  BY <1>1, OpenBatch
<1>3. Rows' = IF job[w] \in Catalogue THEN Rows ELSE Rows \cup RowsIn(CurrentBatch(w))
  <2>1. RowsIn(todo[w]) = {}
    BY <1>1 DEF RowsIn
  <2>2. CASE job[w] \in Catalogue
    <3>1. pend[w] = {}
      BY <1>1, <2>2 DEF RowInv
    <3>2. QED BY <1>1, <2>2, <3>1 DEF Rows
  <2>3. CASE job[w] \notin Catalogue
    <3>1. \A e \in pend[w] : e.row \in RowsIn(CurrentBatch(w))
      BY <1>1 DEF RowInv
    <3>2. \A r \in RowsIn(CurrentBatch(w)) : \E e \in log' : e.row = r
      BY <1>1, <2>1, <2>3 DEF RowInv, InTable
    <3>3. QED BY <1>1, <2>3, <3>1, <3>2 DEF Rows
  <2>4. QED BY <2>2, <2>3
<1>4. \A s \in DOMAIN held[w] :
         /\ s \in BatchSkus(CurrentBatch(w)) /\ s \in Skus
         /\ hot[s] # NoRow \/ job[w] \in Catalogue
         /\ held[w][s] = DW!Merged(job[w], s, HotGroup(CurrentBatch(w), s))
  BY <1>1 DEF ShapeInv, MergeInv, TypeOK
<1>5. QED BY <1>1, <1>2, <1>3, <1>4 DEF Committed

\* Event-time-wins: a commit moves no hot row back.
LEMMA CommitAdvances ==
    ASSUME IInv, NEW w \in Writers, Commits(w), NEW s \in Skus, hot[s] # NoRow
    PROVE  hot'[s] # NoRow /\ hot'[s].at >= hot[s].at /\ hot'[s].at \in Nat /\ hot[s].at \in Nat
<1>1. pc[w] # "idle" /\ TypeOK
  BY DEF Commits, BatchWritten, IInv
<1>2. hot[s] \in HotRow /\ hot[s].at \in Nat /\ NoRow \notin HotRow
  BY <1>1, RowTimes, HotMergeAssumption DEF TypeOK
<1>3. CASE s \in DOMAIN held[w]
  <2> DEFINE m == DW!Merged(job[w], s, HotGroup(CurrentBatch(w), s))
  <2>1. hot'[s] = m /\ s \in BatchSkus(CurrentBatch(w))
    BY <1>3, CommitMerges
  <2>2. m \in HotRow /\ m.at >= hot[s].at
    BY <1>1, <2>1, MergedRow
  <2> HIDE DEF m
  <2>3. QED BY <1>2, <2>1, <2>2, RowTimes
<1>4. CASE s \notin DOMAIN held[w]
  <2>1. hot'[s] = hot[s]
    BY <1>4, CommitMerges
  <2>2. QED BY <1>2, <2>1
<1>5. QED BY <1>3, <1>4

\* Event-time-wins: no interleaving of instances moves a hot row back in time or
\* removes it.
THEOREM HotOnlyAdvances == Spec => HotNeverGoesBack
<1>1. ASSUME IInv, [Next]_vars
      PROVE  [\A s \in Skus : hot[s] # NoRow => hot'[s] # NoRow /\ hot'[s].at >= hot[s].at]_hot
  BY <1>1, OnlyCommits, CommitsAre, CommitAdvances
<1>2. QED BY <1>1, Invariance, PTL DEF Spec, HotNeverGoesBack

\* Either-or-neither: no hot row shows a time that neither the log nor a catalogue
\* chunk explains, whatever was rolled back.
THEOREM HotRowsAreBacked == Spec => []HotIsBacked
<1>1. Init => HotIsBacked
  BY DEF Init, InitialHot, HotIsBacked
<1>2. IInv /\ HotIsBacked /\ [Next]_vars => HotIsBacked'
  <2> SUFFICES ASSUME IInv, HotIsBacked, [Next]_vars PROVE HotIsBacked'
    OBVIOUS
  <2>1. CASE UNCHANGED <<log, hot, done>>
    BY <2>1 DEF HotIsBacked
  <2>2. ASSUME NEW w \in Writers, Commits(w) PROVE HotIsBacked'
    <3> SUFFICES ASSUME NEW s \in Skus, hot'[s] # NoRow PROVE HotIsBacked!(s)!2'
      BY DEF HotIsBacked
    <3>1. log \subseteq log'
      BY <2>2 DEF Commits, CommitTables
    <3>2. CASE hot[s] # NoRow /\ hot'[s].at = hot[s].at
      BY <3>1, <3>2 DEF HotIsBacked
    <3>3. CASE s \in DOMAIN held[w] /\ hot'[s].at = HotGroup(CurrentBatch(w), s).at
      <4>1. s \in BatchSkus(CurrentBatch(w)) /\ job[w] \in Chunks /\ pc[w] # "idle" /\ TypeOK
        BY <2>2, <3>3, CommitMerges DEF Commits, BatchWritten, IInv
      <4>2. CurrentBatch(w) \in Seq(EventRow) /\ RowsIn(CurrentBatch(w)) \subseteq RowsIn(EventRows[job[w]])
        BY <4>1, OpenBatch
      <4>3. PICK r \in RowsIn(CurrentBatch(w)) : r.sku = s /\ r.ts = hot'[s].at
        BY <3>3, <4>1, <4>2, GroupIsLatest
      <4>4. CASE job[w] \in Catalogue
        BY <4>2, <4>3, <4>4
      <4>5. CASE job[w] \notin Catalogue
        <5>1. r \in Rows'
          BY <2>2, <4>3, <4>5, CommitMerges
        <5>2. QED BY <4>3, <5>1 DEF Rows
      <4>6. QED BY <4>4, <4>5
    <3>4. CASE s \notin DOMAIN held[w]
      <4>1. hot'[s] = hot[s]
        BY <2>2, <3>4, CommitMerges
      <4>2. QED BY <3>2, <4>1
    <3>5. CASE s \in DOMAIN held[w]
      <4> DEFINE m == DW!Merged(job[w], s, HotGroup(CurrentBatch(w), s))
      <4>1. /\ hot'[s] = m /\ s \in BatchSkus(CurrentBatch(w)) /\ (hot[s] # NoRow \/ job[w] \in Catalogue)
            /\ TypeOK /\ pc[w] # "idle"
        BY <2>2, <3>5, CommitMerges DEF IInv, Commits, BatchWritten
      <4>2. m.at = HotGroup(CurrentBatch(w), s).at \/ (hot[s] # NoRow /\ m.at = hot[s].at)
        BY <4>1, MergedRow
      <4>3. QED BY <3>2, <3>3, <3>5, <4>1, <4>2
    <3>6. QED BY <3>4, <3>5
  <2>3. QED BY <2>1, <2>2, OnlyCommits, CommitsAre
<1>3. QED BY <1>1, <1>2, Invariance, PTL DEF Spec

-----------------------------------------------------------------------------
(***************************************************************************)
(* What a WriteReport means.  It is true when the hot row of a SKU is not  *)
(* created between the UPDATE that misses it and the existence check, and  *)
(* OnboardedFirst excludes just that.                                      *)
(***************************************************************************)

RowLanded(c, r) ==
    /\ c \notin Catalogue => r \in Rows
    /\ hot[r.sku] # NoRow
    /\ hot[r.sku].at >= r.ts

\* The committed hot row of s is not behind the group a writer has for it.
CaughtUp(w, s) == hot[s] # NoRow /\ hot[s].at >= HotGroup(CurrentBatch(w), s).at

\* Hot rows exist from the start, or event chunks do not find them at all.
PresenceInv ==
    /\ \A s \in Onboarded : hot[s] # NoRow
    /\ \A c \in Chunks \ Catalogue : \A s \in BatchSkus(EventRows[c]) : s \notin Onboarded => hot[s] = NoRow

\* What a writer has passed has landed, is held by it, or is counted as a miss.
ProgressInv ==
    /\ \A c \in done : \A r \in RowsIn(EventRows[c]) : RowLanded(c, r)
    /\ \A w \in Writers : pc[w] # "idle" =>
         \A i \in 1..(part[w] - 1) : \A r \in RowsIn(Batch(job[w], i)) : RowLanded(job[w], r)
    /\ \A w \in Writers : Open(w) =>
         \A s \in BatchSkus(CurrentBatch(w)) :
             s \in groups[w] \/ s \in missed[w] \/ s \in DOMAIN held[w] \/ CaughtUp(w, s)
    /\ \A w \in Writers : pc[w] = "exists" => hot[NextSku(w)] = NoRow \/ CaughtUp(w, NextSku(w))

LandedInv == PresenceInv /\ ProgressInv

\* The rows and hot times of chunks survive every commit.
LEMMA LandedStays ==
    ASSUME IInv, NEW w \in Writers, Commits(w), NEW c \in Chunks, NEW r \in RowsIn(EventRows[c]),
           RowLanded(c, r)
    PROVE  RowLanded(c, r)'
<1>1. r \in EventRow
  BY ChunkRows
<1>2. r.sku \in Skus /\ r.ts \in Nat
  BY <1>1, RowTimes DEF EventRow
<1>3. hot'[r.sku] # NoRow /\ hot'[r.sku].at >= hot[r.sku].at /\ hot'[r.sku].at \in Nat /\ hot[r.sku].at \in Nat
  BY <1>2, CommitAdvances DEF RowLanded
<1>4. Rows \subseteq Rows'
  BY CommitMerges
<1>5. QED BY <1>2, <1>3, <1>4 DEF RowLanded

\* A batch that commits without a miss has landed.
LEMMA CommitLands ==
    ASSUME IInv, ProgressInv, NEW w \in Writers, Commits(w), missed[w] = {},
           NEW c, c = job[w], NEW r \in RowsIn(CurrentBatch(w))
    PROVE  RowLanded(c, r)'
<1> DEFINE s == r.sku
           g == HotGroup(CurrentBatch(w), s)
<1>1. TypeOK /\ pc[w] = "write" /\ Open(w) /\ groups[w] = {}
  BY DEF IInv, Commits, BatchWritten, Open
<1>2. CurrentBatch(w) \in Seq(EventRow) /\ r \in EventRow
  BY <1>1, OpenBatch
<1>3. s \in BatchSkus(CurrentBatch(w)) /\ s \in Skus /\ r.ts \in Nat
  BY <1>2, RowTimes DEF BatchSkus, EventRow
<1>4. g.at >= r.ts /\ g.at \in Nat /\ g \in HotRow
  BY <1>2, <1>3, GroupIsLatest, RowTimes
<1> HIDE DEF g
<1>5. hot'[s] # NoRow /\ hot'[s].at \in Nat /\ hot'[s].at >= g.at
  <2>1. CASE s \in DOMAIN held[w]
    <3> DEFINE m == DW!Merged(job[w], s, g)
    <3>1. hot'[s] = m /\ (hot[s] # NoRow \/ job[w] \in Catalogue)
      BY <2>1, <1>3, CommitMerges DEF g
    <3>2. m \in HotRow /\ m.at >= g.at
      BY <1>1, <1>3, <3>1, MergedRow DEF g
    <3> HIDE DEF m
    <3>3. QED BY <3>1, <3>2, RowTimes, HotMergeAssumption
  <2>2. CASE CaughtUp(w, s)
    <3>1. hot[s] # NoRow /\ hot[s].at >= g.at
      BY <2>2 DEF CaughtUp, g
    <3>2. QED BY <3>1, <1>3, <1>4, CommitAdvances
  <2>3. QED BY <2>1, <2>2, <1>1, <1>3 DEF ProgressInv
<1>6. c \notin Catalogue => r \in Rows'
  BY CommitMerges
<1>7. QED BY <1>3, <1>4, <1>5, <1>6 DEF RowLanded

LEMMA PresenceStays ==
    ASSUME OnboardedFirst, IInv, PresenceInv, NEW w \in Writers, Commits(w)
    PROVE  PresenceInv'
<1>1. \A s \in Onboarded : hot'[s] # NoRow
  <2>1. Onboarded \subseteq Skus
    BY HotMergeAssumption
  <2>2. QED BY <2>1, CommitAdvances DEF PresenceInv
<1>2. ASSUME NEW c \in Chunks \ Catalogue, NEW s \in BatchSkus(EventRows[c]), s \notin Onboarded
      PROVE  hot'[s] = NoRow
  <2>1. hot[s] = NoRow
    BY <1>2 DEF PresenceInv
  <2>2. s \in Skus
    BY ChunkRows DEF BatchSkus, EventRow
  <2>3. s \notin DOMAIN held[w]
    <3>1. SUFFICES ASSUME s \in DOMAIN held[w] PROVE FALSE
      OBVIOUS
    <3>2. job[w] \in Catalogue /\ s \in BatchSkus(CurrentBatch(w))
      BY <2>1, <3>1, CommitMerges
    <3>3. RowsIn(CurrentBatch(w)) \subseteq RowsIn(EventRows[job[w]])
      BY OpenBatch DEF IInv, Commits, BatchWritten
    <3>4. s \in BatchSkus(EventRows[job[w]])
      BY <3>2, <3>3 DEF BatchSkus
    <3>5. QED BY <1>2, <3>2, <3>4 DEF OnboardedFirst
  <2>4. QED BY <2>1, <2>2, <2>3, CommitMerges
<1>3. QED BY <1>1, <1>2 DEF PresenceInv

\* A hot row that was not there or has caught up stays so under the commits of others.
LEMMA CaughtUpStays ==
    ASSUME IInv, NEW w \in Writers, Commits(w), NEW v \in Writers \ {w}, Open(v),
           NEW s \in BatchSkus(CurrentBatch(v)), CaughtUp(v, s)
    PROVE  CaughtUp(v, s)'
<1>1. TypeOK /\ pc[v] # "idle"
  BY DEF IInv, Open
<1>2. s \in Skus /\ CurrentBatch(v) \in Seq(EventRow)
  BY <1>1, OpenBatch
<1>3. HotGroup(CurrentBatch(v), s).at \in Nat
  BY <1>2, GroupIsLatest, RowTimes
<1>4. CurrentBatch(v)' = CurrentBatch(v)
  BY DEF Commits, Idle, CurrentBatch, IInv, TypeOK
<1>5. hot'[s] # NoRow /\ hot'[s].at >= hot[s].at /\ hot'[s].at \in Nat /\ hot[s].at \in Nat
  BY <1>2, CommitAdvances DEF CaughtUp
<1>6. QED BY <1>3, <1>4, <1>5 DEF CaughtUp

\* A step that leaves the tables alone keeps what has landed.
LEMMA QuietFrame ==
    ASSUME UNCHANGED <<log, hot>>, NEW c, NEW r
    PROVE  RowLanded(c, r)' <=> RowLanded(c, r)
BY DEF RowLanded, Rows

LEMMA LandedQuiet ==
    ASSUME IInv, LandedInv, NEW w \in Writers, UNCHANGED <<log, hot, done>>,
           \A v \in Writers \ {w} : /\ pc'[v] = pc[v] /\ job'[v] = job[v] /\ part'[v] = part[v]
                                    /\ groups'[v] = groups[v] /\ missed'[v] = missed[v]
                                    /\ held'[v] = held[v],
           pc'[w] # "idle" => (pc[w] # "idle" /\ job'[w] = job[w] /\ part'[w] = part[w]) \/ part'[w] = 1,
           Open(w)' => \A s \in BatchSkus(CurrentBatch(w)') :
               s \in groups'[w] \/ s \in missed'[w] \/ s \in DOMAIN held'[w] \/ CaughtUp(w, s)',
           pc'[w] = "exists" => (hot[NextSku(w)] = NoRow \/ CaughtUp(w, NextSku(w)))'
    PROVE  LandedInv'
<1>1. PresenceInv'
  BY DEF LandedInv, PresenceInv
<1>2. \A c \in done' : \A r \in RowsIn(EventRows[c]) : RowLanded(c, r)'
  BY QuietFrame DEF LandedInv, ProgressInv
<1>3. ASSUME NEW v \in Writers, pc'[v] # "idle", NEW i \in 1..(part'[v] - 1),
             NEW r \in RowsIn(Batch(job'[v], i))
      PROVE  RowLanded(job[v], r)'
  <2>1. CASE v = w /\ part'[w] = 1
    BY <2>1, <1>3
  <2>2. CASE pc[v] # "idle" /\ job'[v] = job[v] /\ part'[v] = part[v]
    <3>1. RowLanded(job[v], r)
      BY <2>2, <1>3 DEF LandedInv, ProgressInv
    <3>2. QED BY <2>2, <3>1 DEF RowLanded, Rows
  <2>3. QED BY <2>1, <2>2, <1>3
<1>4. ASSUME NEW v \in Writers \ {w}
      PROVE  /\ CurrentBatch(v)' = CurrentBatch(v) /\ (Open(v)' <=> Open(v))
             /\ NextSku(v)' = NextSku(v)
             /\ \A s : CaughtUp(v, s)' <=> CaughtUp(v, s)
  BY DEF CurrentBatch, Open, NextSku, CaughtUp
<1>5. ASSUME NEW v \in Writers, Open(v)', NEW s \in BatchSkus(CurrentBatch(v)')
      PROVE  s \in groups'[v] \/ s \in missed'[v] \/ s \in DOMAIN held'[v] \/ CaughtUp(v, s)'
  <2>1. CASE v = w
    BY <2>1, <1>5
  <2>2. CASE v # w
    BY <2>2, <1>4, <1>5 DEF LandedInv, ProgressInv
  <2>3. QED BY <2>1, <2>2
<1>6. ASSUME NEW v \in Writers, pc'[v] = "exists"
      PROVE  (hot[NextSku(v)] = NoRow \/ CaughtUp(v, NextSku(v)))'
  <2>1. CASE v = w
    BY <2>1, <1>6
  <2>2. CASE v # w
    BY <2>2, <1>4, <1>6 DEF LandedInv, ProgressInv, CaughtUp
  <2>3. QED BY <2>1, <2>2
<1>7. ProgressInv'
  BY <1>2, <1>3, <1>5, <1>6 DEF ProgressInv
<1>8. QED BY <1>1, <1>7 DEF LandedInv

LEMMA LandedUncommitted ==
    ASSUME IInv, LandedInv, NEW w \in Writers,
           \/ DetectDuplicates(w) \/ InsertEvent(w) \/ UpdateHot(w) \/ UpdateMatchesNothing(w)
           \/ CheckExists(w) \/ UpsertHot(w) \/ Abort(w) \/ \E c \in Chunks : StartChunk(w, c)
    PROVE  LandedInv'
<1>1. TypeOK
  BY DEF IInv
<1>2. CASE DetectDuplicates(w)
  <2>1. Open(w)' => BatchSkus(CurrentBatch(w)') \subseteq groups'[w]
    BY <1>1, <1>2 DEF DetectDuplicates, CurrentBatch, TypeOK
  <2>2. QED BY <1>1, <1>2, <2>1, LandedQuiet DEF DetectDuplicates, TypeOK
<1>3. CASE InsertEvent(w)
  <2>1. /\ UNCHANGED <<log, hot, done, pc, job, part, groups, held, missed>>
        /\ pc[w] = "write" /\ Open(w)
    BY <1>3 DEF InsertEvent, Open
  <2>2. CurrentBatch(w)' = CurrentBatch(w) /\ \A s : CaughtUp(w, s)' <=> CaughtUp(w, s)
    BY <2>1 DEF CurrentBatch, CaughtUp
  <2>3. \A s \in BatchSkus(CurrentBatch(w)) :
           s \in groups[w] \/ s \in missed[w] \/ s \in DOMAIN held[w] \/ CaughtUp(w, s)
    BY <2>1 DEF LandedInv, ProgressInv
  <2>4. QED BY <2>1, <2>2, <2>3, LandedQuiet
<1>4. CASE UpdateHot(w) \/ UpsertHot(w)
  <2>1. /\ UNCHANGED <<log, hot, done, pc, job, part, missed>>
        /\ pc[w] = "write" /\ Open(w)
        /\ groups' = [groups EXCEPT ![w] = @ \ {NextSku(w)}]
    BY <1>4 DEF UpdateHot, UpsertHot, MergeNext, Open
  <2>2. /\ DOMAIN held'[w] = {NextSku(w)} \cup DOMAIN held[w]
        /\ \A v \in Writers \ {w} : held'[v] = held[v]
    BY <1>1, <1>4 DEF UpdateHot, UpsertHot, Write, Over, TypeOK
  <2>3. CurrentBatch(w)' = CurrentBatch(w) /\ \A s : CaughtUp(w, s)' <=> CaughtUp(w, s)
    BY <2>1 DEF CurrentBatch, CaughtUp
  <2>4. \A s \in BatchSkus(CurrentBatch(w)) :
           s \in groups[w] \/ s \in missed[w] \/ s \in DOMAIN held[w] \/ CaughtUp(w, s)
    BY <2>1 DEF LandedInv, ProgressInv
  <2>5. QED BY <1>1, <2>1, <2>2, <2>3, <2>4, LandedQuiet DEF TypeOK
<1>5. CASE UpdateMatchesNothing(w)
  <2> DEFINE s == NextSku(w)
  <2>1. /\ UNCHANGED <<log, hot, done, job, part, groups, held, missed>>
        /\ pc[w] = "write" /\ Open(w) /\ pc' = [pc EXCEPT ![w] = "exists"] /\ groups[w] # {}
    BY <1>5 DEF UpdateMatchesNothing, MergeNext, txnVars, Open
  <2>2. CurrentBatch(w)' = CurrentBatch(w) /\ (\A x : CaughtUp(w, x)' <=> CaughtUp(w, x)) /\ NextSku(w)' = s
    BY <2>1 DEF CurrentBatch, CaughtUp, NextSku
  <2>3. \A x \in BatchSkus(CurrentBatch(w)) :
           x \in groups[w] \/ x \in missed[w] \/ x \in DOMAIN held[w] \/ CaughtUp(w, x)
    BY <2>1 DEF LandedInv, ProgressInv
  <2>4. s \in Skus /\ s \in BatchSkus(CurrentBatch(w)) /\ CurrentBatch(w) \in Seq(EventRow)
    BY <1>1, <2>1, NextSkuLeft, OpenBatch DEF IInv, ShapeInv
  <2>5. HotGroup(CurrentBatch(w), s).at \in Nat
    BY <2>4, GroupIsLatest, RowTimes
  <2>6. hot[s] = NoRow \/ (hot[s] \in HotRow /\ hot[s].at \in Nat)
    BY <1>1, <2>4, RowTimes DEF TypeOK
  <2>7. hot[s] = NoRow \/ CaughtUp(w, s)
    <3>1. SUFFICES ASSUME hot[s] # NoRow PROVE hot[s].at >= HotGroup(CurrentBatch(w), s).at
      BY DEF CaughtUp
    <3>2. ~(HotGroup(CurrentBatch(w), s).at >= hot[s].at)
      BY <1>5, <3>1 DEF UpdateMatchesNothing, Matches, NotOlder, Group
    <3>3. QED BY <2>5, <2>6, <3>1, <3>2
  <2>8. pc'[w] = "exists" /\ \A v \in Writers \ {w} : pc'[v] = pc[v]
    BY <1>1, <2>1 DEF TypeOK
  <2>9. (hot[NextSku(w)] = NoRow \/ CaughtUp(w, NextSku(w)))'
    BY <2>1, <2>2, <2>7
  <2>10. \A x \in BatchSkus(CurrentBatch(w)') :
            x \in groups'[w] \/ x \in missed'[w] \/ x \in DOMAIN held'[w] \/ CaughtUp(w, x)'
    BY <2>1, <2>2, <2>3
  <2> HIDE DEF s
  <2>11. QED BY <2>1, <2>8, <2>9, <2>10, LandedQuiet
<1>6. CASE CheckExists(w)
  <2> DEFINE s == NextSku(w)
  <2>1. /\ UNCHANGED <<log, hot, done, job, part, held>>
        /\ pc[w] = "exists" /\ Open(w) /\ pc' = [pc EXCEPT ![w] = "write"]
        /\ groups' = [groups EXCEPT ![w] = @ \ {s}]
        /\ missed' = [missed EXCEPT ![w] = CountMiss(w)]
    BY <1>6 DEF CheckExists, Open
  <2>2. CurrentBatch(w)' = CurrentBatch(w) /\ (\A x : CaughtUp(w, x)' <=> CaughtUp(w, x))
    BY <2>1 DEF CurrentBatch, CaughtUp
  <2>3. \A x \in BatchSkus(CurrentBatch(w)) :
           x \in groups[w] \/ x \in missed[w] \/ x \in DOMAIN held[w] \/ CaughtUp(w, x)
    BY <2>1 DEF LandedInv, ProgressInv
  <2>4. s \in CountMiss(w) \/ CaughtUp(w, s)
    BY <2>1 DEF LandedInv, ProgressInv, CountMiss
  <2>5. missed[w] \subseteq CountMiss(w)
    BY DEF CountMiss
  <2> HIDE DEF s
  <2>6. /\ pc'[w] = "write" /\ groups'[w] = groups[w] \ {s} /\ missed'[w] = CountMiss(w)
        /\ \A v \in Writers \ {w} : pc'[v] = pc[v] /\ groups'[v] = groups[v] /\ missed'[v] = missed[v]
    BY <1>1, <2>1 DEF TypeOK
  <2>7. \A x \in BatchSkus(CurrentBatch(w)') :
           x \in groups'[w] \/ x \in missed'[w] \/ x \in DOMAIN held'[w] \/ CaughtUp(w, x)'
    BY <2>1, <2>2, <2>3, <2>4, <2>5, <2>6
  <2>8. QED BY <2>1, <2>6, <2>7, LandedQuiet
<1>7. CASE Abort(w)
  BY <1>1, <1>7, LandedQuiet DEF Abort, EndTxn, Idle, Open, TypeOK
<1>8. CASE \E c \in Chunks : StartChunk(w, c)
  BY <1>1, <1>8, LandedQuiet DEF StartChunk, txnVars, Open, TypeOK
<1>9. QED BY <1>2, <1>3, <1>4, <1>5, <1>6, <1>7, <1>8

LEMMA LandedCommit ==
    ASSUME OnboardedFirst, IInv, LandedInv, NEW w \in Writers, CommitBatch(w) \/ CommitRaises(w)
    PROVE  LandedInv'
<1>1. Commits(w) /\ TypeOK /\ pc[w] = "write" /\ Open(w) /\ ProgressInv
  BY CommitsAre DEF IInv, Commits, BatchWritten, Open, LandedInv
<1>2. PICK c \in Chunks : c = job[w]
  BY <1>1 DEF TypeOK
<1>3. part[w] \in 1..BatchCount(c) /\ BatchCount(c) \in Nat
      /\ \A i \in 1..BatchCount(c) : RowsIn(Batch(c, i)) \subseteq RowsIn(EventRows[c])
  BY <1>1, <1>2, OpenBatch, FirstBatch, BatchRows
<1>4. PresenceInv'
  BY <1>1, PresenceStays DEF LandedInv
<1>5. ASSUME missed[w] = {}, NEW i \in 1..part[w], NEW r \in RowsIn(Batch(c, i))
      PROVE  RowLanded(c, r)'
  <2>1. CASE i = part[w]
    BY <1>1, <1>2, <1>5, <2>1, CommitLands DEF CurrentBatch
  <2>2. CASE i \in 1..(part[w] - 1)
    <3>1. RowLanded(c, r)
      BY <1>1, <1>2, <1>5, <2>2 DEF ProgressInv
    <3>2. r \in RowsIn(EventRows[c])
      BY <1>3, <1>5
    <3>3. QED BY <1>1, <3>1, <3>2, LandedStays
  <2>3. QED BY <1>3, <2>1, <2>2
<1>6. ASSUME NEW d \in done', NEW r \in RowsIn(EventRows[d]) PROVE RowLanded(d, r)'
  <2>1. CASE d \in done
    <3>1. d \in Chunks /\ RowLanded(d, r)
      BY <1>1, <2>1 DEF TypeOK, ProgressInv
    <3>2. QED BY <1>1, <1>6, <3>1, LandedStays
  <2>2. CASE d \notin done
    <3>1. d = c /\ missed[w] = {} /\ part[w] = BatchCount(c)
      BY <1>2, <1>6, <2>2 DEF CommitBatch, CommitRaises
    <3>2. PICK i \in 1..BatchCount(c) : r \in RowsIn(Batch(c, i))
      BY <1>6, <3>1, BatchesCover
    <3>3. QED BY <1>5, <3>1, <3>2
  <2>3. QED BY <2>1, <2>2
<1>7. \A v \in Writers \ {w} :
        /\ CurrentBatch(v)' = CurrentBatch(v) /\ (Open(v)' <=> Open(v)) /\ pc'[v] = pc[v]
        /\ groups'[v] = groups[v] /\ held'[v] = held[v] /\ missed'[v] = missed[v]
        /\ job'[v] = job[v] /\ part'[v] = part[v] /\ NextSku(v)' = NextSku(v)
  BY <1>1 DEF Commits, EndTxn, Idle, CurrentBatch, Open, NextSku, TypeOK
<1>8. ASSUME NEW v \in Writers, pc'[v] # "idle", NEW i \in 1..(part'[v] - 1),
             NEW r \in RowsIn(Batch(job'[v], i))
      PROVE  RowLanded(job[v], r)'
  <2>1. CASE v = w
    <3>1. missed[w] = {} /\ part'[w] = part[w] + 1 /\ job'[w] = c
      BY <1>1, <1>2, <1>8, <2>1 DEF CommitBatch, CommitRaises, Idle, TypeOK
    <3>2. RowLanded(c, r)'
      BY <1>3, <1>5, <1>8, <2>1, <3>1
    <3>3. QED BY <2>1, <3>1, <3>2 DEF RowLanded
  <2>2. CASE v # w
    <3>1. PICK d \in Chunks : d = job[v]
      BY <1>1, <1>7, <1>8, <2>2 DEF TypeOK
    <3>2. RowLanded(d, r) /\ i \in 1..BatchCount(d)
      <4>1. pc[v] # "idle" /\ i \in 1..(part[v] - 1) /\ r \in RowsIn(Batch(d, i))
        BY <1>7, <1>8, <2>2, <3>1
      <4>2. part[v] \in 1..BatchCount(d) /\ BatchCount(d) \in Nat
        BY <1>1, <3>1, <4>1, OpenBatch, FirstBatch
      <4>3. RowLanded(d, r)
        BY <1>1, <3>1, <4>1 DEF ProgressInv
      <4>4. QED BY <4>1, <4>2, <4>3
    <3>3. r \in RowsIn(EventRows[d])
      BY <1>7, <1>8, <2>2, <3>1, <3>2, BatchRows
    <3>4. RowLanded(d, r)'
      BY <1>1, <3>2, <3>3, LandedStays
    <3>5. QED BY <1>7, <2>2, <3>1, <3>4 DEF RowLanded
  <2>3. QED BY <2>1, <2>2
<1>9. ~Open(w)' /\ pc'[w] # "exists"
  BY <1>1 DEF Commits, Idle, Open, TypeOK
<1>10. ASSUME NEW v \in Writers, Open(v)', NEW s \in BatchSkus(CurrentBatch(v)')
       PROVE  s \in groups'[v] \/ s \in missed'[v] \/ s \in DOMAIN held'[v] \/ CaughtUp(v, s)'
  <2>1. v # w /\ Open(v) /\ s \in BatchSkus(CurrentBatch(v))
    BY <1>7, <1>9, <1>10
  <2>2. CaughtUp(v, s) => CaughtUp(v, s)'
    BY <1>1, <2>1, CaughtUpStays
  <2>3. QED BY <1>1, <1>7, <2>1, <2>2 DEF ProgressInv
<1>11. ASSUME NEW v \in Writers, pc'[v] = "exists"
       PROVE  (hot[NextSku(v)] = NoRow \/ CaughtUp(v, NextSku(v)))'
  <2>1. v # w /\ pc[v] = "exists" /\ Open(v)
    BY <1>7, <1>9, <1>11 DEF Open
  <2>2. PICK s : s = NextSku(v)
    OBVIOUS
  <2>3. s \in BatchSkus(CurrentBatch(v)) /\ job[v] \in Chunks \ Catalogue
    BY <1>1, <2>1, <2>2, NextSkuLeft, OpenBatch DEF IInv, ShapeInv
  <2>4. CASE CaughtUp(v, s)
    <3>1. CaughtUp(v, s)'
      BY <1>1, <2>1, <2>3, <2>4, CaughtUpStays
    <3>2. QED BY <1>7, <2>1, <2>2, <3>1
  <2>5. CASE hot[s] = NoRow
    <3>1. s \in BatchSkus(EventRows[job[v]])
      BY <1>1, <2>1, <2>3, OpenBatch DEF BatchSkus, Open
    <3>2. s \notin Onboarded
      BY <2>5 DEF LandedInv, PresenceInv
    <3>3. hot'[s] = NoRow
      BY <1>4, <2>3, <3>1, <3>2 DEF PresenceInv
    <3>4. QED BY <1>7, <2>1, <2>2, <3>3
  <2>6. QED BY <1>1, <2>1, <2>2, <2>4, <2>5 DEF ProgressInv
<1>12. ProgressInv'
  BY <1>6, <1>8, <1>10, <1>11 DEF ProgressInv
<1>13. QED BY <1>4, <1>12 DEF LandedInv

LEMMA LandedNext == OnboardedFirst /\ IInv /\ LandedInv /\ [Next]_vars => LandedInv'
<1> SUFFICES ASSUME OnboardedFirst, IInv, LandedInv, [Next]_vars PROVE LandedInv'
  OBVIOUS
<1>1. CASE UNCHANGED vars
  BY <1>1 DEF vars, LandedInv, PresenceInv, ProgressInv, RowLanded, Rows, CaughtUp, Open,
     CurrentBatch, NextSku
<1>2. ASSUME NEW w \in Writers, WriterStep(w) \/ \E c \in Chunks : StartChunk(w, c)
      PROVE  LandedInv'
  BY <1>2, LandedUncommitted, LandedCommit DEF WriterStep
<1>3. QED BY <1>1, <1>2 DEF Next

LEMMA LandedInit == OnboardedFirst /\ Init => LandedInv
<1> SUFFICES ASSUME Init PROVE LandedInv
  OBVIOUS
<1>1. PresenceInv
  <2>1. \A s \in Onboarded : s \in Skus /\ hot[s] = [at |-> 0, cols |-> << >>]
    BY HotMergeAssumption DEF Init, InitialHot
  <2>2. [at |-> 0, cols |-> << >>] \in HotRow
    <3>1. << >> \in [{} -> Values]
      OBVIOUS
    <3>2. << >> \in Contributions
      BY <3>1 DEF Contributions
    <3>3. QED BY <3>2, HotMergeAssumption DEF HotRow
  <2>3. \A c \in Chunks : BatchSkus(EventRows[c]) \subseteq Skus
    BY ChunkRows DEF BatchSkus, EventRow
  <2>4. \A s \in Skus : s \notin Onboarded => hot[s] = NoRow
    BY DEF Init, InitialHot
  <2>5. QED BY <2>1, <2>2, <2>3, <2>4, HotMergeAssumption DEF PresenceInv
<1>2. ProgressInv
  BY DEF Init, ProgressInv, Open
<1>3. QED BY <1>1, <1>2 DEF LandedInv

LEMMA LandedAlways == OnboardedFirst => (Spec => []LandedInv)
<1>1. SUFFICES ASSUME OnboardedFirst PROVE Spec => []LandedInv
  OBVIOUS
<1>2. Init => LandedInv
  BY <1>1, LandedInit
<1>3. IInv /\ LandedInv /\ [Next]_vars => LandedInv'
  BY <1>1, LandedNext
<1>4. QED BY <1>2, <1>3, Invariance, PTL DEF Spec

\* A chunk whose write was reported, and whose message is then acknowledged, has landed:
\* all its rows are in the log and no hot row is behind them.  OnboardedFirst is the
\* only proviso; without it the statement is false (run sink_onboarding).
THEOREM ReportedHasLanded == OnboardedFirst => (Spec => []WrittenHasLanded)
<1>1. SUFFICES ASSUME OnboardedFirst PROVE Spec => []WrittenHasLanded
  OBVIOUS
<1>2. LandedInv => WrittenHasLanded
  BY DEF LandedInv, ProgressInv, RowLanded, Rows, WrittenHasLanded, Landed
<1>3. Spec => []LandedInv
  BY <1>1, LandedAlways
<1>4. QED BY <1>2, <1>3, PTL

-----------------------------------------------------------------------------
(* The refinement of DualWrite. *)

LEMMA RefineInit == Init => DW!Init
BY DEF Init, DW!Init, InitialHot, DW!InitialHot

LEMMA RefineCommit ==
    ASSUME OnboardedFirst, IInv, LandedInv, LandedInv', NEW w \in Writers,
           CommitBatch(w) \/ CommitRaises(w)
    PROVE  DW!Next
<1> DEFINE batch == CurrentBatch(w)
           passed == BatchSkus(batch) \ DOMAIN held[w]
<1>1. Commits(w)
  BY CommitsAre
<1>0. PICK c \in Chunks : c = job[w]
  BY <1>1, CommitMerges
<1>2. PICK i \in 1..BatchCount(c) : c = job[w] /\ i = part[w] /\ batch = Batch(c, i)
  BY <1>0, <1>1, CommitMerges DEF CurrentBatch
<1>3. Rows' = IF c \in Catalogue THEN Rows ELSE Rows \cup RowsIn(Batch(c, i))
  BY <1>1, <1>2, CommitMerges
<1>4. /\ passed \in SUBSET BatchSkus(Batch(c, i))
      /\ hot' = [s \in Skus |-> IF s \in BatchSkus(Batch(c, i)) \ passed
                                THEN DW!Merged(c, s, HotGroup(Batch(c, i), s)) ELSE hot[s]]
  <2>1. \A s \in Skus : s \in BatchSkus(Batch(c, i)) \ passed <=> s \in DOMAIN held[w]
    BY <1>1, <1>2, CommitMerges
  <2>2. hot' = [s \in Skus |-> IF s \in DOMAIN held[w]
                               THEN DW!Merged(c, s, HotGroup(Batch(c, i), s)) ELSE hot[s]]
    BY <1>1, <1>2, CommitMerges
  <2> HIDE DEF passed
  <2>3. QED BY <1>2, <2>1, <2>2 DEF passed
<1>5. done' \in {done, done \cup {c}}
  BY <1>1, <1>2 DEF Commits
<1>6. c \in done' => Landed(c, Rows', hot')
  BY DEF LandedInv, ProgressInv, RowLanded, Rows, Landed
<1> HIDE DEF passed, batch
<1>7. DW!WriteBatch(c, i)
  BY <1>3, <1>4, <1>5, <1>6 DEF DW!WriteBatch, DW!Batch, Batch, DW!RowsIn, RowsIn, DW!BatchSkus,
     BatchSkus, DW!HotGroup, HotGroup, DW!Landed, Landed, Rows, DW!JoinGroup, JoinGroup, DW!Over, Over
<1>8. QED BY <1>7 DEF DW!Next, DW!BatchCount, BatchCount

\* write_chunk implements the dual write: every batch of every instance takes effect on
\* the log and the hot table in one step, merges groups into the rows as they are then,
\* and is reported only when its chunk has landed.
THEOREM SinkRefinesDualWrite == OnboardedFirst => (Spec => ImplementsDualWrite)
<1>1. SUFFICES ASSUME OnboardedFirst PROVE Spec => ImplementsDualWrite
  OBVIOUS
<1>2. IInv /\ LandedInv /\ LandedInv' /\ [Next]_vars => [DW!Next]_DW!vars
  <2> SUFFICES ASSUME IInv, LandedInv, LandedInv', [Next]_vars PROVE [DW!Next]_DW!vars
    OBVIOUS
  <2>1. CASE UNCHANGED <<log, hot, done>>
    BY <2>1 DEF DW!vars
  <2>2. CASE \E w \in Writers : CommitBatch(w) \/ CommitRaises(w)
    BY <1>1, <2>2, RefineCommit
  <2>3. QED BY <2>1, <2>2, OnlyCommits
<1>3. Spec => []LandedInv
  BY <1>1, LandedAlways
<1>4. QED BY <1>2, <1>3, RefineInit, Invariance, PTL DEF Spec, ImplementsDualWrite, DW!Spec
=============================================================================

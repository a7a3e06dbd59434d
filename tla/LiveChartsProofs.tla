--------------------------- MODULE LiveChartsProofs ---------------------------
(***************************************************************************)
(* Theorems about the charts of the active test, for any recipe, context,  *)
(* history length and throttle and any number of tests and records.        *)
(*                                                                         *)
(* What is drawn on a page is ordered by how a chart takes a point, so the *)
(* argument is about the charts the server renders: the live history is in *)
(* order, the records of before the start are none of them later than a    *)
(* sample, and the samples are a set.  The bars follow from the order: a   *)
(* segment that has ended ends at a point, and no point after its start    *)
(* shows the compressor stopped while the flag is set.                     *)
(***************************************************************************)
EXTENDS LiveCharts, WellFoundedInduction, TLAPS

-----------------------------------------------------------------------------
(* Inductive invariants.                                                   *)

\* The records go forward: through the live history, the records of before the start
\* and the samples.
FeedInv ==
  /\ pc \in {"polled", "send_polled", "persist"} => rt # NotSet
  /\ rt <= now /\ test.started <= now
  /\ \A i \in 1 .. Len(history) :
       /\ history[i] <= rt
       /\ \A j \in i .. Len(history) : history[i] <= history[j]
  /\ \A s \in stored : s <= now
  /\ ~Active => stored = {}
  /\ \A i \in 1 .. Len(test.prestart) : LET r == test.prestart[i] IN
       /\ r < test.started /\ r <= rt
       /\ \A s \in stored : r <= s
       /\ \A j \in i .. Len(test.prestart) : r <= test.prestart[j]

\* Whether a record r shown for test t was there by a time, and, if t is over, before the
\* test that is active began.
Past(t, r, time, active) ==
  /\ r <= time
  /\ (t > 0 /\ t < active.id /\ active.phase # "NONE") => r <= active.started

PastInv ==
  /\ Past(msg.test, msg.rec, now, test)
  /\ \A i \in 1 .. Len(page.pending) :
       Past(page.pending[i].test, page.pending[i].rec, now, test)
  /\ \A k \in Kinds : \A i \in 1 .. Len(page.charts[k].points) :
       Past(page.test, page.charts[k].points[i].at, now, test)

\* Points go from left to right.
InLine(k, points) ==
  \A i \in 1 .. Len(points), j \in 1 .. Len(points) : i < j =>
    \/ points[i].x < points[j].x
    \/ /\ points[i].x = points[j].x /\ points[i].at = points[j].at
       /\ points[i].x + Window(k).zero < 0

\* The bars of a chart fit its points, R the records that show the compressor running.
\* While the flag is set the last segment grows, so no point after its start is outside.
BarsFit(k, c, R) ==
  LET n == Len(c.points)
      m == Len(c.segments)
      Seen(i) == OnAxis(k, c.points[i].x)
      Runs(i) == c.points[i].at \in R
  IN  /\ c.flag => m > 0 /\ n > 0 /\ c.segments[m].start <= c.points[n].x
      /\ \A i \in 1 .. n : Seen(i) /\ Runs(i) =>
           \E s \in 1 .. m : c.segments[s].start <= c.points[i].x /\ c.points[i].x <= c.segments[s].end
      /\ \A i \in 1 .. n, s \in 1 .. m : Seen(i) /\ ~Runs(i) =>
           \/ c.points[i].x < c.segments[s].start
           \/ /\ c.segments[s].end = AxisMax(k) \/ c.segments[s].end <= c.points[i].x
              /\ c.flag => s # m
      /\ \A s \in 1 .. m :
           c.segments[s].end # AxisMax(k) => n > 0 /\ c.segments[s].end <= c.points[n].x

ChartInv == \A k \in Kinds :
  /\ InLine(k, page.charts[k].points)
  /\ BarsFit(k, page.charts[k], running)

-----------------------------------------------------------------------------
(* Keep.                                                                   *)

LEMMA LeastOf ==
  ASSUME NEW A \in SUBSET Nat, A # {}
  PROVE  \E n \in A : \A m \in A : n <= m
<1>1. PICK n \in A : \A m \in A : ~ (<<m, n>> \in OpToRel(<, Nat))
  BY NatLessThanWellFounded, WFMin
<1>2. \A m \in A : ~ (m < n)
  BY <1>1 DEF OpToRel
<1> QED
  BY <1>2

\* The lists kept of the first elements of a list, up to n of them.
KeptUpTo(list, S, n, F) ==
  F = [i \in 0 .. n |->
         IF i = 0 THEN << >>
         ELSE IF list[i] \in S THEN Append(F[i - 1], list[i]) ELSE F[i - 1]]

LEMMA KeptExists ==
  ASSUME NEW list, NEW S, NEW n \in Nat
  PROVE  \E F : KeptUpTo(list, S, n, F)
<1> DEFINE A == {m \in Nat : ~ \E F : KeptUpTo(list, S, m, F)}
<1> SUFFICES ASSUME A # {} PROVE FALSE
  OBVIOUS
<1>0. A \in SUBSET Nat /\ A # {}
  OBVIOUS
<1>1. PICK m \in A : \A i \in A : m <= i
  BY <1>0, LeastOf
<1>2. PICK G : m > 0 => KeptUpTo(list, S, m - 1, G)
  BY <1>1
<1> DEFINE R(H, i) == IF i = 0 THEN << >>
                      ELSE IF list[i] \in S THEN Append(H[i - 1], list[i]) ELSE H[i - 1]
           F == [i \in 0 .. m |-> R(G, i)]
<1>3. ASSUME NEW i \in 0 .. m PROVE R(G, i) = R(F, i)
  <2>1. CASE i = 0
    BY <2>1
  <2>2. CASE i # 0
    <3>1. m > 0 /\ i - 1 \in 0 .. m - 1 /\ i - 1 \in 0 .. m
      BY <1>1, <2>2
    <3>2. G[i - 1] = R(G, i - 1)
      BY <1>2, <3>1 DEF KeptUpTo
    <3>3. F[i - 1] = R(G, i - 1)
      BY <3>1
    <3> HIDE DEF F
    <3> QED BY <3>2, <3>3
  <2> QED BY <2>1, <2>2
<1> HIDE DEF R
<1>4. F = [i \in 0 .. m |-> R(F, i)]
  BY <1>3
<1>5. KeptUpTo(list, S, m, F)
  BY <1>4 DEF KeptUpTo, R
<1> QED BY <1>1, <1>5

LEMMA KeepIsKept ==
  ASSUME NEW T, NEW list \in Seq(T), NEW S
  PROVE  \E F : KeptUpTo(list, S, Len(list), F) /\ Keep(list, S) = F[Len(list)]
<1> DEFINE G == CHOOSE F : KeptUpTo(list, S, Len(list), F)
<1>1. KeptUpTo(list, S, Len(list), G)
  <2>1. Len(list) \in Nat
    OBVIOUS
  <2> QED BY <2>1, KeptExists
<1>2. Keep(list, S) = G[Len(list)]
  BY DEF Keep, KeptUpTo
<1> QED BY <1>1, <1>2

\* out has the members of the first n elements of list that are in S, in order: e says
\* where they are.
Picks(list, S, n, out, e) ==
  /\ e \in [1 .. Len(out) -> 1 .. n]
  /\ \A i \in 1 .. Len(out) : out[i] = list[e[i]] /\ list[e[i]] \in S
  /\ \A i \in 1 .. Len(out), j \in 1 .. Len(out) : i < j => e[i] < e[j]
  /\ \A i \in 1 .. n : list[i] \in S => \E j \in 1 .. Len(out) : e[j] = i

LEMMA PickMore ==
  ASSUME NEW T, NEW list \in Seq(T), NEW S, NEW n \in 1 .. Len(list), NEW out \in Seq(T),
         NEW e, Picks(list, S, n - 1, out, e)
  PROVE  /\ list[n] \in S =>
              /\ Append(out, list[n]) \in Seq(T)
              /\ Picks(list, S, n, Append(out, list[n]),
                       [i \in 1 .. Len(out) + 1 |-> IF i <= Len(out) THEN e[i] ELSE n])
         /\ list[n] \notin S => Picks(list, S, n, out, e)
<1>1. CASE list[n] \in S
  <2> DEFINE o == Append(out, list[n])
             m == Len(out)
             f == [i \in 1 .. m + 1 |-> IF i <= m THEN e[i] ELSE n]
  <2>1. o \in Seq(T) /\ Len(o) = m + 1 /\ m \in Nat /\ o[m + 1] = list[n]
        /\ \A i \in 1 .. m : o[i] = out[i]
    OBVIOUS
  <2>0. \A i \in 1 .. m : e[i] \in 1 .. n - 1
    <3>1. e \in [1 .. m -> 1 .. n - 1]
      BY DEF Picks
    <3> HIDE DEF m
    <3> QED BY <3>1
  <2>2. \A i \in 1 .. m : e[i] \in 1 .. n - 1 /\ f[i] = e[i]
    <3> TAKE i \in 1 .. m
    <3>1. e[i] \in 1 .. n - 1
      BY <2>0
    <3> HIDE DEF m
    <3>2. i \in 1 .. m + 1 /\ i <= m
      BY <2>1
    <3>3. f[i] = e[i]
      BY <3>2
    <3> QED BY <3>1, <3>3
  <2>3. f[m + 1] = n /\ n \in Nat
    BY <2>1
  <2>4. f \in [1 .. Len(o) -> 1 .. n]
    <3>1. \A i \in 1 .. m + 1 : (IF i <= m THEN e[i] ELSE n) \in 1 .. n
      <4> TAKE i \in 1 .. m + 1
      <4>1. CASE i <= m
        <5>2. i \in 1 .. m
          BY <2>1, <4>1
        <5> HIDE DEF m, f
        <5>1. e[i] \in 1 .. n - 1
          BY <2>2, <5>2
        <5> QED BY <4>1, <5>1
      <4>2. CASE ~ (i <= m)
        BY <4>2
      <4> QED BY <4>1, <4>2
    <3> QED BY <2>1, <3>1
  <2> HIDE DEF o, m, f
  <2>5. \A i \in 1 .. m + 1 : i \in 1 .. m \/ i = m + 1
    BY <2>1
  <2>6. \A i \in 1 .. m : out[i] = list[e[i]] /\ list[e[i]] \in S
    BY DEF Picks, m
  <2>7. \A i \in 1 .. m, j \in 1 .. m : i < j => e[i] < e[j]
    BY DEF Picks, m
  <2>8. \A i \in 1 .. m + 1 : o[i] = list[f[i]] /\ list[f[i]] \in S
    BY <1>1, <2>1, <2>2, <2>3, <2>5, <2>6
  <2>9. \A i \in 1 .. m + 1, j \in 1 .. m + 1 : i < j => f[i] < f[j]
    BY <2>1, <2>2, <2>3, <2>5, <2>7
  <2>10. ASSUME NEW i \in 1 .. n, list[i] \in S
         PROVE  \E j \in 1 .. m + 1 : f[j] = i
    <3>1. CASE i = n
      BY <2>1, <2>3, <3>1
    <3>2. CASE i # n
      <4>1. i \in 1 .. n - 1
        BY <3>2
      <4>2. PICK j \in 1 .. m : e[j] = i
        BY <2>10, <4>1 DEF Picks, m
      <4>3. j \in 1 .. m + 1 /\ f[j] = i
        BY <2>1, <2>2, <4>2
      <4> QED BY <4>3
    <3> QED BY <3>1, <3>2
  <2>11. Picks(list, S, n, o, f)
    BY <2>1, <2>4, <2>8, <2>9, <2>10 DEF Picks
  <2> QED BY <1>1, <2>1, <2>11 DEF o, f, m
<1>2. CASE list[n] \notin S
  BY <1>2 DEF Picks
<1> QED BY <1>1, <1>2

\* What Keep returns.
LEMMA KeepPicks ==
  ASSUME NEW T, NEW list \in Seq(T), NEW S
  PROVE  /\ Keep(list, S) \in Seq(T)
         /\ \E e : Picks(list, S, Len(list), Keep(list, S), e)
<1>1. PICK F : KeptUpTo(list, S, Len(list), F) /\ Keep(list, S) = F[Len(list)]
  BY KeepIsKept
<1> DEFINE Good(n) == F[n] \in Seq(T) /\ \E e : Picks(list, S, n, F[n], e)
           A == {n \in 0 .. Len(list) : ~ Good(n)}
<1>2. SUFFICES ASSUME A # {} PROVE FALSE
  BY <1>1
<1>3. PICK n \in A : \A i \in A : n <= i
  <2>1. A \in SUBSET Nat
    OBVIOUS
  <2> HIDE DEF A
  <2> QED BY <1>2, <2>1, LeastOf
<1>7. n \in 0 .. Len(list) /\ ~ Good(n)
  BY <1>3
<1>4. CASE n = 0
  <2>1. F[0] = << >>
    BY <1>1 DEF KeptUpTo
  <2>2. Picks(list, S, 0, << >>, << >>)
    BY DEF Picks
  <2>3. F[0] \in Seq(T) /\ Picks(list, S, 0, F[0], << >>)
    BY <2>1, <2>2
  <2> QED BY <1>7, <1>4, <2>3
<1>5. CASE n # 0
  <2>1. n \in 1 .. Len(list) /\ n - 1 \in 0 .. Len(list)
    BY <1>7, <1>5
  <2>6. n - 1 \notin A
    <3> HIDE DEF A
    <3> QED BY <1>3, <2>1
  <2>2. Good(n - 1)
    BY <2>1, <2>6
  <2>3. PICK e : Picks(list, S, n - 1, F[n - 1], e)
    BY <2>2
  <2>4. F[n] = IF list[n] \in S THEN Append(F[n - 1], list[n]) ELSE F[n - 1]
    <3> HIDE DEF A
    <3>1. n \in 0 .. Len(list) /\ n # 0
      BY <2>1
    <3>2. F = [i \in 0 .. Len(list) |->
                IF i = 0 THEN << >>
                ELSE IF list[i] \in S THEN Append(F[i - 1], list[i]) ELSE F[i - 1]]
      BY <1>1 DEF KeptUpTo
    <3> QED BY <3>1, <3>2
  <2>5. Good(n)
    <3> HIDE DEF A
    <3>1. CASE list[n] \in S
      <4>1. F[n] = Append(F[n - 1], list[n])
        BY <2>4, <3>1
      <4>2. F[n] \in Seq(T)
        BY <2>1, <2>2, <2>3, <3>1, <4>1, PickMore
      <4>3. \E g : Picks(list, S, n, Append(F[n - 1], list[n]), g)
        BY <2>1, <2>2, <2>3, <3>1, PickMore
      <4> QED BY <4>1, <4>2, <4>3
    <3>2. CASE list[n] \notin S
      BY <2>1, <2>2, <2>3, <2>4, <3>2, PickMore
    <3> QED BY <3>1, <3>2
  <2> QED BY <1>7, <2>5
<1> QED BY <1>4, <1>5
-----------------------------------------------------------------------------
(* Types.                                                                  *)

LEMMA MaxOfTwo ==
  ASSUME NEW a \in Int, NEW b \in Int
  PROVE  Max({a, b}) \in {a, b} /\ Max({a, b}) >= a /\ Max({a, b}) >= b
<1>1. \E x \in {a, b} : \A y \in {a, b} : x >= y
  OBVIOUS
<1> QED BY <1>1 DEF Max

LEMMA MaxOfZero ==
  ASSUME NEW y \in Int
  PROVE  Max({0, y}) \in Int /\ Max({0, y}) >= 0 /\ Max({0, y}) >= y
<1>1. Max({0, y}) \in {0, y} /\ Max({0, y}) >= 0 /\ Max({0, y}) >= y
  BY MaxOfTwo
<1> QED BY <1>1

LEMMA MinOfTwo ==
  ASSUME NEW a \in Int, NEW b \in Int
  PROVE  Min({a, b}) \in {a, b} /\ Min({a, b}) <= a /\ Min({a, b}) <= b
<1>1. \E x \in {a, b} : \A y \in {a, b} : x <= y
  OBVIOUS
<1> QED BY <1>1 DEF Min

LEMMA MinOfSet ==
  ASSUME NEW A \in SUBSET Nat, A # {}
  PROVE  Min(A) \in A /\ \A x \in A : Min(A) <= x
<1>1. \E x \in A : \A y \in A : x <= y
  BY LeastOf
<1> QED BY <1>1 DEF Min

LEMMA WindowType ==
  ASSUME NEW k \in Kinds
  PROVE  /\ Window(k).zero \in Int /\ Window(k).from \in Int /\ Window(k).to \in Int
         /\ AxisMax(k) \in Int /\ AxisMin \in Int
<1> DEFINE stable == Recipe.start
           stop == Recipe.start + Recipe.stable
<1>1. Context \in Nat /\ stable \in Nat /\ stop \in Nat /\ Recipe.stop \in Nat
  BY ChartAssumption
<1>2. Max({0, stable - Context}) \in Int /\ Max({0, stop - Context}) \in Int
  <2>1. stable - Context \in Int /\ stop - Context \in Int
    BY <1>1
  <2> HIDE DEF stable, stop
  <2>2. \A x \in Int : Max({0, x}) \in Int
    BY MaxOfZero
  <2> QED BY <2>1, <2>2
<1>3. Total \in Int
  BY <1>1 DEF Total
<1> HIDE DEF stable, stop
<1>4. Window(k).zero \in Int /\ Window(k).from \in Int /\ Window(k).to \in Int
  BY <1>1, <1>2, <1>3 DEF Window, Kinds, stable, stop
<1>5. AxisMax(k) \in Int /\ AxisMin \in Int
  BY <1>1, <1>4 DEF AxisMax, AxisMin
<1> QED BY <1>4, <1>5

LEMMA ElementType ==
  ASSUME NEW T, NEW s \in Seq(T)
  PROVE  DOMAIN s = 1 .. Len(s) /\ Len(s) \in Nat /\ \A i \in 1 .. Len(s) : s[i] \in T
OBVIOUS

LEMMA LastType ==
  ASSUME NEW T, NEW s \in Seq(T), s # << >>
  PROVE  Len(s) \in 1 .. Len(s) /\ s[Len(s)] \in T
OBVIOUS

LEMMA InOrderFacts ==
  ASSUME NEW S \in SUBSET Stamps
  PROVE  /\ InOrder(S) \in Seq(Stamps)
         /\ \A i \in 1 .. Len(InOrder(S)) : InOrder(S)[i] \in S
         /\ \A i \in 1 .. Len(InOrder(S)), j \in 1 .. Len(InOrder(S)) :
              i < j => InOrder(S)[i] < InOrder(S)[j]
<1> DEFINE all == [i \in 1 .. MaxTime + 1 |-> i - 1]
<1>1. all \in Seq(Stamps) /\ Len(all) = MaxTime + 1 /\ \A i \in 1 .. MaxTime + 1 : all[i] = i - 1
  <2>1. MaxTime + 1 \in Nat /\ \A i \in 1 .. MaxTime + 1 : i - 1 \in Stamps
    BY ChartAssumption DEF Stamps
  <2> QED BY <2>1
<1>2. InOrder(S) = Keep(all, S)
  BY DEF InOrder
<1> HIDE DEF all
<1>3. Keep(all, S) \in Seq(Stamps)
  BY <1>1, KeepPicks
<1>4. PICK e : Picks(all, S, MaxTime + 1, Keep(all, S), e)
  BY <1>1, KeepPicks
<1>5. \A i \in 1 .. Len(Keep(all, S)) :
        e[i] \in 1 .. MaxTime + 1 /\ Keep(all, S)[i] = e[i] - 1 /\ Keep(all, S)[i] \in S
  BY <1>1, <1>4 DEF Picks
<1>6. \A i \in 1 .. Len(Keep(all, S)), j \in 1 .. Len(Keep(all, S)) : i < j => e[i] < e[j]
  BY <1>4 DEF Picks
<1> QED BY <1>2, <1>3, <1>5, <1>6

LEMMA BeforeType ==
  ASSUME test \in Test, NEW k
  PROVE  BeforeStart(k) \in Seq(Stamps)
BY DEF Test, BeforeStart

LEMMA SourceType ==
  ASSUME test \in Test, stored \in SUBSET Stamps, NEW k
  PROVE  Source(k) \in Seq(Stamps)
<1>1. BeforeStart(k) \o InOrder(stored) \in Seq(Stamps)
  BY BeforeType, InOrderFacts
<1> QED BY <1>1, KeepPicks DEF Source

\* The points a chart shows, and where each of them was among all.
SeenPoints(k, all) == Keep(all, {p \in ToSet(all) : OnAxis(k, p.x)})

LEMMA SeenType ==
  ASSUME NEW k, NEW all \in Points
  PROVE  SeenPoints(k, all) \in Points
BY KeepPicks DEF Points, SeenPoints

On(points, i) == ShowsRunning(points[i].at)
Begins(points) == {i \in DOMAIN points : On(points, i) /\ (i > 1 => ~On(points, i - 1))}
StopsOf(points, i) == {j \in DOMAIN points : j > i /\ ~On(points, j)}
SegmentOf(k, points, i) ==
  [start |-> points[i].x,
   end |-> IF StopsOf(points, i) = {} THEN AxisMax(k) ELSE points[Min(StopsOf(points, i))].x]
Order(points) == Keep([i \in DOMAIN points |-> i], Begins(points))
SegmentsOf(k, points) ==
  [i \in DOMAIN Order(points) |-> SegmentOf(k, points, Order(points)[i])]

LEMMA BandsAre ==
  ASSUME NEW k, NEW all
  PROVE  /\ Bands(k, all).segments = SegmentsOf(k, SeenPoints(k, all))
         /\ Bands(k, all).flag = (SeenPoints(k, all) # << >>
                                    /\ On(SeenPoints(k, all), Len(SeenPoints(k, all))))
BY DEF Bands, SegmentsOf, SegmentOf, Order, Begins, StopsOf, On, SeenPoints

\* The indices at which segments begin, in order.
LEMMA OrderFacts ==
  ASSUME NEW points \in Points
  PROVE  /\ Order(points) \in Seq(Begins(points))
         /\ \A i \in 1 .. Len(Order(points)), j \in 1 .. Len(Order(points)) :
              i < j => Order(points)[i] < Order(points)[j]
         /\ \A b \in Begins(points) : \E j \in 1 .. Len(Order(points)) : Order(points)[j] = b
<1> DEFINE n == Len(points)
           all == [i \in DOMAIN points |-> i]
           B == Begins(points)
<1>1. n \in Nat /\ DOMAIN points = 1 .. n /\ B \in SUBSET (1 .. n)
  BY DEF Points, Begins
<1>2. all \in Seq(1 .. n) /\ Len(all) = n /\ \A i \in 1 .. n : all[i] = i
  BY <1>1
<1>3. Order(points) = Keep(all, B)
  BY DEF Order
<1> HIDE DEF all, B, n
<1>4. Keep(all, B) \in Seq(1 .. n)
  BY <1>2, KeepPicks
<1>5. PICK e : Picks(all, B, n, Keep(all, B), e)
  BY <1>2, KeepPicks
<1>6. \A i \in 1 .. Len(Keep(all, B)) :
        e[i] \in 1 .. n /\ Keep(all, B)[i] = e[i] /\ Keep(all, B)[i] \in B
  BY <1>2, <1>5 DEF Picks
<1>7. \A i \in 1 .. Len(Keep(all, B)), j \in 1 .. Len(Keep(all, B)) : i < j => e[i] < e[j]
  BY <1>5 DEF Picks
<1>8. \A b \in B : \E j \in 1 .. Len(Keep(all, B)) : e[j] = b
  BY <1>1, <1>2, <1>5 DEF Picks
<1>9. Keep(all, B) \in Seq(B)
  BY <1>4, <1>6
<1> QED BY <1>3, <1>6, <1>7, <1>8, <1>9 DEF B

LEMMA SegmentsType ==
  ASSUME NEW k \in Kinds, NEW points \in Points
  PROVE  /\ SegmentsOf(k, points) \in Segments
         /\ Len(SegmentsOf(k, points)) = Len(Order(points))
         /\ \A i \in 1 .. Len(Order(points)) :
              /\ Order(points)[i] \in Begins(points) /\ Begins(points) \subseteq DOMAIN points
              /\ SegmentsOf(k, points)[i] = SegmentOf(k, points, Order(points)[i])
<1>1. Order(points) \in Seq(Begins(points))
  BY OrderFacts
<1>2. DOMAIN points = 1 .. Len(points) /\ \A i \in DOMAIN points : points[i].x \in Int
  <2>1. points \in Seq([x : Int, at : Stamps])
    BY DEF Points
  <2>2. \A i \in 1 .. Len(points) : points[i] \in [x : Int, at : Stamps]
    BY <2>1, ElementType
  <2>3. DOMAIN points = 1 .. Len(points)
    BY <2>1
  <2> QED BY <2>2, <2>3
<1>3. \A i \in DOMAIN points : StopsOf(points, i) # {} => Min(StopsOf(points, i)) \in DOMAIN points
  <2> TAKE i \in DOMAIN points
  <2> HAVE StopsOf(points, i) # {}
  <2>1. StopsOf(points, i) \in SUBSET Nat /\ StopsOf(points, i) \in SUBSET DOMAIN points
    BY <1>2 DEF StopsOf
  <2> QED BY <2>1, MinOfSet
<1>4. \A i \in DOMAIN points : SegmentOf(k, points, i) \in [start : Int, end : Int]
  BY <1>2, <1>3, WindowType DEF SegmentOf
<1>5. Begins(points) \subseteq DOMAIN points
  BY DEF Begins
<1> DEFINE o == Order(points)
<1>6. o \in Seq(DOMAIN points) /\ DOMAIN o = 1 .. Len(o) /\ Len(o) \in Nat
      /\ \A i \in 1 .. Len(o) : o[i] \in Begins(points) /\ o[i] \in DOMAIN points
  BY <1>1, <1>5
<1>7. SegmentsOf(k, points) = [i \in 1 .. Len(o) |-> SegmentOf(k, points, o[i])]
  BY <1>6 DEF SegmentsOf
<1> HIDE DEF o
<1>8. SegmentsOf(k, points) \in Seq([start : Int, end : Int])
  <2>1. \A i \in 1 .. Len(o) : SegmentOf(k, points, o[i]) \in [start : Int, end : Int]
    BY <1>4, <1>6
  <2> QED BY <1>6, <1>7, <2>1
<1>9. Len(SegmentsOf(k, points)) = Len(o)
      /\ \A i \in 1 .. Len(o) : SegmentsOf(k, points)[i] = SegmentOf(k, points, o[i])
  BY <1>6, <1>7
<1> QED BY <1>5, <1>6, <1>8, <1>9 DEF Segments, o

LEMMA ServerChartType ==
  ASSUME test \in Test, stored \in SUBSET Stamps, NEW k \in Kinds
  PROVE  ServerChart(k) \in Chart
<1> DEFINE records == Source(k)
           points == [i \in DOMAIN records |->
                        [x |-> Elapsed(records[i]) - Window(k).zero, at |-> records[i]]]
<1>1. records \in Seq(Stamps)
  BY SourceType
<1>2. points \in Points
  <2>1. \A r \in Stamps : Elapsed(r) - Window(k).zero \in Int
    BY WindowType, ChartAssumption DEF Elapsed, Test, Stamps, OptStamp, NotSet
  <2>2. DOMAIN records = 1 .. Len(records) /\ Len(records) \in Nat
        /\ \A i \in 1 .. Len(records) : records[i] \in Stamps
    BY <1>1
  <2> HIDE DEF records
  <2>3. \A i \in 1 .. Len(records) :
          [x |-> Elapsed(records[i]) - Window(k).zero, at |-> records[i]] \in [x : Int, at : Stamps]
    BY <2>1, <2>2
  <2>4. points \in Seq([x : Int, at : Stamps])
    BY <2>2, <2>3
  <2> QED BY <2>4 DEF Points
<1>3. ServerChart(k) = [points |-> points, segments |-> Bands(k, points).segments,
                        flag |-> Bands(k, points).flag]
  BY DEF ServerChart
<1> HIDE DEF points
<1>4. SeenPoints(k, points) \in Points
  BY <1>2, SeenType
<1>5. Bands(k, points).segments \in Segments
  BY <1>4, BandsAre, SegmentsType
<1>6. Bands(k, points).flag \in BOOLEAN
  BY BandsAre
<1> QED BY <1>2, <1>3, <1>5, <1>6 DEF Chart
LEMMA DrawnType ==
  ASSUME NEW k \in Kinds, NEW c \in Chart, NEW started \in OptStamp, NEW r \in Stamps
  PROVE  Drawn(k, c, started, r) \in Chart
<1> DEFINE elapsed == Max({0, r - started})
           x == elapsed - Window(k).zero
<1>1. x \in Int
  <2>1. r - started \in Int
    BY ChartAssumption DEF Stamps, OptStamp, NotSet
  <2>2. elapsed \in Int
    <3>1. \A y \in Int : Max({0, y}) \in Int
      BY MaxOfZero
    <3> QED BY <2>1, <3>1
  <2> QED BY <2>2, WindowType
<1>2. Drawn(k, c, started, r) =
        IF ~TakesPoint(k, c, elapsed) THEN c
        ELSE [points |-> Append(c.points, [x |-> x, at |-> r]),
              segments |-> IF r \in running THEN Extend(c, x) ELSE c.segments,
              flag |-> r \in running]
  BY DEF Drawn
<1> HIDE DEF elapsed, x
<1>3. c.points \in Seq([x : Int, at : Stamps]) /\ c.segments \in Seq([start : Int, end : Int])
  BY DEF Chart, Points, Segments
<1>4. Append(c.points, [x |-> x, at |-> r]) \in Points
  <2>1. [x |-> x, at |-> r] \in [x : Int, at : Stamps]
    BY <1>1
  <2> QED BY <1>3, <2>1 DEF Points
<1>5. Extend(c, x) \in Segments
  <2>1. [start |-> x, end |-> x] \in [start : Int, end : Int]
    BY <1>1
  <2>2. Append(c.segments, [start |-> x, end |-> x]) \in Segments
    BY <1>3, <2>1 DEF Segments
  <2>3. ASSUME c.segments # << >>
        PROVE  [c.segments EXCEPT ![Len(c.segments)].end = x] \in Segments
    <3> DEFINE q == c.segments
               n == Len(q)
    <3>1. n \in 1 .. n /\ q[n] \in [start : Int, end : Int]
      BY <1>3, <2>3, LastType
    <3>2. [q[n] EXCEPT !.end = x] \in [start : Int, end : Int]
      BY <1>1, <3>1
    <3>3. [q EXCEPT ![n].end = x] = [q EXCEPT ![n] = [q[n] EXCEPT !.end = x]]
      OBVIOUS
    <3> HIDE DEF q, n
    <3>4. [q EXCEPT ![n] = [q[n] EXCEPT !.end = x]] \in Seq([start : Int, end : Int])
      BY <1>3, <3>1, <3>2 DEF q, n
    <3> QED BY <3>3, <3>4 DEF q, n, Segments
  <2> QED BY <2>2, <2>3 DEF Extend
<1>6. c.segments \in Segments
  BY DEF Chart
<1> QED BY <1>2, <1>4, <1>5, <1>6 DEF Chart

\* The fields of a page.
Page == [at : Places, test : 0 .. MaxTests, phase : Phases, charts : [Kinds -> Chart],
         pending : Seq(Message), notice : BOOLEAN]

LEMMA StartedType ==
  ASSUME NEW id \in 0 .. MaxTests, NEW t \in OptStamp, NEW before \in Seq(Stamps)
  PROVE  [id |-> id, phase |-> "START", started |-> t, since |-> t, prestart |-> before] \in Test
BY DEF Test, Phases

LEMMA PhaseType ==
  ASSUME NEW t \in Test, NEW phase \in Phases, NEW since \in OptStamp
  PROVE  [t EXCEPT !.phase = phase, !.since = since] \in Test
BY DEF Test

LEMMA NoticeType ==
  ASSUME NEW p \in Page, NEW b \in BOOLEAN
  PROVE  [p EXCEPT !.notice = b, !.pending = << >>] \in Page
<1>1. << >> \in Seq(Message)
  OBVIOUS
<1> QED BY <1>1 DEF Page

LEMMA NoticeFields ==
  ASSUME NEW p \in Page, NEW q, q = [p EXCEPT !.notice = TRUE, !.pending = << >>]
  PROVE  q.test = p.test /\ q.charts = p.charts /\ q.pending = << >>
BY DEF Page

LEMMA ApplyType ==
  ASSUME NEW p \in Page, NEW phase \in Phases, NEW charts \in [Kinds -> Chart]
  PROVE  [p EXCEPT !.phase = phase, !.charts = charts, !.pending = << >>] \in Page
<1>1. << >> \in Seq(Message)
  OBVIOUS
<1> QED BY <1>1 DEF Page

LEMMA NoPageType == NoPage \in Page
<1>1. NoChart \in Chart
  BY DEF NoChart, Chart, Points, Segments
<1>2. NoCharts \in [Kinds -> Chart]
  BY <1>1 DEF NoCharts
<1>3. 0 \in 0 .. MaxTests
  BY ChartAssumption
<1> QED BY <1>2, <1>3 DEF NoPage, Page, Places, Phases

LEMMA ChartsDrawnType ==
  ASSUME NEW charts \in [Kinds -> Chart], NEW started \in OptStamp, NEW r \in Stamps
  PROVE  [k \in Kinds |-> Drawn(k, charts[k], started, r)] \in [Kinds -> Chart]
BY DrawnType

\* A poll that has read a record has one.
HasRecord == pc \in {"polled", "send_polled", "persist"} => rt # NotSet

LEMMA TypeStep == TypeOK /\ HasRecord /\ [Next]_vars => TypeOK' /\ HasRecord'
<1> SUFFICES ASSUME TypeOK, HasRecord, [Next]_vars PROVE TypeOK' /\ HasRecord'
  OBVIOUS
<1> USE ChartAssumption
<1>0. page \in Page
  BY DEF TypeOK, Page
<1>00. SUFFICES /\ (now \in Stamps /\ running \subseteq Stamps)' /\ (test \in Test)'
                /\ (stored \subseteq Stamps)' /\ (rt \in OptStamp)'
                /\ (history \in Seq(Stamps) /\ Len(history) <= HistoryLength)'
                /\ (age \in 0 .. Throttle)' /\ (pc \in PC /\ msg \in Message)'
                /\ page' \in Page /\ HasRecord'
  BY DEF TypeOK, Page
<1>1. CASE StartTest
  <2>1. Keep(history, (now - Context) .. (now - 1)) \in Seq(Stamps)
    BY KeepPicks DEF TypeOK
  <2>2. test.id + 1 \in 0 .. MaxTests /\ now \in OptStamp
    BY <1>1 DEF StartTest, TypeOK, Test, OptStamp
  <2>3. test' \in Test
    <3> DEFINE before == Keep(history, (now - Context) .. (now - 1))
    <3>1. test' = [id |-> test.id + 1, phase |-> "START", started |-> now, since |-> now,
                   prestart |-> before]
      BY <1>1 DEF StartTest
    <3> HIDE DEF before
    <3>2. before \in Seq(Stamps)
      BY <2>1 DEF before
    <3> DEFINE id == test.id + 1
    <3>3. id \in 0 .. MaxTests /\ now \in OptStamp
      BY <2>2
    <3>4. test' = [id |-> id, phase |-> "START", started |-> now, since |-> now,
                   prestart |-> before]
      BY <3>1
    <3> HIDE DEF id
    <3>5. [id |-> id, phase |-> "START", started |-> now, since |-> now, prestart |-> before]
            \in Test
      BY <3>2, <3>3, StartedType
    <3> QED BY <3>4, <3>5
  <2> QED BY <1>0, <1>1, <2>3 DEF StartTest, TypeOK, feed, HasRecord
<1>2. CASE EnterPhase
  <2>1. test' \in Test
    <3>1. PICK phase \in Phases : test' = [test EXCEPT !.phase = phase, !.since = now]
      BY <1>2 DEF EnterPhase, Phases
    <3>2. test \in Test /\ now \in OptStamp
      BY DEF TypeOK, OptStamp
    <3>3. [test EXCEPT !.phase = phase, !.since = now] \in Test
      BY <3>2, PhaseType
    <3> QED BY <3>1, <3>3
  <2> QED BY <1>0, <1>2, <2>1 DEF EnterPhase, TypeOK, feed, HasRecord
<1>3. CASE EndTest
  <2>1. test' \in Test
    BY <1>3 DEF EndTest, TypeOK, Test, EndedTest, Phases, OptStamp
  <2> QED BY <1>0, <1>3, <2>1 DEF EndTest, TypeOK, feed, HasRecord
<1>4. CASE PollRead
  <2>1. Bounded(Append(history, now)) \in Seq(Stamps)
        /\ Len(Bounded(Append(history, now))) <= HistoryLength
    <3> DEFINE long == Append(history, now)
    <3>1. long \in Seq(Stamps) /\ Len(long) = Len(history) + 1 /\ Len(history) \in Nat
          /\ Len(history) <= HistoryLength
      BY DEF TypeOK
    <3> HIDE DEF long
    <3>2. Len(long) > HistoryLength => Tail(long) \in Seq(Stamps) /\ Len(Tail(long)) = Len(long) - 1
      BY <3>1
    <3> QED BY <3>1, <3>2 DEF Bounded, long
  <2> QED BY <1>0, <1>4, <2>1 DEF PollRead, TypeOK, shop, HasRecord, PC, OptStamp, Stamps, NotSet
<1>5. CASE PollFailed
  BY <1>0, <1>5 DEF PollFailed, TypeOK, shop, HasRecord, PC
<1>6. CASE BroadcastPick
  <2>1. msg' \in Message
    BY <1>6 DEF BroadcastPick, TypeOK, Test, Message
  <2>2. pc' \in PC /\ HasRecord'
    BY <1>6 DEF BroadcastPick, PC, HasRecord
  <2> QED BY <1>0, <1>6, <2>1, <2>2 DEF BroadcastPick, TypeOK, shop
<1>7. ASSUME AfterBroadcast, rt' = rt PROVE msg' \in Message /\ pc' \in PC /\ HasRecord'
  <2>1. msg' \in Message
    BY <1>7 DEF AfterBroadcast, NoMessage, Message, Phases, OptStamp
  <2> QED BY <1>7, <2>1 DEF AfterBroadcast, PC, HasRecord
<1>8. CASE Throttled
  BY <1>0, <1>7, <1>8 DEF Throttled, TypeOK, shop, AgeAfterRefusal
<1>9. CASE Send
  <2>1. page' \in Page
    <3>1. <<msg>> \in Seq(Message)
      BY DEF TypeOK
    <3> QED BY <1>0, <1>9, <3>1 DEF Send, Page
  <2> QED BY <1>7, <1>9, <2>1 DEF Send, TypeOK, shop
<1>10. CASE Persist
  <2>1. rt \in Stamps
    BY <1>10 DEF Persist, HasRecord, TypeOK, OptStamp
  <2> QED BY <1>0, <1>10, <2>1 DEF Persist, TypeOK, PC, HasRecord
<1>11. CASE OpenPage
  <2>1. page' \in Page
    BY <1>11, NoPageType DEF OpenPage, Page, Places
  <2> QED BY <1>11, <2>1 DEF OpenPage, TypeOK, shop, feed, HasRecord
<1>12. CASE Render
  <2>1. [k \in Kinds |-> ServerChart(k)] \in [Kinds -> Chart]
    BY ServerChartType DEF TypeOK
  <2> DEFINE charts == [k \in Kinds |-> ServerChart(k)]
  <2> HIDE DEF charts
  <2>2. [page EXCEPT !.at = "rendered", !.test = test.id, !.charts = charts] \in Page
    BY <1>0, <2>1 DEF Page, Places, TypeOK, Test, charts
  <2>3. page' \in Page
    BY <1>12, <2>2, NoPageType DEF Render, charts
  <2> QED BY <1>12, <2>3 DEF Render, TypeOK, shop, feed, HasRecord
<1>13. CASE Connect
  <2>1. page' \in Page
    BY <1>0, <1>13 DEF Connect, Page, Places
  <2> QED BY <1>13, <2>1 DEF Connect, TypeOK, shop, feed, HasRecord
<1>14. CASE Disconnect
  BY <1>14, NoPageType DEF Disconnect, TypeOK, shop, feed, HasRecord
<1>15. CASE Apply
  <2> DEFINE m == Head(page.pending)
             drawn == [k \in Kinds |-> Drawn(k, page.charts[k], m.started, m.rec)]
             charts == IF m.rec = NotSet THEN page.charts ELSE drawn
  <2>1. page.pending \in Seq(Message) /\ page.charts \in [Kinds -> Chart]
    BY <1>0 DEF Page
  <2>2. m \in Message
    BY <1>15, <2>1 DEF Apply
  <2>3. charts \in [Kinds -> Chart]
    <3>1. m.rec # NotSet => m.rec \in Stamps
      BY <2>2 DEF Message, OptStamp
    <3>2. m.started \in OptStamp
      BY <2>2 DEF Message
    <3> HIDE DEF m
    <3> QED BY <2>1, <3>1, <3>2, ChartsDrawnType
  <2>4. page' = IF IsOver(m) THEN [page EXCEPT !.notice = TRUE, !.pending = << >>]
                ELSE IF page.phase \notin {"NONE", m.phase}
                THEN [NoPage EXCEPT !.at = "loading"]
                ELSE [page EXCEPT !.phase = m.phase, !.charts = charts, !.pending = << >>]
    BY <1>15 DEF Apply
  <2> HIDE DEF m, drawn, charts
  <2>5. [page EXCEPT !.notice = TRUE, !.pending = << >>] \in Page
    BY <1>0, NoticeType
  <2>6. [NoPage EXCEPT !.at = "loading"] \in Page
    BY NoPageType DEF Page, Places
  <2>7. [page EXCEPT !.phase = m.phase, !.charts = charts, !.pending = << >>] \in Page
    <3>1. m.phase \in Phases
      BY <2>2 DEF Message
    <3> QED BY <1>0, <2>3, <3>1, ApplyType
  <2>8. page' \in Page
    BY <2>4, <2>5, <2>6, <2>7
  <2> QED BY <1>15, <2>8 DEF Apply, TypeOK, shop, feed, HasRecord
<1>16. CASE Tick
  <2>1. Min({age + 1, Throttle}) \in 0 .. Throttle /\ Min({now + 1, MaxTime}) \in Stamps
    <3>1. age + 1 \in Int /\ Throttle \in Int /\ now + 1 \in Int /\ MaxTime \in Int
      BY DEF TypeOK, Stamps
    <3>2. /\ Min({age + 1, Throttle}) \in {age + 1, Throttle} /\ Min({age + 1, Throttle}) <= Throttle
          /\ Min({now + 1, MaxTime}) \in {now + 1, MaxTime} /\ Min({now + 1, MaxTime}) <= MaxTime
      BY <3>1, MinOfTwo
    <3> QED BY <3>1, <3>2 DEF TypeOK, Stamps
  <2> QED BY <1>0, <1>16, <2>1 DEF Tick, TypeOK, shop, HasRecord
<1>17. CASE UNCHANGED vars
  BY <1>0, <1>17 DEF vars, TypeOK, shop, feed, HasRecord
<1> QED
  BY <1>1, <1>2, <1>3, <1>4, <1>5, <1>6, <1>8, <1>9, <1>10, <1>11, <1>12, <1>13, <1>14, <1>15,
     <1>16, <1>17 DEF Next, PollStep, PageStep

LEMMA TypeInit == Init => TypeOK /\ HasRecord
<1> SUFFICES ASSUME Init PROVE TypeOK /\ HasRecord
  OBVIOUS
<1>1. running \subseteq Stamps /\ 0 \in Stamps /\ 0 \in 0 .. MaxTests /\ Throttle \in 0 .. Throttle
      /\ 0 <= HistoryLength
  BY ChartAssumption DEF Init, Stamps
<1>2. test \in Test
  BY <1>1 DEF Init, EndedTest, Test, Phases, OptStamp
<1>3. msg \in Message
  BY <1>1 DEF Init, NoMessage, Message, Phases, OptStamp
<1>4. page \in Page
  BY NoPageType DEF Init
<1> QED BY <1>1, <1>2, <1>3, <1>4 DEF Init, TypeOK, Page, PC, OptStamp, HasRecord

\* Every record, message, chart and page has its type, and the live history is never
\* longer than its limit (deque of live_history).
THEOREM ChartsTypeCorrect == Spec => []TypeOK
<1>1. Spec => [](TypeOK /\ HasRecord)
  BY TypeInit, TypeStep, PTL DEF Spec
<1> QED BY <1>1, PTL

-----------------------------------------------------------------------------
(* The records go forward.                                                 *)

LEMMA FeedStep == TypeOK /\ FeedInv /\ [Next]_vars => FeedInv'
<1> SUFFICES ASSUME TypeOK, FeedInv, [Next]_vars PROVE FeedInv'
  OBVIOUS
<1> USE ChartAssumption
<1>0. /\ now \in Int /\ rt \in Int /\ rt <= now /\ test.started \in Int /\ test.started <= now
      /\ NotSet \in Int
      /\ \A s \in stored : s \in Int /\ s <= now
      /\ Len(history) \in Nat /\ \A i \in 1 .. Len(history) : history[i] \in Int
      /\ Len(test.prestart) \in Nat /\ \A i \in 1 .. Len(test.prestart) : test.prestart[i] \in Int
  <2>1. test.started \in OptStamp /\ test.prestart \in Seq(Stamps) /\ history \in Seq(Stamps)
    BY DEF TypeOK, Test
  <2>2. \A r \in OptStamp : r \in Int
    BY DEF OptStamp, Stamps, NotSet
  <2>3. \A r \in Stamps : r \in Int
    BY DEF Stamps
  <2>4. Len(history) \in Nat /\ \A i \in 1 .. Len(history) : history[i] \in Stamps
    BY <2>1, ElementType
  <2>5. Len(test.prestart) \in Nat /\ \A i \in 1 .. Len(test.prestart) : test.prestart[i] \in Stamps
    BY <2>1, ElementType
  <2>6. now \in Int /\ rt \in Int /\ test.started \in Int /\ NotSet \in Int
    BY <2>1, <2>2, <2>3 DEF TypeOK, NotSet
  <2>7. rt <= now /\ test.started <= now /\ \A s \in stored : s <= now
    BY DEF FeedInv
  <2>8. \A s \in stored : s \in Int
    BY <2>3 DEF TypeOK
  <2> QED BY <2>3, <2>4, <2>5, <2>6, <2>7, <2>8
<1>1. CASE StartTest
  <2> DEFINE low == now - Context
             S == low .. (now - 1)
             before == Keep(history, S)
  <2>1. history \in Seq(Stamps)
    BY DEF TypeOK
  <2>2. before \in Seq(Stamps)
    BY <2>1, KeepPicks
  <2>3. PICK e : Picks(history, S, Len(history), before, e)
    BY <2>1, KeepPicks
  <2>4. test' = [id |-> test.id + 1, phase |-> "START", started |-> now, since |-> now,
                 prestart |-> before]
    BY <1>1 DEF StartTest
  <2> HIDE DEF before
  <2>5. \A i \in 1 .. Len(before) :
          e[i] \in 1 .. Len(history) /\ before[i] = history[e[i]] /\ before[i] \in S
    BY <2>3 DEF Picks
  <2>6. \A i \in 1 .. Len(before), j \in 1 .. Len(before) : i < j => e[i] < e[j]
    BY <2>3 DEF Picks
  <2>7. ASSUME NEW i \in 1 .. Len(before)
        PROVE  /\ before[i] < now /\ before[i] <= rt
               /\ \A j \in i .. Len(before) : before[i] <= before[j]
    <3>1. before[i] < now
      BY <1>0, <2>5
    <3>2. before[i] <= rt
      BY <2>5 DEF FeedInv
    <3>3. ASSUME NEW j \in i .. Len(before) PROVE before[i] <= before[j]
      <4>1. j \in 1 .. Len(before) /\ i \in Int /\ j \in Int
        BY <2>2
      <4>2. e[i] <= e[j] /\ e[i] \in 1 .. Len(history) /\ e[j] \in 1 .. Len(history)
        <5>1. CASE i = j
          <6>1. e[i] \in 1 .. Len(history)
            BY <2>5
          <6> QED BY <1>0, <5>1, <6>1
        <5>2. CASE i < j
          <6>1. e[i] < e[j]
            BY <2>6, <4>1, <5>2
          <6>2. e[i] \in 1 .. Len(history) /\ e[j] \in 1 .. Len(history)
            BY <2>5, <4>1
          <6> QED BY <1>0, <6>1, <6>2
        <5>3. i = j \/ i < j
          BY <4>1
        <5> QED BY <5>1, <5>2, <5>3
      <4>3. history[e[i]] <= history[e[j]]
        <5>1. e[j] \in e[i] .. Len(history)
          BY <1>0, <4>2
        <5> QED BY <4>2, <5>1 DEF FeedInv
      <4> QED BY <2>5, <4>1, <4>3
    <3> QED BY <3>1, <3>2, <3>3
  <2>8. stored = {} /\ stored' = stored
    BY <1>1 DEF StartTest, FeedInv
  <2>9. test'.prestart = before /\ test'.started = now
    BY <2>4
  <2>10. now' = now /\ rt' = rt /\ history' = history /\ pc' = pc
    BY <1>1 DEF StartTest, feed
  <2>11. /\ pc' \in {"polled", "send_polled", "persist"} => rt' # NotSet
         /\ rt' <= now' /\ test'.started <= now'
         /\ \A i \in 1 .. Len(history') :
              /\ history'[i] <= rt'
              /\ \A j \in i .. Len(history') : history'[i] <= history'[j]
    <3>1. now <= now
      BY <1>0
    <3> QED BY <3>1, <2>9, <2>10 DEF FeedInv
  <2>12. \A i \in 1 .. Len(test'.prestart) :
           /\ test'.prestart[i] < test'.started /\ test'.prestart[i] <= rt'
           /\ \A j \in i .. Len(test'.prestart) : test'.prestart[i] <= test'.prestart[j]
    BY <2>7, <2>9, <2>10
  <2>13. stored' = {}
    BY <2>8
  <2> HIDE DEF S, low
  <2> QED BY <2>11, <2>12, <2>13 DEF FeedInv
<1>2. CASE EnterPhase
  <2>1. test'.started = test.started /\ test'.prestart = test.prestart /\ (Active => Active')
    BY <1>2 DEF EnterPhase, TypeOK, Test, Active
  <2> QED BY <1>2, <2>1 DEF EnterPhase, FeedInv, feed
<1>3. CASE EndTest
  <2>1. test'.started = NotSet /\ test'.prestart = << >> /\ stored' = {}
    BY <1>3 DEF EndTest, EndedTest
  <2>2. now' = now /\ rt' = rt /\ history' = history /\ pc' = pc
    BY <1>3 DEF EndTest, feed
  <2>3. NotSet <= now
    BY DEF NotSet, TypeOK, Stamps
  <2> QED BY <2>1, <2>2, <2>3 DEF FeedInv
<1>4. CASE PollRead
  <2> DEFINE long == Append(history, now)
             n == Len(history)
  <2>1. n \in Nat /\ Len(long) = n + 1 /\ long \in Seq(Stamps) /\ long[n + 1] = now
        /\ \A i \in 1 .. n : long[i] = history[i]
    BY DEF TypeOK
  <2> HIDE DEF long, n
  <2>2. \A i \in 1 .. n + 1 : long[i] <= now /\ \A j \in i .. n + 1 : long[i] <= long[j]
    <3>1. \A i \in 1 .. n : history[i] \in Int /\ history[i] <= now
                            /\ \A j \in i .. n : history[i] <= history[j]
      BY <1>0 DEF FeedInv, n
    <3>2. \A i \in 1 .. n + 1 : i \in 1 .. n \/ i = n + 1
      BY <2>1
    <3>3. \A i \in 1 .. n + 1 : long[i] <= now
      BY <1>0, <2>1, <3>1, <3>2
    <3>4. ASSUME NEW i \in 1 .. n + 1, NEW j \in i .. n + 1 PROVE long[i] <= long[j]
      <4>1. CASE j = n + 1
        BY <2>1, <3>3, <4>1
      <4>2. CASE j # n + 1
        <5>1. i \in 1 .. n /\ j \in i .. n /\ j \in 1 .. n
          BY <2>1, <4>2
        <5> QED BY <2>1, <3>1, <5>1
      <4> QED BY <4>1, <4>2
    <3> QED BY <3>3, <3>4
  <2>3. history' = IF Len(long) > HistoryLength THEN Tail(long) ELSE long
    BY <1>4 DEF PollRead, Bounded, long
  <2>4. /\ Len(history') \in Nat
        /\ \A i \in 1 .. Len(history') : history'[i] <= now
             /\ \A j \in i .. Len(history') : history'[i] <= history'[j]
    <3>1. CASE Len(long) > HistoryLength
      <4>1. Len(Tail(long)) = n /\ \A i \in 1 .. n : Tail(long)[i] = long[i + 1]
        BY <2>1
      <4>2. \A i \in 1 .. n : i + 1 \in 1 .. n + 1 /\ \A j \in i .. n : j + 1 \in i + 1 .. n + 1 /\ j \in 1 .. n
        BY <2>1
      <4>3. history' = Tail(long)
        BY <2>3, <3>1
      <4>4. \A i \in 1 .. n : Tail(long)[i] <= now
                 /\ \A j \in i .. n : Tail(long)[i] <= Tail(long)[j]
        BY <2>2, <4>1, <4>2
      <4> QED BY <2>1, <4>1, <4>3, <4>4
    <3>2. CASE ~ (Len(long) > HistoryLength)
      BY <2>1, <2>2, <2>3, <3>2
    <3> QED BY <3>1, <3>2
  <2>5. rt' = now /\ now' = now /\ test' = test /\ stored' = stored
    BY <1>4 DEF PollRead, shop
  <2>6. \A i \in 1 .. Len(test.prestart) : test.prestart[i] <= now
    BY <1>0 DEF FeedInv
  <2>7. now # NotSet
    BY DEF TypeOK, Stamps, NotSet
  <2> QED BY <1>0, <2>4, <2>5, <2>6, <2>7 DEF FeedInv, Active
<1>5. CASE PollFailed
  BY <1>5 DEF PollFailed, FeedInv, shop, Active
<1>6. CASE BroadcastPick
  BY <1>6 DEF BroadcastPick, FeedInv, shop, Active
<1>7. CASE Throttled
  BY <1>7 DEF Throttled, AfterBroadcast, FeedInv, shop, Active
<1>8. CASE Send
  BY <1>8 DEF Send, AfterBroadcast, FeedInv, shop, Active
<1>9. CASE Persist
  <2>1. stored' \subseteq stored \cup {rt} /\ (~Active => stored' = stored)
    BY <1>9 DEF Persist
  <2>2. now' = now /\ rt' = rt /\ test' = test /\ history' = history /\ pc' = "idle"
    BY <1>9 DEF Persist
  <2>3. \A s \in stored' : s <= now
    BY <1>0, <2>1
  <2>4. \A i \in 1 .. Len(test.prestart) : \A s \in stored' : test.prestart[i] <= s
    BY <2>1 DEF FeedInv
  <2> QED BY <2>1, <2>2, <2>3, <2>4 DEF FeedInv, Active
<1>10. CASE Render \/ Connect \/ Apply \/ OpenPage \/ Disconnect
  BY <1>10 DEF Render, Connect, Apply, OpenPage, Disconnect, FeedInv, shop, feed, Active
<1>11. CASE Tick
  <2>1. now' >= now /\ now' \in Int
    <3>1. now + 1 \in Int /\ MaxTime \in Int /\ now <= MaxTime
      BY DEF TypeOK, Stamps
    <3>2. Min({now + 1, MaxTime}) \in {now + 1, MaxTime}
      BY <3>1, MinOfTwo
    <3> QED BY <1>0, <1>11, <3>1, <3>2 DEF Tick
  <2>2. rt' = rt /\ test' = test /\ stored' = stored /\ history' = history /\ pc' = pc
    BY <1>11 DEF Tick, shop
  <2>3. rt <= now' /\ test.started <= now' /\ \A s \in stored : s <= now'
    BY <1>0, <2>1
  <2> QED BY <2>2, <2>3 DEF FeedInv, Active
<1>12. CASE UNCHANGED vars
  BY <1>12 DEF vars, FeedInv, shop, feed, Active
<1> QED
  BY <1>1, <1>2, <1>3, <1>4, <1>5, <1>6, <1>7, <1>8, <1>9, <1>10, <1>11, <1>12
  DEF Next, PollStep, PageStep

LEMMA FeedInit == Init => FeedInv
BY DEF Init, FeedInv, EndedTest, NotSet
-----------------------------------------------------------------------------
(* The charts the server renders are in order.                             *)

\* A record of before the start can be there twice.
RecordsInLine(records) ==
  \A i \in 1 .. Len(records), j \in 1 .. Len(records) : i < j =>
    \/ records[i] < records[j]
    \/ records[i] = records[j] /\ records[i] < test.started

LEMMA TwoLists ==
  ASSUME NEW T, NEW a \in Seq(T), NEW b \in Seq(T), NEW i \in 1 .. Len(a \o b)
  PROVE  \/ i \in 1 .. Len(a) /\ (a \o b)[i] = a[i]
         \/ i > Len(a) /\ i - Len(a) \in 1 .. Len(b) /\ (a \o b)[i] = b[i - Len(a)]
OBVIOUS

LEMMA SourceFacts ==
  ASSUME TypeOK, FeedInv, NEW k \in Kinds
  PROVE  /\ Source(k) \in Seq(Stamps)
         /\ \A i \in 1 .. Len(Source(k)) : Source(k)[i] <= now
         /\ RecordsInLine(Source(k))
<1> DEFINE b == BeforeStart(k)
           o == InOrder(stored)
           w == b \o o
           S == {r \in Stamps : k = "all" \/ (Window(k).from <= Elapsed(r) /\ Elapsed(r) <= Window(k).to)}
<1>1. b \in Seq(Stamps) /\ o \in Seq(Stamps) /\ w \in Seq(Stamps)
  BY BeforeType, InOrderFacts DEF TypeOK
<1>2. Source(k) = Keep(w, S)
  BY DEF Source
<1>3. /\ \A i \in 1 .. Len(o) : o[i] \in stored
      /\ \A i \in 1 .. Len(o), j \in 1 .. Len(o) : i < j => o[i] < o[j]
  BY InOrderFacts DEF TypeOK
<1>4. \A i \in 1 .. Len(b) :
        /\ b[i] < test.started /\ b[i] <= rt
        /\ \A s \in stored : b[i] <= s
        /\ \A j \in i .. Len(b) : b[i] <= b[j]
  BY DEF FeedInv, BeforeStart
<1>5. /\ Len(b) \in Nat /\ Len(o) \in Nat /\ Len(w) \in Nat
      /\ \A i \in 1 .. Len(b) : b[i] \in Int
      /\ \A i \in 1 .. Len(o) : o[i] \in Int
      /\ \A i \in 1 .. Len(w) : w[i] \in Stamps
  <2>1. \A r \in Stamps : r \in Int
    BY DEF Stamps
  <2> HIDE DEF b, o, w
  <2> QED BY <1>1, <2>1, ElementType
<1>6. /\ rt \in Int /\ now \in Int /\ test.started \in Int /\ rt <= now
      /\ \A s \in stored : s \in Int /\ s <= now
  <2>1. \A r \in OptStamp : r \in Int
    BY DEF OptStamp, Stamps, NotSet
  <2>2. rt \in OptStamp /\ now \in OptStamp /\ test.started \in OptStamp
        /\ \A s \in stored : s \in OptStamp
    BY DEF TypeOK, Test, OptStamp
  <2> QED BY <2>1, <2>2 DEF FeedInv
<1> HIDE DEF b, o, S
<1>7. \A i \in 1 .. Len(w) :
        \/ i \in 1 .. Len(b) /\ w[i] = b[i]
        \/ i > Len(b) /\ i - Len(b) \in 1 .. Len(o) /\ w[i] = o[i - Len(b)]
  BY <1>1, TwoLists
<1> HIDE DEF w
<1>8. \A i \in 1 .. Len(w) : w[i] <= now
  <2> TAKE i \in 1 .. Len(w)
  <2>1. CASE i \in 1 .. Len(b) /\ w[i] = b[i]
    <3>1. b[i] <= rt /\ b[i] \in Int
      BY <1>4, <1>5, <2>1
    <3> QED BY <1>6, <2>1, <3>1
  <2>2. CASE i - Len(b) \in 1 .. Len(o) /\ w[i] = o[i - Len(b)]
    BY <1>3, <1>6, <2>2
  <2> QED BY <1>7, <2>1, <2>2
<1>9. RecordsInLine(w)
  <2> SUFFICES ASSUME NEW i \in 1 .. Len(w), NEW j \in 1 .. Len(w), i < j
               PROVE  \/ w[i] < w[j]
                      \/ w[i] = w[j] /\ w[i] < test.started
    BY DEF RecordsInLine
  <2>1. CASE i \in 1 .. Len(b) /\ w[i] = b[i] /\ j \in 1 .. Len(b) /\ w[j] = b[j]
    <3>1. j \in i .. Len(b) /\ b[i] <= b[j] /\ b[i] < test.started /\ b[i] \in Int /\ b[j] \in Int
      <4>1. j \in i .. Len(b)
        BY <1>5, <2>1
      <4> QED BY <1>4, <1>5, <2>1, <4>1
    <3> QED BY <1>6, <2>1, <3>1
  <2>2. CASE i \in 1 .. Len(b) /\ w[i] = b[i] /\ j - Len(b) \in 1 .. Len(o) /\ w[j] = o[j - Len(b)]
    <3>1. w[j] \in stored /\ w[i] <= w[j] /\ w[i] < test.started /\ w[i] \in Int /\ w[j] \in Int
      BY <1>3, <1>4, <1>5, <1>6, <2>2
    <3> QED BY <1>6, <3>1
  <2>3. CASE /\ i - Len(b) \in 1 .. Len(o) /\ w[i] = o[i - Len(b)]
             /\ j - Len(b) \in 1 .. Len(o) /\ w[j] = o[j - Len(b)]
    <3>1. i - Len(b) < j - Len(b)
      BY <1>5
    <3> QED BY <1>3, <2>3, <3>1
  <2>4. ~ (i > Len(b) /\ j \in 1 .. Len(b))
    BY <1>5
  <2> QED BY <1>7, <2>1, <2>2, <2>3, <2>4
<1>10. Keep(w, S) \in Seq(Stamps)
  BY <1>1, KeepPicks
<1>11. PICK e : Picks(w, S, Len(w), Keep(w, S), e)
  BY <1>1, KeepPicks
<1> DEFINE q == Keep(w, S)
<1>12. \A i \in 1 .. Len(q) : e[i] \in 1 .. Len(w) /\ q[i] = w[e[i]]
  BY <1>11 DEF Picks
<1>13. \A i \in 1 .. Len(q), j \in 1 .. Len(q) : i < j => e[i] < e[j]
  BY <1>11 DEF Picks
<1> HIDE DEF q
<1>14. RecordsInLine(q)
  <2> SUFFICES ASSUME NEW i \in 1 .. Len(q), NEW j \in 1 .. Len(q), i < j
               PROVE  \/ q[i] < q[j]
                      \/ q[i] = q[j] /\ q[i] < test.started
    BY DEF RecordsInLine
  <2>1. e[i] \in 1 .. Len(w) /\ e[j] \in 1 .. Len(w) /\ e[i] < e[j]
        /\ q[i] = w[e[i]] /\ q[j] = w[e[j]]
    BY <1>12, <1>13
  <2>2. \/ w[e[i]] < w[e[j]]
        \/ w[e[i]] = w[e[j]] /\ w[e[i]] < test.started
    BY <1>9, <2>1 DEF RecordsInLine
  <2> QED BY <2>1, <2>2
<1>15. \A i \in 1 .. Len(q) : q[i] <= now
  BY <1>8, <1>12
<1> QED BY <1>2, <1>10, <1>14, <1>15 DEF q

LEMMA ServerPoints ==
  ASSUME TypeOK, FeedInv, NEW k \in Kinds
  PROVE  /\ ServerChart(k).points \in Points
         /\ \A i \in 1 .. Len(ServerChart(k).points) : ServerChart(k).points[i].at <= now
         /\ InLine(k, ServerChart(k).points)
<1> DEFINE records == Source(k)
           n == Len(records)
           points == ServerChart(k).points
<1>1. points = [i \in DOMAIN records |->
                  [x |-> Elapsed(records[i]) - Window(k).zero, at |-> records[i]]]
  BY DEF ServerChart
<1>2. points \in Points
  <2>1. test \in Test /\ stored \in SUBSET Stamps
    BY DEF TypeOK
  <2>2. ServerChart(k) \in Chart
    BY <2>1, ServerChartType
  <2> QED BY <2>2 DEF Chart
<1>3. /\ records \in Seq(Stamps)
      /\ \A i \in 1 .. n : records[i] <= now
      /\ RecordsInLine(records)
  BY SourceFacts
<1>4. n \in Nat /\ DOMAIN records = 1 .. n /\ \A i \in 1 .. n : records[i] \in Int
  <2>1. \A r \in Stamps : r \in Int
    BY DEF Stamps
  <2> HIDE DEF records
  <2> QED BY <1>3, <2>1, ElementType
<1>5. test.started \in Int /\ Window(k).zero \in Int
  BY WindowType, ChartAssumption DEF TypeOK, Test, OptStamp, Stamps, NotSet
<1> HIDE DEF records, points, n
<1>6. points = [i \in 1 .. n |-> [x |-> records[i] - test.started - Window(k).zero, at |-> records[i]]]
  BY <1>1, <1>4 DEF Elapsed
<1>7. /\ Len(points) = n
      /\ \A i \in 1 .. n : points[i].x = records[i] - test.started - Window(k).zero
                           /\ points[i].at = records[i]
  BY <1>4, <1>6
<1>8. \A i \in 1 .. n, j \in 1 .. n : i < j =>
        \/ records[i] < records[j]
        \/ records[i] = records[j] /\ records[i] < test.started
  BY <1>3 DEF RecordsInLine, n
<1>9. InLine(k, points)
  <2> SUFFICES ASSUME NEW i \in 1 .. n, NEW j \in 1 .. n, i < j
               PROVE  \/ points[i].x < points[j].x
                      \/ /\ points[i].x = points[j].x /\ points[i].at = points[j].at
                         /\ points[i].x + Window(k).zero < 0
    BY <1>7 DEF InLine
  <2> DEFINE a == records[i]
             b == records[j]
             t == test.started
             z == Window(k).zero
  <2>1. /\ points[i].x = a - t - z /\ points[i].at = a
        /\ points[j].x = b - t - z /\ points[j].at = b
    BY <1>7
  <2>2. a \in Int /\ b \in Int /\ t \in Int /\ z \in Int
    BY <1>4, <1>5
  <2>3. a < b \/ (a = b /\ a < t)
    BY <1>8
  <2> HIDE DEF a, b, t
  <2>4. CASE a < b
    BY <2>1, <2>2, <2>4
  <2>5. CASE a = b /\ a < t
    <3>1. points[i].x = points[j].x /\ points[i].at = points[j].at
      BY <2>1, <2>5
    <3>2. points[i].x + z < 0
      BY <2>1, <2>2, <2>5
    <3> QED BY <3>1, <3>2
  <2> QED BY <2>3, <2>4, <2>5
<1> QED BY <1>2, <1>3, <1>7, <1>9 DEF points, n

-----------------------------------------------------------------------------
(* What there is of earlier tests.                                         *)

LEMMA PastKept ==
  ASSUME TypeOK, FeedInv, [Next]_vars, NEW t \in Nat, NEW r \in OptStamp, Past(t, r, now, test)
  PROVE  Past(t, r, now', test')
<1> USE ChartAssumption
<1>0. now \in Int /\ r \in Int
  BY DEF TypeOK, Stamps, OptStamp, NotSet
<1>1. CASE StartTest
  <2>1. test'.started = now /\ now' = now
    BY <1>1 DEF StartTest
  <2> QED BY <2>1 DEF Past
<1>2. CASE EnterPhase
  <2>1. test'.started = test.started /\ test'.id = test.id /\ test.phase # "NONE" /\ now' = now
    BY <1>2 DEF EnterPhase, TypeOK, Test
  <2> QED BY <2>1 DEF Past
<1>3. CASE EndTest
  <2>1. test'.phase = "NONE" /\ now' = now
    BY <1>3 DEF EndTest, EndedTest
  <2> QED BY <2>1 DEF Past
<1>4. CASE Tick
  <2>1. now' >= now /\ now' \in Int
    <3>1. now + 1 \in Int /\ MaxTime \in Int /\ now <= MaxTime
      BY DEF TypeOK, Stamps
    <3>2. Min({now + 1, MaxTime}) \in {now + 1, MaxTime}
      BY <3>1, MinOfTwo
    <3> QED BY <1>0, <1>4, <3>1, <3>2 DEF Tick
  <2>2. test' = test
    BY <1>4 DEF Tick, shop
  <2> QED BY <1>0, <2>1, <2>2 DEF Past
<1>5. CASE UNCHANGED <<now, test>>
  BY <1>5 DEF Past
<1>6. CASE PollStep \/ PageStep \/ OpenPage \/ Disconnect \/ UNCHANGED vars
  <2>1. UNCHANGED <<now, test>>
    BY <1>6 DEF PollStep, PageStep, PollRead, PollFailed, BroadcastPick, Throttled, Send, Persist,
       Render, Connect, Apply, OpenPage, Disconnect, vars, shop
  <2> QED BY <1>5, <2>1
<1> QED BY <1>1, <1>2, <1>3, <1>4, <1>6 DEF Next
\* A chart that takes a record has one point more, to the right of the others.
LEMMA DrawnIs ==
  ASSUME NEW k \in Kinds, NEW c \in Chart, NEW started \in OptStamp, NEW r \in Stamps,
         Drawn(k, c, started, r) # c
  PROVE  \E x \in Int :
           /\ LastSequence(c) < x
           /\ Drawn(k, c, started, r) =
                [points |-> Append(c.points, [x |-> x, at |-> r]),
                 segments |-> IF r \in running THEN Extend(c, x) ELSE c.segments,
                 flag |-> r \in running]
<1> DEFINE elapsed == Max({0, r - started})
           x == elapsed - Window(k).zero
<1>1. x \in Int
  <2>1. r - started \in Int
    BY ChartAssumption DEF Stamps, OptStamp, NotSet
  <2>2. \A y \in Int : Max({0, y}) \in Int
    BY MaxOfZero
  <2> QED BY <2>1, <2>2, WindowType
<1>2. /\ Drawn(k, c, started, r) =
           IF ~TakesPoint(k, c, elapsed) THEN c
           ELSE [points |-> Append(c.points, [x |-> x, at |-> r]),
                 segments |-> IF r \in running THEN Extend(c, x) ELSE c.segments,
                 flag |-> r \in running]
      /\ TakesPoint(k, c, elapsed) => LastSequence(c) < x
  BY DEF Drawn, TakesPoint
<1> HIDE DEF elapsed, x
<1> QED BY <1>1, <1>2

\* What a step does to a page.
LEMMA PageSteps ==
  ASSUME TypeOK, [Next]_vars
  PROVE  \/ page' = page
         \/ page' \in {NoPage, [NoPage EXCEPT !.at = "loading"]}
         \/ page'.test = page.test /\ page'.charts = page.charts /\ page'.pending \in {<<msg>>, << >>, page.pending}
         \/ /\ page'.test = test.id /\ page'.pending = page.pending
            /\ page'.charts = [k \in Kinds |-> ServerChart(k)]
            /\ test' = test /\ now' = now
         \/ /\ page.pending # << >> /\ page'.test = page.test /\ page'.pending = << >>
            /\ test' = test /\ now' = now
            /\ LET m == Head(page.pending) IN
                 /\ m.rec # NotSet /\ m.test = page.test
                 /\ page'.charts = [k \in Kinds |-> Drawn(k, page.charts[k], m.started, m.rec)]
<1>0. page \in Page
  BY DEF TypeOK, Page
<1>1. CASE Send
  BY <1>0, <1>1 DEF Send, Page
<1>2. CASE OpenPage
  BY <1>2 DEF OpenPage
<1>3. CASE Render
  <2> DEFINE charts == [k \in Kinds |-> ServerChart(k)]
  <2>1. page' = NoPage \/ page' = [page EXCEPT !.at = "rendered", !.test = test.id, !.charts = charts]
    BY <1>3 DEF Render
  <2>2. test' = test /\ now' = now
    BY <1>3 DEF Render, shop
  <2> HIDE DEF charts
  <2>3. CASE page' = [page EXCEPT !.at = "rendered", !.test = test.id, !.charts = charts]
    <3>1. page'.test = test.id /\ page'.pending = page.pending /\ page'.charts = charts
      BY <1>0, <2>3 DEF Page
    <3> QED BY <2>2, <3>1 DEF charts
  <2> QED BY <2>1, <2>3
<1>4. CASE Connect
  BY <1>0, <1>4 DEF Connect, Page
<1>5. CASE Disconnect
  BY <1>5 DEF Disconnect
<1>6. CASE Apply
  <2> DEFINE m == Head(page.pending)
             drawn == [k \in Kinds |-> Drawn(k, page.charts[k], m.started, m.rec)]
             charts == IF m.rec = NotSet THEN page.charts ELSE drawn
  <2>1. page' = IF IsOver(m) THEN [page EXCEPT !.notice = TRUE, !.pending = << >>]
                ELSE IF page.phase \notin {"NONE", m.phase}
                THEN [NoPage EXCEPT !.at = "loading"]
                ELSE [page EXCEPT !.phase = m.phase, !.charts = charts, !.pending = << >>]
    BY <1>6 DEF Apply
  <2>2. page.pending # << >> /\ test' = test /\ now' = now
    BY <1>6 DEF Apply, shop
  <2> HIDE DEF m, drawn
  <2>3. CASE IsOver(m)
    <3>1. page' = [page EXCEPT !.notice = TRUE, !.pending = << >>]
      BY <2>1, <2>3
    <3>2. page'.test = page.test /\ page'.charts = page.charts /\ page'.pending = << >>
      BY <1>0, <3>1, NoticeFields
    <3> QED BY <3>2
  <2>4. CASE ~IsOver(m) /\ page.phase \notin {"NONE", m.phase}
    BY <2>1, <2>4
  <2>5. CASE ~IsOver(m) /\ page.phase \in {"NONE", m.phase}
    <3>1. page' = [page EXCEPT !.phase = m.phase, !.charts = charts, !.pending = << >>]
      BY <2>1, <2>5
    <3>2. page'.test = page.test /\ page'.charts = charts /\ page'.pending = << >>
      BY <1>0, <3>1 DEF Page
    <3>3. m.test = page.test
      BY <2>5 DEF IsOver
    <3>4. CASE m.rec = NotSet
      BY <3>2, <3>4
    <3>5. CASE m.rec # NotSet
      <4>1. page'.charts = drawn
        BY <3>2, <3>5
      <4> QED BY <2>2, <3>2, <3>3, <3>5, <4>1 DEF m, drawn
    <3> QED BY <3>4, <3>5
  <2> QED BY <2>3, <2>4, <2>5
<1>7. CASE StartTest \/ EnterPhase \/ EndTest \/ Tick \/ PollRead \/ PollFailed \/ BroadcastPick
           \/ Throttled \/ Persist \/ UNCHANGED vars
  BY <1>7 DEF StartTest, EnterPhase, EndTest, Tick, PollRead, PollFailed, BroadcastPick, Throttled,
     Persist, vars
<1> QED BY <1>1, <1>2, <1>3, <1>4, <1>5, <1>6, <1>7 DEF Next, PollStep, PageStep

LEMMA BlankPage ==
  ASSUME NEW p \in {NoPage, [NoPage EXCEPT !.at = "loading"]}
  PROVE  p.pending = << >> /\ p.test = 0 /\ p.charts = NoCharts
BY DEF NoPage

LEMMA PastStep == TypeOK /\ HasRecord /\ FeedInv /\ PastInv /\ [Next]_vars => PastInv'
<1> SUFFICES ASSUME TypeOK, HasRecord, FeedInv, PastInv, [Next]_vars PROVE PastInv'
  OBVIOUS
<1>0. \A t \in Nat, r \in OptStamp : Past(t, r, now, test) => Past(t, r, now', test')
  BY PastKept
<1>1. Past(msg.test, msg.rec, now', test')
  <2>1. msg.test \in Nat /\ msg.rec \in OptStamp
    BY ChartAssumption DEF TypeOK, Message
  <2>2. Past(msg.test, msg.rec, now, test)
    BY DEF PastInv
  <2> QED BY <1>0, <2>1, <2>2
<1>2. Past(msg'.test, msg'.rec, now', test')
  <2>1. CASE msg' = msg
    BY <1>1, <2>1
  <2>2. CASE AfterBroadcast
    <3>1. msg'.test = 0 /\ msg'.rec = NotSet
      BY <2>2 DEF AfterBroadcast, NoMessage
    <3>2. NotSet <= now'
      <4>1. TypeOK'
        BY TypeStep
      <4> QED BY <4>1 DEF TypeOK, Stamps, NotSet
    <3> QED BY <3>1, <3>2 DEF Past
  <2>3. CASE BroadcastPick
    <3>1. msg'.test \in {test.id, 0} /\ msg'.rec = rt /\ test' = test /\ now' = now
      BY <2>3 DEF BroadcastPick, shop
    <3> QED BY <3>1 DEF Past, FeedInv, TypeOK, Test
  <2>4. msg' = msg \/ AfterBroadcast \/ BroadcastPick
    BY DEF Next, PollStep, PageStep, StartTest, EnterPhase, EndTest, PollRead, PollFailed, Throttled,
       Send, Persist, OpenPage, Render, Connect, Disconnect, Apply, Tick, vars, feed
  <2> QED BY <2>1, <2>2, <2>3, <2>4
<1>3. page \in Page /\ page.pending \in Seq(Message) /\ page.charts \in [Kinds -> Chart]
      /\ page.test \in Nat
  BY ChartAssumption DEF TypeOK, Page
<1>4. \A i \in 1 .. Len(page.pending) : Past(page.pending[i].test, page.pending[i].rec, now', test')
  <2> TAKE i \in 1 .. Len(page.pending)
  <2>1. page.pending[i] \in Message
    BY <1>3, ElementType
  <2>2. page.pending[i].test \in Nat /\ page.pending[i].rec \in OptStamp
    BY <2>1, ChartAssumption DEF Message
  <2>3. Past(page.pending[i].test, page.pending[i].rec, now, test)
    BY DEF PastInv
  <2> QED BY <1>0, <2>2, <2>3
<1>5. \A k \in Kinds : \A i \in 1 .. Len(page.charts[k].points) :
        Past(page.test, page.charts[k].points[i].at, now', test')
  <2> TAKE k \in Kinds
  <2> TAKE i \in 1 .. Len(page.charts[k].points)
  <2>1. page.charts[k].points \in Seq([x : Int, at : Stamps])
    BY <1>3 DEF Chart, Points
  <2>2. page.charts[k].points[i].at \in OptStamp
    <3>1. page.charts[k].points[i] \in [x : Int, at : Stamps]
      BY <2>1, ElementType
    <3> QED BY <3>1 DEF OptStamp
  <2>3. Past(page.test, page.charts[k].points[i].at, now, test)
    BY DEF PastInv
  <2> QED BY <1>0, <1>3, <2>2, <2>3
<1>6. CASE page' = page
  BY <1>2, <1>4, <1>5, <1>6 DEF PastInv
<1>7. CASE page' \in {NoPage, [NoPage EXCEPT !.at = "loading"]}
  <2>1. page'.pending = << >> /\ page'.charts = NoCharts
    BY <1>7, BlankPage
  <2>2. \A k \in Kinds : page'.charts[k].points = << >>
    BY <2>1 DEF NoCharts, NoChart
  <2> QED BY <1>2, <2>1, <2>2 DEF PastInv
<1>8. CASE /\ page'.test = page.test /\ page'.charts = page.charts
           /\ page'.pending \in {<<msg>>, << >>, page.pending}
  <2>1. \A i \in 1 .. Len(page'.pending) :
          Past(page'.pending[i].test, page'.pending[i].rec, now', test')
    <3>1. CASE page'.pending = <<msg>>
      BY <1>1, <3>1
    <3>2. CASE page'.pending = << >>
      BY <3>2
    <3> QED BY <1>4, <1>8, <3>1, <3>2
  <2> QED BY <1>2, <1>5, <1>8, <2>1 DEF PastInv
<1>9. CASE /\ page'.test = test.id /\ page'.pending = page.pending
           /\ page'.charts = [k \in Kinds |-> ServerChart(k)]
           /\ test' = test /\ now' = now
  <2>1. ASSUME NEW k \in Kinds
        PROVE  \A i \in 1 .. Len(page'.charts[k].points) :
                 Past(page'.test, page'.charts[k].points[i].at, now', test')
    <3>1. page'.charts[k] = ServerChart(k)
      BY <1>9
    <3>2. \A i \in 1 .. Len(ServerChart(k).points) : ServerChart(k).points[i].at <= now
      BY ServerPoints
    <3>3. ~ (test.id < test.id)
      BY DEF TypeOK, Test
    <3> QED BY <1>9, <3>1, <3>2, <3>3 DEF Past
  <2> QED BY <1>2, <1>4, <1>9, <2>1 DEF PastInv
<1>10. CASE /\ page.pending # << >> /\ page'.test = page.test /\ page'.pending = << >>
            /\ test' = test /\ now' = now
            /\ LET m == Head(page.pending) IN
                 /\ m.rec # NotSet /\ m.test = page.test
                 /\ page'.charts = [k \in Kinds |-> Drawn(k, page.charts[k], m.started, m.rec)]
  <2> DEFINE m == Head(page.pending)
  <2>1. m \in Message /\ m = page.pending[1] /\ 1 \in 1 .. Len(page.pending)
    BY <1>3, <1>10
  <2>2. m.rec # NotSet /\ m.test = page.test
        /\ page'.charts = [k \in Kinds |-> Drawn(k, page.charts[k], m.started, m.rec)]
    BY <1>10
  <2>3. Past(page.test, m.rec, now', test')
    BY <1>4, <2>1, <2>2
  <2> HIDE DEF m
  <2>4. ASSUME NEW k \in Kinds, NEW i \in 1 .. Len(page'.charts[k].points)
        PROVE  Past(page.test, page'.charts[k].points[i].at, now', test')
    <3> DEFINE c == page.charts[k]
               d == Drawn(k, c, m.started, m.rec)
    <3>1. page'.charts[k] = d /\ c \in Chart /\ m.started \in OptStamp /\ m.rec \in Stamps
      BY <1>3, <2>1, <2>2 DEF Message, OptStamp
    <3>2. CASE d = c
      BY <1>5, <3>1, <3>2
    <3>3. CASE d # c
      <4> HIDE DEF c
      <4>1. PICK x \in Int : d.points = Append(c.points, [x |-> x, at |-> m.rec])
        BY <3>1, <3>3, DrawnIs
      <4>2. c.points \in Seq([x : Int, at : Stamps])
        BY <3>1 DEF Chart, Points
      <4>3. \/ i \in 1 .. Len(c.points) /\ d.points[i] = c.points[i]
            \/ d.points[i].at = m.rec
        <5> HIDE DEF d
        <5> QED BY <3>1, <4>1, <4>2
      <4> QED BY <1>5, <2>3, <3>1, <4>3 DEF c
    <3> QED BY <3>2, <3>3
  <2> QED BY <1>2, <1>10, <2>4 DEF PastInv
<1> QED BY <1>6, <1>7, <1>8, <1>9, <1>10, PageSteps

LEMMA PastInit == Init => PastInv
<1> SUFFICES ASSUME Init PROVE PastInv
  OBVIOUS
<1>1. page.pending = << >> /\ \A k \in Kinds : page.charts[k].points = << >>
  BY DEF Init, NoPage, NoCharts, NoChart
<1> QED BY <1>1 DEF Init, PastInv, Past, NoMessage, NotSet

\* A page of a test shows nothing that was recorded after the next test began
\* (DashboardConsumer, applyActiveTestUpdate).
THEOREM PagesDrawTheirTest == Spec => []DrawsOwnTest
<1>1. Spec => [](TypeOK /\ HasRecord /\ FeedInv /\ PastInv)
  BY TypeInit, TypeStep, FeedInit, FeedStep, PastInit, PastStep, PTL DEF Spec
<1>2. TypeOK /\ PastInv => DrawsOwnTest
  <2> SUFFICES ASSUME TypeOK, PastInv, page.test > 0, page.test < test.id, Active,
                      NEW k \in Kinds, NEW p \in ToSet(page.charts[k].points)
               PROVE  p.at <= test.started
    BY DEF DrawsOwnTest
  <2>1. page.charts[k].points \in Seq([x : Int, at : Stamps])
    BY DEF TypeOK, Chart, Points
  <2>2. PICK i \in 1 .. Len(page.charts[k].points) : p = page.charts[k].points[i]
    BY <2>1 DEF ToSet
  <2> QED BY <2>2 DEF PastInv, Past, Active
<1> QED BY <1>1, <1>2, PTL
-----------------------------------------------------------------------------
(* The bars.                                                               *)

LEMMA PointTypes ==
  ASSUME NEW points \in Points
  PROVE  /\ Len(points) \in Nat /\ DOMAIN points = 1 .. Len(points)
         /\ \A i \in 1 .. Len(points) : points[i] \in [x : Int, at : Stamps] /\ points[i].x \in Int
<1>1. points \in Seq([x : Int, at : Stamps])
  BY DEF Points
<1>2. Len(points) \in Nat /\ DOMAIN points = 1 .. Len(points)
      /\ \A i \in 1 .. Len(points) : points[i] \in [x : Int, at : Stamps]
  BY <1>1, ElementType
<1> QED BY <1>2

LEMMA SegmentTypes ==
  ASSUME NEW segments \in Segments
  PROVE  /\ Len(segments) \in Nat /\ DOMAIN segments = 1 .. Len(segments)
         /\ \A i \in 1 .. Len(segments) : segments[i] \in [start : Int, end : Int]
                                          /\ segments[i].start \in Int /\ segments[i].end \in Int
<1>1. segments \in Seq([start : Int, end : Int])
  BY DEF Segments
<1>2. Len(segments) \in Nat /\ DOMAIN segments = 1 .. Len(segments)
      /\ \A i \in 1 .. Len(segments) : segments[i] \in [start : Int, end : Int]
  BY <1>1, ElementType
<1> QED BY <1>2

LEMMA LineUp ==
  ASSUME NEW k, NEW points \in Points, InLine(k, points),
         NEW i \in 1 .. Len(points), NEW j \in i .. Len(points)
  PROVE  points[i].x <= points[j].x
<1>1. points[i].x \in Int /\ points[j].x \in Int /\ j \in 1 .. Len(points) /\ i \in Int /\ j \in Int
      /\ i <= j
  BY PointTypes
<1>2. CASE i = j
  BY <1>1, <1>2
<1>3. CASE i < j
  BY <1>1, <1>3 DEF InLine
<1> QED BY <1>1, <1>2, <1>3

\* A point that shows the compressor running belongs to a run of such points.
LEMMA RunBegins ==
  ASSUME NEW points \in Points, NEW j \in 1 .. Len(points), On(points, j)
  PROVE  \E b \in Begins(points) : b <= j /\ \A i \in b .. j : On(points, i)
<1> DEFINE A == {b \in 1 .. j : \A i \in b .. j : On(points, i)}
<1>1. DOMAIN points = 1 .. Len(points) /\ Len(points) \in Nat /\ j \in Nat
  BY PointTypes
<1>2. j \in A
  <2>1. \A i \in j .. j : i = j
    BY <1>1
  <2> QED BY <1>1, <2>1
<1>3. A \in SUBSET Nat /\ A # {}
  BY <1>2
<1>4. PICK b \in A : \A i \in A : b <= i
  <2> HIDE DEF A
  <2> QED BY <1>3, LeastOf
<1>5. b \in 1 .. j /\ \A i \in b .. j : On(points, i)
  BY <1>4
<1>6. On(points, b)
  BY <1>5, <1>1
<1>7. ASSUME b > 1 PROVE ~On(points, b - 1)
  <2> SUFFICES ASSUME On(points, b - 1) PROVE FALSE
    OBVIOUS
  <2>1. \A i \in b - 1 .. j : i = b - 1 \/ i \in b .. j
    BY <1>1, <1>5
  <2>2. b - 1 \in 1 .. j
    BY <1>1, <1>5, <1>7
  <2>3. b - 1 \in A
    BY <1>5, <2>1, <2>2
  <2>4. b <= b - 1
    <3> HIDE DEF A
    <3> QED BY <1>4, <2>3
  <2> QED BY <1>5, <2>4
<1>8. b \in Begins(points)
  BY <1>1, <1>5, <1>6, <1>7 DEF Begins
<1> QED BY <1>5, <1>8

\* The end of a segment of the server: where the run ends, or the end of the axis.
LEMMA SegmentEnds ==
  ASSUME NEW k \in Kinds, NEW points \in Points, InLine(k, points), NEW b \in 1 .. Len(points)
  PROVE  LET seg == SegmentOf(k, points, b) IN
         /\ seg.start = points[b].x
         /\ seg.end = AxisMax(k) \/ seg.end <= points[Len(points)].x
         /\ \A j \in b .. Len(points) : (\A i \in b .. j : On(points, i)) =>
              seg.end = AxisMax(k) \/ points[j].x <= seg.end
         /\ \A j \in b .. Len(points) : ~On(points, j) /\ j > b => seg.end <= points[j].x
<1> DEFINE A == StopsOf(points, b)
           seg == SegmentOf(k, points, b)
           n == Len(points)
<1>1. DOMAIN points = 1 .. n /\ n \in Nat /\ b \in Int
      /\ \A i \in 1 .. n : points[i].x \in Int
  BY PointTypes
<1>2. /\ A \in SUBSET Nat
      /\ \A j \in A : j \in 1 .. n /\ j > b /\ ~On(points, j)
      /\ \A j \in 1 .. n : j > b /\ ~On(points, j) => j \in A
  BY <1>1 DEF StopsOf
<1>3. seg.start = points[b].x /\ seg.end = IF A = {} THEN AxisMax(k) ELSE points[Min(A)].x
  BY DEF SegmentOf
<1>6. \A j \in b .. n : j \in 1 .. n
  BY <1>1
<1> HIDE DEF A, seg
<1>4. CASE A = {}
  <2>1. \A j \in b .. n : ~ (~On(points, j) /\ j > b)
    BY <1>2, <1>4, <1>6
  <2> QED BY <1>3, <1>4, <2>1 DEF seg
<1>5. CASE A # {}
  <2> DEFINE stop == Min(A)
  <2>1. stop \in A /\ \A x \in A : stop <= x
    BY <1>2, <1>5, MinOfSet
  <2> HIDE DEF stop
  <2>2. stop \in 1 .. n /\ stop > b /\ ~On(points, stop)
    BY <1>2, <2>1
  <2>3. seg.end = points[stop].x
    BY <1>3, <1>5 DEF stop
  <2>4. seg.end <= points[n].x
    <3>1. n \in stop .. n
      BY <1>1, <2>2
    <3> QED BY <2>2, <2>3, <3>1, LineUp
  <2>5. ASSUME NEW j \in b .. n, \A i \in b .. j : On(points, i)
        PROVE  points[j].x <= seg.end
    <3>1. stop > j
      <4> SUFFICES ASSUME stop <= j PROVE FALSE
        BY <1>1, <2>2
      <4>1. stop \in b .. j
        BY <1>1, <2>2
      <4> QED BY <2>2, <2>5, <4>1
    <3>2. j \in 1 .. n /\ stop \in j .. n
      BY <1>1, <2>2, <3>1
    <3> QED BY <2>3, <3>2, LineUp
  <2>6. ASSUME NEW j \in b .. n, ~On(points, j), j > b
        PROVE  seg.end <= points[j].x
    <3>1. j \in A
      BY <1>2, <1>6, <2>6
    <3>2. j \in stop .. n
      BY <1>1, <2>1, <2>2, <3>1
    <3> QED BY <2>2, <2>3, <3>2, LineUp
  <2> QED BY <1>3, <2>4, <2>5, <2>6 DEF seg
<1> QED BY <1>4, <1>5
\* Where the points a chart shows are among all its points.
LEMMA SeenFacts ==
  ASSUME NEW k \in Kinds, NEW all \in Points, InLine(k, all)
  PROVE  LET points == SeenPoints(k, all)
             n == Len(points)
         IN  /\ points \in Points /\ InLine(k, points)
             /\ \A i \in 1 .. n : OnAxis(k, points[i].x)
             /\ n > 0 => Len(all) > 0
             /\ \A i \in 1 .. n : points[i].x <= all[Len(all)].x
             /\ \A i \in 1 .. Len(all) : OnAxis(k, all[i].x) =>
                  \E j \in 1 .. n : points[j] = all[i]
<1> DEFINE S == {p \in ToSet(all) : OnAxis(k, p.x)}
           points == SeenPoints(k, all)
           n == Len(points)
<1>1. points \in Points
  BY SeenType
<1>2. PICK e : Picks(all, S, Len(all), points, e)
  BY KeepPicks DEF Points, SeenPoints
<1>3. DOMAIN all = 1 .. Len(all) /\ Len(all) \in Nat /\ n \in Nat
  BY <1>1, PointTypes
<1>4. /\ \A i \in 1 .. n : e[i] \in 1 .. Len(all) /\ points[i] = all[e[i]] /\ points[i] \in S
      /\ \A i \in 1 .. n, j \in 1 .. n : i < j => e[i] < e[j]
      /\ \A i \in 1 .. Len(all) : all[i] \in S => \E j \in 1 .. n : e[j] = i
  <2> HIDE DEF S, points
  <2> QED BY <1>2 DEF Picks
<1>5. \A p : p \in S => OnAxis(k, p.x)
  OBVIOUS
<1>6. \A i \in 1 .. Len(all) : OnAxis(k, all[i].x) => all[i] \in S
  BY <1>3 DEF ToSet
<1> HIDE DEF S, points, n
<1>7. InLine(k, points)
  <2> SUFFICES ASSUME NEW i \in 1 .. n, NEW j \in 1 .. n, i < j
               PROVE  \/ points[i].x < points[j].x
                      \/ /\ points[i].x = points[j].x /\ points[i].at = points[j].at
                         /\ points[i].x + Window(k).zero < 0
    BY DEF InLine, n
  <2>1. e[i] \in 1 .. Len(all) /\ e[j] \in 1 .. Len(all) /\ e[i] < e[j]
        /\ points[i] = all[e[i]] /\ points[j] = all[e[j]]
    BY <1>4
  <2>2. \/ all[e[i]].x < all[e[j]].x
        \/ /\ all[e[i]].x = all[e[j]].x /\ all[e[i]].at = all[e[j]].at
           /\ all[e[i]].x + Window(k).zero < 0
    BY <2>1 DEF InLine
  <2> QED BY <2>1, <2>2
<1>8. \A i \in 1 .. n : points[i].x <= all[Len(all)].x
  <2> TAKE i \in 1 .. n
  <2>1. e[i] \in 1 .. Len(all) /\ points[i] = all[e[i]]
    BY <1>4
  <2>2. Len(all) \in e[i] .. Len(all)
    BY <1>3, <2>1
  <2> QED BY <2>1, <2>2, LineUp
<1>9. n > 0 => Len(all) > 0
  <2> HAVE n > 0
  <2>1. e[1] \in 1 .. Len(all)
    BY <1>3, <1>4
  <2> QED BY <1>3, <2>1
<1>10. \A i \in 1 .. n : OnAxis(k, points[i].x)
  BY <1>4, <1>5
<1>11. \A i \in 1 .. Len(all) : OnAxis(k, all[i].x) => \E j \in 1 .. n : points[j] = all[i]
  <2> TAKE i \in 1 .. Len(all)
  <2> HAVE OnAxis(k, all[i].x)
  <2>1. PICK j \in 1 .. n : e[j] = i
    BY <1>4, <1>6
  <2> QED BY <1>4, <2>1
<1> QED BY <1>1, <1>7, <1>8, <1>9, <1>10, <1>11 DEF points, n

\* Bars built from points in line fit them.
LEMMA BandsFit ==
  ASSUME NEW k \in Kinds, NEW all \in Points, InLine(k, all)
  PROVE  BarsFit(k, [points |-> all, segments |-> Bands(k, all).segments, flag |-> Bands(k, all).flag],
                 running)
<1> DEFINE points == SeenPoints(k, all)
           n == Len(points)
           o == Order(points)
           m == Len(o)
           segs == SegmentsOf(k, points)
           flag == Bands(k, all).flag
<1>1. /\ points \in Points /\ InLine(k, points)
      /\ \A i \in 1 .. n : OnAxis(k, points[i].x)
      /\ n > 0 => Len(all) > 0
      /\ \A i \in 1 .. n : points[i].x <= all[Len(all)].x
      /\ \A i \in 1 .. Len(all) : OnAxis(k, all[i].x) => \E j \in 1 .. n : points[j] = all[i]
  BY SeenFacts
<1>2. Bands(k, all).segments = segs /\ (flag => points # << >> /\ On(points, n))
  BY BandsAre
<1> HIDE DEF points
<1>3. /\ n \in Nat /\ DOMAIN points = 1 .. n /\ Begins(points) \subseteq 1 .. n
      /\ \A i \in 1 .. n : points[i].x \in Int
      /\ Len(all) \in Nat /\ \A i \in 1 .. Len(all) : all[i].x \in Int
      /\ AxisMax(k) \in Int
  BY <1>1, PointTypes, WindowType DEF Begins
<1>4. /\ m \in Nat
      /\ \A s \in 1 .. m : o[s] \in Begins(points) /\ o[s] \in 1 .. n
      /\ \A i \in 1 .. m, j \in 1 .. m : i < j => o[i] < o[j]
      /\ \A b \in Begins(points) : \E s \in 1 .. m : o[s] = b
  <2>1. o \in Seq(Begins(points)) /\ \A b \in Begins(points) : \E s \in 1 .. m : o[s] = b
    BY <1>1, OrderFacts
  <2>2. \A i \in 1 .. m, j \in 1 .. m : i < j => o[i] < o[j]
    BY <1>1, OrderFacts
  <2> HIDE DEF o
  <2> QED BY <1>3, <2>1, <2>2
<1>5. Len(segs) = m /\ \A s \in 1 .. m : segs[s] = SegmentOf(k, points, o[s])
  BY <1>1, SegmentsType
<1>6. flag => n > 0
  <2>1. points \in Seq([x : Int, at : Stamps])
    BY <1>1 DEF Points
  <2> QED BY <1>2, <2>1
<1>7. \A i \in 1 .. n : On(points, i) <=> points[i].at \in running
  BY DEF On, ShowsRunning
<1>8. \A s \in 1 .. m :
        /\ segs[s].start = points[o[s]].x
        /\ segs[s].end = AxisMax(k) \/ segs[s].end <= points[n].x
        /\ \A j \in o[s] .. n : (\A i \in o[s] .. j : On(points, i)) =>
             segs[s].end = AxisMax(k) \/ points[j].x <= segs[s].end
        /\ \A j \in o[s] .. n : ~On(points, j) /\ j > o[s] => segs[s].end <= points[j].x
  BY <1>1, <1>4, <1>5, SegmentEnds
<1> HIDE DEF n, o, m, segs, flag
<1>9. ASSUME NEW j \in 1 .. n, On(points, j)
      PROVE  \E s \in 1 .. m : o[s] <= j /\ \A i \in o[s] .. j : On(points, i)
  <2>1. PICK b \in Begins(points) : b <= j /\ \A i \in b .. j : On(points, i)
    BY <1>1, <1>9, RunBegins DEF n
  <2> QED BY <1>4, <2>1
<1>10. ASSUME NEW j \in 1 .. n, On(points, j)
       PROVE  \E s \in 1 .. m : segs[s].start <= points[j].x /\ points[j].x <= segs[s].end
  <2>1. PICK s \in 1 .. m : o[s] <= j /\ \A i \in o[s] .. j : On(points, i)
    BY <1>9, <1>10
  <2>2. o[s] \in 1 .. n /\ j \in o[s] .. n
    BY <1>3, <1>4, <2>1
  <2>3. segs[s].start <= points[j].x
    BY <1>1, <1>8, <2>2, LineUp DEF n
  <2>4. segs[s].end = AxisMax(k) \/ points[j].x <= segs[s].end
    BY <1>8, <2>1, <2>2
  <2>5. points[j].x <= AxisMax(k)
    BY <1>1 DEF OnAxis
  <2> QED BY <2>3, <2>4, <2>5
<1>11. ASSUME NEW j \in 1 .. n, NEW s \in 1 .. m, ~On(points, j)
       PROVE  \/ points[j].x < segs[s].start
              \/ segs[s].end <= points[j].x /\ (flag => s # m)
  <2>0. o[s] \in 1 .. n /\ On(points, o[s])
    BY <1>4 DEF Begins
  <2>1. CASE j < o[s]
    <3>1. points[j].at # points[o[s]].at
      BY <1>7, <1>11, <2>0
    <3>2. points[j].x < points[o[s]].x
      BY <1>1, <2>0, <2>1, <3>1 DEF InLine, n
    <3> QED BY <1>8, <3>2
  <2>2. CASE j > o[s]
    <3>1. segs[s].end <= points[j].x
      <4>1. j \in o[s] .. n
        BY <1>3, <2>0, <2>2
      <4> QED BY <1>8, <1>11, <2>2, <4>1
    <3>2. ASSUME flag PROVE s # m
      <4>1. n \in 1 .. n /\ On(points, n)
        BY <1>2, <1>3, <1>6, <3>2
      <4>2. PICK t \in 1 .. m : o[t] <= n /\ \A i \in o[t] .. n : On(points, i)
        BY <1>9, <4>1
      <4>3. o[t] \in 1 .. n
        BY <1>4
      <4>4. j < o[t]
        <5> SUFFICES ASSUME ~(j < o[t]) PROVE FALSE
          OBVIOUS
        <5>1. j \in o[t] .. n
          BY <1>3, <4>3
        <5> QED BY <1>11, <4>2, <5>1
      <4>5. o[s] < o[t]
        BY <1>3, <2>0, <2>2, <4>3, <4>4
      <4>6. s < t
        <5> SUFFICES ASSUME ~(s < t) PROVE FALSE
          OBVIOUS
        <5>1. s = t \/ t < s
          BY <1>4
        <5>2. o[t] <= o[s]
          BY <1>3, <1>4, <2>0, <5>1
        <5> QED BY <1>3, <2>0, <4>3, <4>5, <5>2
      <4> QED BY <1>4, <4>6
    <3> QED BY <3>1, <3>2
  <2>3. j # o[s]
    BY <1>11, <2>0
  <2>4. j < o[s] \/ j > o[s]
    BY <1>3, <2>0, <2>3
  <2> QED BY <2>1, <2>2, <2>4
<1>12. \A s \in 1 .. m : segs[s].end # AxisMax(k) => Len(all) > 0 /\ segs[s].end <= all[Len(all)].x
  <2> TAKE s \in 1 .. m
  <2> HAVE segs[s].end # AxisMax(k)
  <2>1. o[s] \in 1 .. n /\ n \in 1 .. n
    BY <1>3, <1>4
  <2>2. segs[s].end <= points[n].x /\ points[n].x <= all[Len(all)].x /\ Len(all) > 0
    BY <1>1, <1>3, <1>8, <2>1 DEF n
  <2>3. segs[s].end \in Int
    <3>1. segs \in Segments /\ Len(segs) = m
      BY <1>1, <1>5, SegmentsType DEF segs
    <3> QED BY <3>1, SegmentTypes
  <2>4. points[n].x \in Int /\ all[Len(all)].x \in Int
    <3>1. Len(all) \in 1 .. Len(all)
      BY <1>3, <2>2
    <3> QED BY <1>3, <2>1, <3>1
  <2> QED BY <2>2, <2>3, <2>4
<1>13. ASSUME flag
       PROVE  m > 0 /\ Len(all) > 0 /\ segs[m].start <= all[Len(all)].x
  <2>1. n \in 1 .. n /\ On(points, n)
    BY <1>2, <1>3, <1>6, <1>13
  <2>2. PICK t \in 1 .. m : o[t] <= n
    BY <1>9, <2>1
  <2>3. m \in 1 .. m /\ o[m] \in 1 .. n
    BY <1>4, <2>2
  <2>4. segs[m].start = points[o[m]].x
    BY <1>8, <2>3
  <2>5. points[o[m]].x <= all[Len(all)].x /\ Len(all) > 0
    BY <1>1, <1>3, <2>1, <2>3 DEF n
  <2> QED BY <2>3, <2>4, <2>5, <1>4
<1> DEFINE c == [points |-> all, segments |-> segs, flag |-> flag]
<1>14. \A i \in 1 .. Len(all) : OnAxis(k, all[i].x) /\ all[i].at \in running =>
         \E s \in 1 .. m : segs[s].start <= all[i].x /\ all[i].x <= segs[s].end
  <2> TAKE i \in 1 .. Len(all)
  <2> HAVE OnAxis(k, all[i].x) /\ all[i].at \in running
  <2>1. PICK j \in 1 .. n : points[j] = all[i]
    BY <1>1 DEF n
  <2>2. On(points, j)
    BY <1>7, <2>1
  <2>3. \E s \in 1 .. m : segs[s].start <= points[j].x /\ points[j].x <= segs[s].end
    BY <1>10, <2>2
  <2> QED BY <2>1, <2>3
<1>15. \A i \in 1 .. Len(all), s \in 1 .. m : OnAxis(k, all[i].x) /\ ~(all[i].at \in running) =>
         \/ all[i].x < segs[s].start
         \/ segs[s].end <= all[i].x /\ (flag => s # m)
  <2> TAKE i \in 1 .. Len(all), s \in 1 .. m
  <2> HAVE OnAxis(k, all[i].x) /\ ~(all[i].at \in running)
  <2>1. PICK j \in 1 .. n : points[j] = all[i]
    BY <1>1 DEF n
  <2>2. ~On(points, j)
    BY <1>7, <2>1
  <2>3. \/ points[j].x < segs[s].start
        \/ segs[s].end <= points[j].x /\ (flag => s # m)
    BY <1>11, <2>2
  <2> QED BY <2>1, <2>3
<1>16. BarsFit(k, c, running)
  <2>1. c.points = all /\ c.segments = segs /\ c.flag = flag /\ Len(segs) = m
    BY <1>5 DEF segs, m, o
  <2> HIDE DEF c
  <2> QED BY <1>12, <1>13, <1>14, <1>15, <2>1 DEF BarsFit
<1> QED BY <1>2, <1>16 DEF flag
\* A chart that takes a record stays in line, and its bars fit.
LEMMA DrawnFits ==
  ASSUME TypeOK, NEW k \in Kinds, NEW c \in Chart, NEW started \in OptStamp, NEW r \in Stamps,
         InLine(k, c.points), BarsFit(k, c, running)
  PROVE  LET d == Drawn(k, c, started, r) IN InLine(k, d.points) /\ BarsFit(k, d, running)
<1> DEFINE d == Drawn(k, c, started, r)
           P == c.points
           S == c.segments
           n == Len(P)
           m == Len(S)
           runs == r \in running
<1>1. SUFFICES ASSUME d # c PROVE InLine(k, d.points) /\ BarsFit(k, d, running)
  <2>1. d = c => InLine(k, d.points) /\ BarsFit(k, d, running)
    <3> HIDE DEF d
    <3> QED OBVIOUS
  <2> QED BY <1>1, <2>1
<1>2. PICK x \in Int :
        /\ LastSequence(c) < x
        /\ d = [points |-> Append(c.points, [x |-> x, at |-> r]),
                segments |-> IF r \in running THEN Extend(c, x) ELSE c.segments,
                flag |-> r \in running]
  BY <1>1, DrawnIs
<1> DEFINE Q == Append(P, [x |-> x, at |-> r])
           T == IF runs THEN Extend(c, x) ELSE S
<1>3. d.points = Q /\ d.segments = T /\ d.flag = runs
  <2> HIDE DEF d, Q, T
  <2> QED BY <1>2 DEF Q, T
<1>4. P \in Points /\ S \in Segments /\ c.flag \in BOOLEAN
  BY DEF Chart
<1>5. /\ n \in Nat /\ \A i \in 1 .. n : P[i].x \in Int
      /\ m \in Nat /\ \A s \in 1 .. m : S[s].start \in Int /\ S[s].end \in Int
      /\ P # << >> => n > 0
      /\ S # << >> <=> m > 0
  <2>1. P \in Seq([x : Int, at : Stamps]) /\ S \in Seq([start : Int, end : Int])
    BY <1>4 DEF Points, Segments
  <2>2. (P # << >> => n > 0) /\ (S # << >> <=> m > 0)
    <3> HIDE DEF P, S
    <3> QED BY <2>1
  <2> HIDE DEF P, S
  <2> QED BY <1>4, <2>2, PointTypes, SegmentTypes
<1>6. /\ Len(Q) = n + 1 /\ Q[n + 1] = [x |-> x, at |-> r]
      /\ \A i \in 1 .. n : Q[i] = P[i]
  <2>1. P \in Seq([x : Int, at : Stamps])
    BY <1>4 DEF Points
  <2> HIDE DEF P
  <2> QED BY <2>1
<1>7. Q[n + 1].x = x /\ Q[n + 1].at = r
  BY <1>6
<1>8. /\ c.flag => m > 0 /\ n > 0 /\ S[m].start <= P[n].x
      /\ \A i \in 1 .. n : OnAxis(k, P[i].x) /\ P[i].at \in running =>
           \E s \in 1 .. m : S[s].start <= P[i].x /\ P[i].x <= S[s].end
      /\ \A i \in 1 .. n, s \in 1 .. m : OnAxis(k, P[i].x) /\ ~(P[i].at \in running) =>
           \/ P[i].x < S[s].start
           \/ /\ S[s].end = AxisMax(k) \/ S[s].end <= P[i].x
              /\ c.flag => s # m
      /\ \A s \in 1 .. m : S[s].end # AxisMax(k) => n > 0 /\ S[s].end <= P[n].x
  BY DEF BarsFit
<1>9. \A i \in 1 .. n : P[i].x < x
  <2> TAKE i \in 1 .. n
  <2>1. n \in i .. n /\ n \in 1 .. n
    BY <1>5
  <2>2. P[i].x <= P[n].x
    BY <1>4, <2>1, LineUp
  <2>3. P # << >>
    BY <1>5
  <2>4. LastSequence(c) = P[n].x
    BY <2>3 DEF LastSequence, Last
  <2> QED BY <1>2, <1>5, <2>1, <2>2, <2>4
<1>10. runs => /\ c.flag => /\ Len(T) = m /\ T[m] = [S[m] EXCEPT !.end = x]
                            /\ \A s \in 1 .. m : s # m => T[s] = S[s]
               /\ ~c.flag => /\ Len(T) = m + 1 /\ T[m + 1] = [start |-> x, end |-> x]
                             /\ \A s \in 1 .. m : T[s] = S[s]
  <2> HAVE runs
  <2>1. S \in Seq([start : Int, end : Int])
    BY <1>4 DEF Segments
  <2>2. c.flag => T = [S EXCEPT ![m].end = x]
    BY <1>5, <1>8 DEF Extend
  <2>3. ~c.flag => T = Append(S, [start |-> x, end |-> x])
    BY DEF Extend
  <2> HIDE DEF S, T
  <2>4. ASSUME c.flag
        PROVE  /\ Len(T) = m /\ T[m] = [S[m] EXCEPT !.end = x]
               /\ \A s \in 1 .. m : s # m => T[s] = S[s]
    <3>1. T = [S EXCEPT ![m] = [S[m] EXCEPT !.end = x]] /\ m \in 1 .. m
      BY <1>5, <1>8, <2>2, <2>4
    <3> QED BY <2>1, <3>1
  <2>5. ASSUME ~c.flag
        PROVE  /\ Len(T) = m + 1 /\ T[m + 1] = [start |-> x, end |-> x]
               /\ \A s \in 1 .. m : T[s] = S[s]
    BY <2>1, <2>3, <2>5
  <2> QED BY <2>4, <2>5
<1>11. ~runs => T = S
  OBVIOUS
<1> HIDE DEF d, P, S, n, m, Q, T, runs
<1>12. \A i \in 1 .. n + 1 : i \in 1 .. n \/ i = n + 1
  BY <1>5
<1>13. InLine(k, Q)
  <2> SUFFICES ASSUME NEW i \in 1 .. n + 1, NEW j \in 1 .. n + 1, i < j
               PROVE  \/ Q[i].x < Q[j].x
                      \/ /\ Q[i].x = Q[j].x /\ Q[i].at = Q[j].at
                         /\ Q[i].x + Window(k).zero < 0
    BY <1>6 DEF InLine
  <2>1. i \in 1 .. n
    BY <1>5
  <2>2. CASE j = n + 1
    BY <1>6, <1>7, <1>9, <2>1, <2>2
  <2>3. CASE j \in 1 .. n
    BY <1>6, <2>1, <2>3 DEF InLine, P, n
  <2> QED BY <1>12, <2>2, <2>3
\* The segments after the step: the last may have grown to x, or there is one more at x.
<1>14. CASE ~runs
  <2>1. /\ d.points = Q /\ d.segments = S /\ d.flag = FALSE
    BY <1>3, <1>11, <1>14
  <2>2. \A i \in 1 .. n + 1 : OnAxis(k, Q[i].x) /\ Q[i].at \in running =>
          \E s \in 1 .. m : S[s].start <= Q[i].x /\ Q[i].x <= S[s].end
    BY <1>6, <1>7, <1>8, <1>12, <1>14 DEF runs
  <2>3. ASSUME NEW i \in 1 .. n + 1, NEW s \in 1 .. m, OnAxis(k, Q[i].x), ~(Q[i].at \in running)
        PROVE  \/ Q[i].x < S[s].start
               \/ S[s].end = AxisMax(k) \/ S[s].end <= Q[i].x
    <3>1. CASE i \in 1 .. n
      BY <1>6, <1>8, <2>3, <3>1
    <3>2. CASE i = n + 1
      <4>1. CASE S[s].end # AxisMax(k)
        <5>1. n \in 1 .. n /\ S[s].end <= P[n].x
          BY <1>5, <1>8, <4>1
        <5> QED BY <1>5, <1>7, <1>9, <3>2, <5>1
      <4> QED BY <4>1
    <3> QED BY <1>12, <3>1, <3>2
  <2>4. \A s \in 1 .. m : S[s].end # AxisMax(k) => n + 1 > 0 /\ S[s].end <= Q[n + 1].x
    <3> TAKE s \in 1 .. m
    <3> HAVE S[s].end # AxisMax(k)
    <3>1. n \in 1 .. n /\ S[s].end <= P[n].x
      BY <1>5, <1>8
    <3> QED BY <1>5, <1>7, <1>9, <3>1
  <2>5. BarsFit(k, d, running)
    BY <1>6, <2>1, <2>2, <2>3, <2>4 DEF BarsFit, m
  <2> QED BY <1>3, <1>13, <2>5
<1>15. CASE runs /\ c.flag
  <2>1. /\ d.points = Q /\ d.segments = T /\ d.flag = TRUE
        /\ m \in 1 .. m /\ n \in 1 .. n /\ S[m].start <= P[n].x
    BY <1>3, <1>5, <1>8, <1>15
  <2>2. /\ Len(T) = m /\ T[m].start = S[m].start /\ T[m].end = x
        /\ \A s \in 1 .. m : s # m => T[s] = S[s]
    <3>1. S[m] \in [start : Int, end : Int]
      BY <1>4, <2>1, SegmentTypes DEF m
    <3> QED BY <1>10, <1>15, <3>1
  <2>3. ASSUME NEW i \in 1 .. n + 1, OnAxis(k, Q[i].x), Q[i].at \in running
        PROVE  \E s \in 1 .. m : T[s].start <= Q[i].x /\ Q[i].x <= T[s].end
    <3>1. CASE i \in 1 .. n
      <4>1. PICK s \in 1 .. m : S[s].start <= P[i].x /\ P[i].x <= S[s].end
        BY <1>6, <1>8, <2>3, <3>1
      <4>2. CASE s = m
        <5>1. Q[i].x = P[i].x /\ P[i].x < x /\ P[i].x \in Int
          BY <1>5, <1>6, <1>9, <3>1
        <5>2. T[m].start <= Q[i].x
          BY <2>2, <4>1, <4>2, <5>1
        <5>3. Q[i].x <= T[m].end
          BY <2>2, <5>1
        <5> QED BY <2>1, <5>2, <5>3
      <4>3. CASE s # m
        BY <1>6, <2>2, <3>1, <4>1, <4>3
      <4> QED BY <4>2, <4>3
    <3>2. CASE i = n + 1
      <4>1. T[m].start <= x /\ x <= T[m].end
        BY <1>5, <1>9, <2>1, <2>2
      <4> QED BY <1>7, <2>1, <3>2, <4>1
    <3> QED BY <1>12, <3>1, <3>2
  <2>4. ASSUME NEW i \in 1 .. n + 1, NEW s \in 1 .. m, OnAxis(k, Q[i].x), ~(Q[i].at \in running)
        PROVE  \/ Q[i].x < T[s].start
               \/ (T[s].end = AxisMax(k) \/ T[s].end <= Q[i].x) /\ s # m
    <3>1. i \in 1 .. n /\ Q[i] = P[i]
      BY <1>6, <1>7, <1>12, <1>15, <2>4 DEF runs
    <3>2. \/ P[i].x < S[s].start
          \/ (S[s].end = AxisMax(k) \/ S[s].end <= P[i].x) /\ s # m
      BY <1>8, <1>15, <2>4, <3>1
    <3> QED BY <2>2, <3>1, <3>2
  <2>5. \A s \in 1 .. m : T[s].end # AxisMax(k) => n + 1 > 0 /\ T[s].end <= Q[n + 1].x
    <3> TAKE s \in 1 .. m
    <3> HAVE T[s].end # AxisMax(k)
    <3>1. CASE s = m
      BY <1>5, <1>7, <2>2, <3>1
    <3>2. CASE s # m
      <4>1. T[s].end = S[s].end /\ S[s].end <= P[n].x
        BY <1>8, <2>2, <3>2
      <4> QED BY <1>5, <1>7, <1>9, <2>1, <4>1
    <3> QED BY <3>1, <3>2
  <2>6. m > 0 /\ n + 1 > 0 /\ T[m].start <= Q[n + 1].x
    BY <1>5, <1>7, <1>9, <2>1, <2>2
  <2>7. BarsFit(k, d, running)
    BY <1>6, <2>1, <2>2, <2>3, <2>4, <2>5, <2>6 DEF BarsFit
  <2> QED BY <1>3, <1>13, <2>7
<1>16. CASE runs /\ ~c.flag
  <2>1. /\ d.points = Q /\ d.segments = T /\ d.flag = TRUE
    BY <1>3, <1>16
  <2>2. /\ Len(T) = m + 1 /\ T[m + 1].start = x /\ T[m + 1].end = x
        /\ \A s \in 1 .. m : T[s] = S[s]
        /\ \A s \in 1 .. m + 1 : s \in 1 .. m \/ s = m + 1
        /\ m + 1 \in 1 .. m + 1
        /\ \A s \in 1 .. m : s \in 1 .. m + 1
    BY <1>5, <1>10, <1>16
  <2>3. ASSUME NEW i \in 1 .. n + 1, OnAxis(k, Q[i].x), Q[i].at \in running
        PROVE  \E s \in 1 .. m + 1 : T[s].start <= Q[i].x /\ Q[i].x <= T[s].end
    <3>1. CASE i \in 1 .. n
      <4>1. PICK s \in 1 .. m : S[s].start <= P[i].x /\ P[i].x <= S[s].end
        BY <1>6, <1>8, <2>3, <3>1
      <4> QED BY <1>6, <2>2, <3>1, <4>1
    <3>2. CASE i = n + 1
      <4>1. T[m + 1].start <= x /\ x <= T[m + 1].end
        BY <2>2
      <4> QED BY <1>7, <2>2, <3>2, <4>1
    <3> QED BY <1>12, <3>1, <3>2
  <2>4. ASSUME NEW i \in 1 .. n + 1, NEW s \in 1 .. m + 1, OnAxis(k, Q[i].x), ~(Q[i].at \in running)
        PROVE  \/ Q[i].x < T[s].start
               \/ (T[s].end = AxisMax(k) \/ T[s].end <= Q[i].x) /\ s # m + 1
    <3>1. i \in 1 .. n /\ Q[i] = P[i]
      BY <1>6, <1>7, <1>12, <1>16, <2>4 DEF runs
    <3>2. CASE s = m + 1
      BY <1>9, <2>2, <3>1, <3>2
    <3>3. CASE s \in 1 .. m
      <4>1. \/ P[i].x < S[s].start
            \/ S[s].end = AxisMax(k) \/ S[s].end <= P[i].x
        BY <1>8, <2>4, <3>1, <3>3
      <4>2. s # m + 1
        BY <1>5, <3>3
      <4> QED BY <2>2, <3>1, <3>3, <4>1, <4>2
    <3> QED BY <2>2, <3>2, <3>3
  <2>5. \A s \in 1 .. m + 1 : T[s].end # AxisMax(k) => n + 1 > 0 /\ T[s].end <= Q[n + 1].x
    <3> TAKE s \in 1 .. m + 1
    <3> HAVE T[s].end # AxisMax(k)
    <3>1. CASE s = m + 1
      BY <1>5, <1>7, <2>2, <3>1
    <3>2. CASE s \in 1 .. m
      <4>1. T[s].end = S[s].end /\ S[s].end <= P[n].x /\ n \in 1 .. n
        BY <1>5, <1>8, <2>2, <3>2
      <4> QED BY <1>5, <1>7, <1>9, <3>2, <4>1
    <3> QED BY <2>2, <3>1, <3>2
  <2>6. m + 1 > 0 /\ n + 1 > 0 /\ T[m + 1].start <= Q[n + 1].x
    BY <1>5, <1>7, <2>2
  <2>7. BarsFit(k, d, running)
    BY <1>6, <2>1, <2>2, <2>3, <2>4, <2>5, <2>6 DEF BarsFit
  <2> QED BY <1>3, <1>13, <2>7
<1> QED BY <1>14, <1>15, <1>16
LEMMA ServerFits ==
  ASSUME TypeOK, FeedInv, NEW k \in Kinds
  PROVE  InLine(k, ServerChart(k).points) /\ BarsFit(k, ServerChart(k), running)
<1> DEFINE c == ServerChart(k)
           all == c.points
<1>1. all \in Points /\ InLine(k, all)
  BY ServerPoints
<1>2. c = [points |-> all, segments |-> Bands(k, all).segments, flag |-> Bands(k, all).flag]
  BY DEF ServerChart
<1> HIDE DEF all, c
<1>3. BarsFit(k, [points |-> all, segments |-> Bands(k, all).segments, flag |-> Bands(k, all).flag],
              running)
  BY <1>1, BandsFit
<1>4. BarsFit(k, c, running)
  BY <1>2, <1>3
<1> QED BY <1>1, <1>4 DEF all, c

LEMMA NoChartFits ==
  ASSUME NEW k \in Kinds, NEW R
  PROVE  InLine(k, NoCharts[k].points) /\ BarsFit(k, NoChart, R)
<1>1. NoCharts[k] = NoChart /\ NoChart.points = << >> /\ NoChart.segments = << >> /\ NoChart.flag = FALSE
  BY DEF NoChart, NoCharts
<1>2. 1 .. Len(<< >>) = {}
  OBVIOUS
<1> QED BY <1>1, <1>2 DEF InLine, BarsFit

LEMMA ChartStep == TypeOK /\ FeedInv /\ ChartInv /\ [Next]_vars => ChartInv'
<1> SUFFICES ASSUME TypeOK, FeedInv, ChartInv, [Next]_vars, NEW k \in Kinds
             PROVE  InLine(k, page'.charts[k].points) /\ BarsFit(k, page'.charts[k], running')
  BY DEF ChartInv
<1>1. running' = running
  BY DEF Next, PollStep, PageStep, StartTest, EnterPhase, EndTest, PollRead, PollFailed, Throttled,
     BroadcastPick, Send, Persist, OpenPage, Render, Connect, Disconnect, Apply, Tick, vars
<1>2. InLine(k, page.charts[k].points) /\ BarsFit(k, page.charts[k], running)
  BY DEF ChartInv
<1>3. CASE page'.charts = page.charts
  BY <1>1, <1>2, <1>3
<1>4. CASE page' \in {NoPage, [NoPage EXCEPT !.at = "loading"]}
  <2>1. page'.charts = NoCharts /\ NoCharts[k] = NoChart
    BY <1>4, BlankPage DEF NoCharts
  <2>2. InLine(k, NoCharts[k].points) /\ BarsFit(k, NoChart, running')
    BY NoChartFits
  <2> QED BY <2>1, <2>2
<1>5. CASE page'.charts = [j \in Kinds |-> ServerChart(j)]
  <2>1. page'.charts[k] = ServerChart(k)
    BY <1>5
  <2> QED BY <1>1, <2>1, ServerFits
<1>6. CASE /\ page.pending # << >>
           /\ LET m == Head(page.pending) IN
                /\ m.rec # NotSet
                /\ page'.charts = [j \in Kinds |-> Drawn(j, page.charts[j], m.started, m.rec)]
  <2> DEFINE m == Head(page.pending)
             c == page.charts[k]
  <2>1. page.pending \in Seq(Message) /\ c \in Chart
    BY DEF TypeOK
  <2>2. m \in Message /\ m.rec # NotSet
    BY <1>6, <2>1
  <2>3. page'.charts[k] = Drawn(k, c, m.started, m.rec)
    BY <1>6
  <2> HIDE DEF m, c
  <2>4. m.started \in OptStamp /\ m.rec \in Stamps
    BY <2>2 DEF Message, OptStamp
  <2>5. InLine(k, c.points) /\ BarsFit(k, c, running)
    BY <1>2 DEF c
  <2> DEFINE d == Drawn(k, c, m.started, m.rec)
  <2>6. InLine(k, d.points) /\ BarsFit(k, d, running)
    BY <2>1, <2>4, <2>5, DrawnFits
  <2> HIDE DEF d
  <2>7. page'.charts[k] = d
    BY <2>3 DEF d
  <2> QED BY <1>1, <2>6, <2>7
<1>7. CASE page' = page
  BY <1>1, <1>2, <1>7
<1> QED BY <1>3, <1>4, <1>5, <1>6, <1>7, PageSteps

LEMMA ChartInit == Init => ChartInv
<1> SUFFICES ASSUME Init, NEW k \in Kinds
             PROVE  InLine(k, page.charts[k].points) /\ BarsFit(k, page.charts[k], running)
  BY DEF ChartInv
<1>1. page.charts = NoCharts /\ NoCharts[k] = NoChart
  BY DEF Init, NoPage, NoCharts
<1> QED BY <1>1, NoChartFits

LEMMA ChartsAlways == Spec => [](TypeOK /\ ChartInv)
<1>1. Spec => [](TypeOK /\ HasRecord /\ FeedInv)
  BY TypeInit, TypeStep, FeedInit, FeedStep, PTL DEF Spec
<1> QED BY <1>1, ChartInit, ChartStep, PTL DEF Spec

\* The points of every chart go from left to right, each once, but for a record of before
\* the start, whatever the polls, starts, broadcasts and loadings of the page do to each
\* other (chart_builder, appendLivePointToActiveCharts).
THEOREM PointsStayInOrder == Spec => []PointsInOrder
<1>1. TypeOK /\ ChartInv => PointsInOrder
  <2> SUFFICES ASSUME TypeOK, ChartInv, NEW k \in Kinds, NEW i \in 2 .. Len(page.charts[k].points)
               PROVE  LET points == page.charts[k].points IN
                      \/ points[i - 1].x < points[i].x
                      \/ points[i - 1].x = points[i].x /\ points[i].x + Window(k).zero < 0
    BY DEF PointsInOrder
  <2> DEFINE points == page.charts[k].points
  <2>1. InLine(k, points) /\ points \in Points
    BY DEF ChartInv, TypeOK, Chart
  <2> HIDE DEF points
  <2>2. Len(points) \in Nat
    BY <2>1, PointTypes
  <2>3. i - 1 \in 1 .. Len(points) /\ i \in 1 .. Len(points) /\ i - 1 < i
    BY <2>2 DEF points
  <2>4. \/ points[i - 1].x < points[i].x
        \/ points[i - 1].x = points[i].x /\ points[i - 1].x + Window(k).zero < 0
    BY <2>1, <2>3 DEF InLine
  <2> QED BY <2>4 DEF points
<1> QED BY <1>1, ChartsAlways, PTL

\* The bar of the compressor covers the points of its chart that show it running and no
\* others, for the bars the server renders and those the page draws on
\* (_compressor_run_bands, appendLivePointToActiveCharts).
THEOREM BandsFollowPoints == Spec => []BandsMatchPoints
<1>1. TypeOK /\ ChartInv => BandsMatchPoints
  <2> SUFFICES ASSUME TypeOK, ChartInv, NEW k \in Kinds
               PROVE  LET c == page.charts[k] IN
                 /\ c.flag => c.segments # << >>
                 /\ \A p \in ToSet(c.points) : OnAxis(k, p.x) =>
                      IF p.at \in running
                      THEN \E s \in ToSet(c.segments) : s.start <= p.x /\ p.x <= s.end
                      ELSE \A s \in ToSet(c.segments) : s.end < AxisMax(k) =>
                             ~(s.start <= p.x /\ p.x < s.end)
    BY DEF BandsMatchPoints
  <2> DEFINE c == page.charts[k]
  <2>1. c \in Chart /\ BarsFit(k, c, running)
    BY DEF TypeOK, ChartInv
  <2> HIDE DEF c
  <2>2. c.points \in Points /\ c.segments \in Segments
    BY <2>1 DEF Chart
  <2>3. /\ DOMAIN c.points = 1 .. Len(c.points) /\ \A i \in 1 .. Len(c.points) : c.points[i].x \in Int
        /\ DOMAIN c.segments = 1 .. Len(c.segments) /\ AxisMax(k) \in Int
        /\ \A s \in 1 .. Len(c.segments) : c.segments[s].start \in Int /\ c.segments[s].end \in Int
    BY <2>2, PointTypes, SegmentTypes, WindowType
  <2>4. c.flag => c.segments # << >>
    BY <2>1 DEF BarsFit
  <2>5. ASSUME NEW p \in ToSet(c.points), OnAxis(k, p.x), p.at \in running
        PROVE  \E s \in ToSet(c.segments) : s.start <= p.x /\ p.x <= s.end
    <3>1. PICK i \in 1 .. Len(c.points) : p = c.points[i]
      BY <2>3 DEF ToSet
    <3>2. PICK s \in 1 .. Len(c.segments) :
            c.segments[s].start <= p.x /\ p.x <= c.segments[s].end
      BY <2>1, <2>5, <3>1 DEF BarsFit
    <3>3. c.segments[s] \in ToSet(c.segments)
      BY <2>3 DEF ToSet
    <3> QED BY <3>2, <3>3
  <2>6. ASSUME NEW p \in ToSet(c.points), OnAxis(k, p.x), p.at \notin running,
               NEW s \in ToSet(c.segments), s.end < AxisMax(k)
        PROVE  ~(s.start <= p.x /\ p.x < s.end)
    <3>1. PICK i \in 1 .. Len(c.points) : p = c.points[i]
      BY <2>3 DEF ToSet
    <3>2. PICK j \in 1 .. Len(c.segments) : s = c.segments[j]
      BY <2>3 DEF ToSet
    <3>3. \/ p.x < s.start
          \/ s.end = AxisMax(k) \/ s.end <= p.x
      BY <2>1, <2>6, <3>1, <3>2 DEF BarsFit
    <3> QED BY <2>3, <2>6, <3>1, <3>2, <3>3
  <2> QED BY <2>4, <2>5, <2>6 DEF c
<1> QED BY <1>1, ChartsAlways, PTL
=============================================================================

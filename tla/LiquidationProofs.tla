-------------------------- MODULE LiquidationProofs -------------------------
(***************************************************************************)
(* Proofs about one liquidation, for every configuration.  The profit      *)
(* search, for every cap, minimum, profit function and budget: it stays    *)
(* within its bounds, returns only what reaches the minimum, and does not  *)
(* give up on a single peak that it could have reached.  The attempt, for  *)
(* every number of states and every behaviour of the program: what it      *)
(* signs lands within its bounds or not at all.                            *)
(***************************************************************************)
EXTENDS ProfitSearch, PositionAttempt, FiniteSetTheorems, TLAPS

-----------------------------------------------------------------------------
\* The profit search.

\* A finite set has a greatest element in every total order.  Induction over
\* the finite subsets: a smallest one without greatest element cannot exist.
LEMMA Greatest ==
    ASSUME NEW S, IsFiniteSet(S), S # {}, NEW R,
           \A a, b \in S : <<a, b>> \in R \/ <<b, a>> \in R,
           \A a, b, c \in S : <<a, b>> \in R /\ <<b, c>> \in R => <<a, c>> \in R
    PROVE  \E m \in S : \A a \in S : <<a, m>> \in R
<1> DEFINE HasGreatest(T) == \E m \in T : \A a \in T : <<a, m>> \in R
           Bad == {T \in FiniteSubsetsOf(S) : T # {} /\ ~HasGreatest(T)}
<1>1. S \in FiniteSubsetsOf(S)
  BY DEF FiniteSubsetsOf
<1>2. SUFFICES ASSUME Bad # {} PROVE FALSE
  BY <1>1
<1>3. PICK T \in Bad : \A U \in Bad : <<U, T>> \notin StrictSubsetOrdering(S)
  <2>1. Bad \subseteq FiniteSubsetsOf(S)
    OBVIOUS
  <2> HIDE DEF Bad
  <2>2. QED
    BY <1>2, <2>1, FS_StrictSubsetOrderingWellFounded, WFMin
<1>4. T \subseteq S /\ IsFiniteSet(T) /\ T # {} /\ ~HasGreatest(T)
  BY <1>3 DEF FiniteSubsetsOf
<1>5. PICK x \in T : TRUE
  BY <1>4
<1>6. <<T \ {x}, T>> \in StrictSubsetOrdering(S) /\ T \ {x} \in FiniteSubsetsOf(S)
  BY <1>4, <1>5, FS_RemoveElement DEF StrictSubsetOrdering, FiniteSubsetsOf
<1>7. CASE T \ {x} = {}
  <2>1. T = {x} /\ <<x, x>> \in R
    BY <1>4, <1>5, <1>7
  <2>2. QED
    BY <1>4, <2>1
<1>8. CASE T \ {x} # {}
  <2>1. PICK m \in T \ {x} : \A a \in T \ {x} : <<a, m>> \in R
    BY <1>3, <1>6, <1>8
  <2>2. CASE <<x, m>> \in R
    BY <1>4, <2>1, <2>2
  <2>3. CASE <<m, x>> \in R
    <3>1. \A a \in T : <<a, x>> \in R
      BY <1>4, <1>5, <2>1, <2>3
    <3>2. QED
      BY <1>4, <1>5, <3>1
  <2>4. QED
    BY <1>4, <1>5, <2>1, <2>2, <2>3
<1>9. QED
  BY <1>7, <1>8

\* A finite set of numbers has a largest and a smallest one.
LEMMA LargestAndSmallest ==
    ASSUME NEW S, IsFiniteSet(S), S # {}, S \subseteq Nat
    PROVE  /\ \E m \in S : \A a \in S : a <= m
           /\ \E m \in S : \A a \in S : m <= a
<1>1. \E m \in S : \A a \in S : a <= m
  <2> DEFINE R == {z \in S \X S : z[1] <= z[2]}
  <2>1. \A a, b \in S : <<a, b>> \in R <=> a <= b
    OBVIOUS
  <2>2. \E m \in S : \A a \in S : <<a, m>> \in R
    <3> HIDE DEF R
    <3>1. \A a, b \in S : <<a, b>> \in R \/ <<b, a>> \in R
      <4>1. \A a, b \in S : a <= b \/ b <= a
        OBVIOUS
      <4>2. QED
        BY <2>1, <4>1
    <3>2. \A a, b, c \in S : <<a, b>> \in R /\ <<b, c>> \in R => <<a, c>> \in R
      BY <2>1
    <3>3. QED
      BY <3>1, <3>2, Greatest
  <2>3. QED
    BY <2>1, <2>2
<1>2. \E m \in S : \A a \in S : m <= a
  <2> DEFINE R == {z \in S \X S : z[2] <= z[1]}
  <2>1. \A a, b \in S : <<a, b>> \in R <=> b <= a
    OBVIOUS
  <2>2. \E m \in S : \A a \in S : <<a, m>> \in R
    <3> HIDE DEF R
    <3>1. \A a, b \in S : <<a, b>> \in R \/ <<b, a>> \in R
      <4>1. \A a, b \in S : a <= b \/ b <= a
        OBVIOUS
      <4>2. QED
        BY <2>1, <4>1
    <3>2. \A a, b, c \in S : <<a, b>> \in R /\ <<b, c>> \in R => <<a, c>> \in R
      BY <2>1
    <3>3. QED
      BY <3>1, <3>2, Greatest
  <2>3. QED
    BY <2>1, <2>2
<1>3. QED
  BY <1>1, <1>2

-----------------------------------------------------------------------------
LEMMA AmountsFinite == IsFiniteSet(Amounts) /\ Amounts \subseteq Nat \ {0}
BY SearchAssumption, FS_Interval DEF Amounts

\* The best of a nonempty set of amounts is in it and beaten by none.
LEMMA BestIsBest ==
    ASSUME profit \in [Amounts -> Nat \cup {Absent}], NEW S, S \subseteq Amounts, S # {}
    PROVE  /\ BestOf(S) \in S
           /\ \A a \in S : profit[a] <= profit[BestOf(S)]
<1> DEFINE R == {z \in S \X S : profit[z[1]] < profit[z[2]]
                                \/ (profit[z[1]] = profit[z[2]] /\ z[1] <= z[2])}
<1>1. \A a, b \in S : <<a, b>> \in R <=> profit[a] < profit[b] \/ (profit[a] = profit[b] /\ a <= b)
  OBVIOUS
<1>2. \A a \in S : a \in Nat /\ profit[a] \in Int
  BY AmountsFinite DEF Absent
<1>3. \E b \in S : \A a \in S : <<a, b>> \in R
  <2>1. IsFiniteSet(S)
    BY AmountsFinite, FS_Subset
  <2> HIDE DEF R
  <2>2. \A a, b \in S : <<a, b>> \in R \/ <<b, a>> \in R
    <3> SUFFICES ASSUME NEW a \in S, NEW b \in S
                 PROVE  <<a, b>> \in R \/ <<b, a>> \in R
      OBVIOUS
    <3>1. \/ profit[a] < profit[b] \/ profit[b] < profit[a]
          \/ profit[a] = profit[b] /\ (a <= b \/ b <= a)
      BY <1>2
    <3>2. QED
      BY <1>1, <3>1
  <2>3. \A a, b, c \in S : <<a, b>> \in R /\ <<b, c>> \in R => <<a, c>> \in R
    BY <1>1, <1>2
  <2>4. QED
    BY <2>1, <2>2, <2>3, Greatest
<1>4. /\ BestOf(S) \in S
      /\ \A a \in S : profit[a] < profit[BestOf(S)]
                      \/ (profit[a] = profit[BestOf(S)] /\ a <= BestOf(S))
  BY <1>1, <1>3 DEF BestOf
<1>5. QED
  BY <1>2, <1>4

\* The neighbours are visited or the ends of the interval, and nothing
\* visited lies between them and b.
LEMMA NeighbourBelow ==
    ASSUME visited \subseteq Amounts, NEW b \in Amounts, NEW lo \in Amounts, lo <= b
    PROVE  /\ Below(b, lo) \in lo..b
           /\ Below(b, lo) = lo \/ (Below(b, lo) \in visited /\ Below(b, lo) < b)
           /\ \A a \in visited : lo <= a /\ a < b => a <= Below(b, lo)
<1> DEFINE S == {a \in visited : lo <= a /\ a < b}
<1>1. b \in Nat /\ lo \in Nat
  BY AmountsFinite
<1>2. CASE S = {}
  BY <1>1, <1>2 DEF Below
<1>3. CASE S # {}
  <2>1. IsFiniteSet(S) /\ S \subseteq Nat
    BY AmountsFinite, FS_Subset
  <2>2. \E m \in S : \A a \in S : a <= m
    BY <1>3, <2>1, LargestAndSmallest
  <2>3. Below(b, lo) \in S /\ \A a \in S : a <= Below(b, lo)
    BY <1>3, <2>2 DEF Below
  <2>4. QED
    BY <1>1, <2>1, <2>3
<1>4. QED
  BY <1>2, <1>3

LEMMA NeighbourAbove ==
    ASSUME visited \subseteq Amounts, NEW b \in Amounts, NEW hi \in Amounts, b <= hi
    PROVE  /\ Above(b, hi) \in b..hi
           /\ Above(b, hi) = hi \/ (Above(b, hi) \in visited /\ b < Above(b, hi))
           /\ \A a \in visited : b < a /\ a <= hi => Above(b, hi) <= a
<1> DEFINE S == {a \in visited : b < a /\ a <= hi}
<1>1. b \in Nat /\ hi \in Nat
  BY AmountsFinite
<1>2. CASE S = {}
  BY <1>1, <1>2 DEF Above
<1>3. CASE S # {}
  <2>1. IsFiniteSet(S) /\ S \subseteq Nat
    BY AmountsFinite, FS_Subset
  <2>2. \E m \in S : \A a \in S : m <= a
    BY <1>3, <2>1, LargestAndSmallest
  <2>3. Above(b, hi) \in S /\ \A a \in S : Above(b, hi) <= a
    BY <1>3, <2>2 DEF Above
  <2>4. QED
    BY <1>1, <2>1, <2>3
<1>4. QED
  BY <1>2, <1>3

-----------------------------------------------------------------------------
\* Division rounds down.
LEMMA Quotient ==
    ASSUME NEW a \in Nat, NEW n \in Nat \ {0}
    PROVE  /\ a \div n \in Nat
           /\ n * (a \div n) <= a
           /\ a < n * (a \div n) + n
OBVIOUS

\* The quotient is the only number between these bounds.
LEMMA QuotientIs ==
    ASSUME NEW a \in Nat, NEW n \in Nat \ {0}, NEW q \in Nat, n * q <= a, a < n * q + n
    PROVE  a \div n = q
<1>1. PICK d \in Nat : d = a \div n
  BY Quotient
<1>2. n * d <= a /\ a < n * d + n
  BY <1>1, Quotient
<1>3. CASE d < q
  <2>1. n * (d + 1) <= n * q
    BY <1>3
  <2>2. QED
    BY <1>2, <2>1
<1>4. CASE q < d
  <2>1. n * (q + 1) <= n * d
    BY <1>4
  <2>2. QED
    BY <1>2, <2>1
<1>5. QED
  BY <1>1, <1>3, <1>4

\* The grid begins and ends with the interval, and stays inside.
LEMMA GridWithin ==
    ASSUME low \in Nat, high \in Nat, low <= high
    PROVE  /\ \A step \in 0..Segments : GridAmount(step) \in low..high
           /\ GridAmount(0) = low /\ GridAmount(Segments) = high
<1> DEFINE width == high - low
<1>1. width \in Nat /\ Segments \in Nat \ {0}
  BY SearchAssumption
<1> HIDE DEF width
<1>2. ASSUME NEW step \in 0..Segments
      PROVE  (width * step) \div Segments \in 0..width
  <2>1. width * step \in Nat
    BY <1>1
  <2>2. PICK q \in Nat : q = (width * step) \div Segments
    BY <1>1, <2>1, Quotient
  <2>3. Segments * q <= width * step
    BY <1>1, <2>1, <2>2, Quotient
  <2>4. width * step <= width * Segments
    BY <1>1
  <2>5. CASE width < q
    <3>1. Segments * (width + 1) <= Segments * q
      BY <1>1, <2>5
    <3>2. QED
      BY <1>1, <2>3, <2>4, <3>1
  <2>6. QED
    BY <1>1, <2>2, <2>5
<1>3. (width * 0) \div Segments = 0
  BY <1>1, QuotientIs
<1>4. (width * Segments) \div Segments = width
  <2>1. width * Segments \in Nat /\ Segments * width = width * Segments
    BY <1>1
  <2>2. QED
    BY <1>1, <2>1, QuotientIs
<1>5. ASSUME NEW step \in 0..Segments
      PROVE  GridAmount(step) = low + (width * step) \div Segments
  BY DEF GridAmount, width
<1>6. low + width = high
  BY DEF width
<1>7. \A step \in 0..Segments : GridAmount(step) \in low..high
  BY <1>1, <1>2, <1>5, <1>6
<1>8. 0 \in 0..Segments /\ Segments \in 0..Segments
  BY <1>1
<1>9. QED
  BY <1>3, <1>4, <1>5, <1>6, <1>7, <1>8

\* A grid with at least as many segments as the interval is wide hits every
\* amount.
LEMMA GridFine ==
    ASSUME low \in Nat, high \in Nat, low <= high, high - low <= Segments,
           NEW t \in low..high
    PROVE  \E step \in 0..Segments : GridAmount(step) = t
<1> DEFINE width == high - low
           d == t - low
<1>1. width \in Nat /\ Segments \in Nat \ {0} /\ d \in 0..width /\ width <= Segments
  BY SearchAssumption
<1>2. \A step \in 0..Segments :
          GridAmount(step) = low + (width * step) \div Segments
  BY DEF GridAmount
<1>3. low + d = t
  OBVIOUS
<1> HIDE DEF width, d
<1>4. CASE width = 0
  BY <1>1, <1>3, <1>4, GridWithin
<1>5. CASE width > 0
  <2>1. d * Segments + (width - 1) \in Nat
    BY <1>1, <1>5
  <2>2. PICK step \in Nat : step = (d * Segments + (width - 1)) \div width
    BY <1>1, <1>5, <2>1, Quotient
  <2>3. /\ width * step <= d * Segments + (width - 1)
        /\ d * Segments + (width - 1) < width * step + width
    BY <1>1, <1>5, <2>1, <2>2, Quotient
  <2>4. width * step \in Nat /\ d * Segments \in Nat /\ Segments * d = d * Segments
    BY <1>1
  <2>5. Segments * d <= width * step /\ width * step < Segments * d + Segments
    BY <1>1, <2>3, <2>4
  <2>6. step <= Segments
    <3>1. d * Segments <= width * Segments
      BY <1>1
    <3>2. CASE Segments < step
      <4>1. width * (Segments + 1) <= width * step
        BY <1>1, <3>2
      <4>2. QED
        BY <1>1, <2>3, <3>1, <4>1
    <3>3. QED
      BY <1>1, <3>2
  <2>7. (width * step) \div Segments = d
    BY <1>1, <2>4, <2>5, QuotientIs
  <2>8. step \in 0..Segments
    BY <1>1, <2>2, <2>6
  <2>9. GridAmount(step) = low + d
    BY <1>2, <2>7, <2>8
  <2>10. QED
    BY <1>3, <2>8, <2>9
<1>6. QED
  BY <1>1, <1>4, <1>5

\* A coarser grid of three segments or more has two amounts inside.
LEMMA GridCoarse ==
    ASSUME low \in Nat, high \in Nat, low <= high, Segments >= 3, Segments <= high - low
    PROVE  low < GridAmount(1) /\ GridAmount(1) < GridAmount(2) /\ GridAmount(2) < high
<1> DEFINE width == high - low
<1>1. width \in Nat /\ Segments \in Nat \ {0} /\ Segments >= 3 /\ Segments <= width
  BY SearchAssumption
<1>2. /\ GridAmount(1) = low + (width * 1) \div Segments
      /\ GridAmount(2) = low + (width * 2) \div Segments
  BY DEF GridAmount
<1>3. low + width = high
  OBVIOUS
<1> HIDE DEF width
<1>4. PICK q \in Nat : q = (width * 1) \div Segments
  BY <1>1, Quotient
<1>5. PICK r \in Nat : r = (width * 2) \div Segments
  BY <1>1, Quotient
<1>6. Segments * q <= width /\ width < Segments * q + Segments
  BY <1>1, <1>4, Quotient
<1>7. Segments * r <= width * 2 /\ width * 2 < Segments * r + Segments
  BY <1>1, <1>5, Quotient
<1>8. q > 0
  <2>1. CASE q = 0
    BY <1>1, <1>6, <2>1
  <2>2. QED
    BY <2>1
<1>9. q < r
  <2>1. CASE r <= q
    <3>1. Segments * r <= Segments * q
      BY <1>1, <2>1
    <3>2. QED
      BY <1>1, <1>6, <1>7, <3>1
  <2>2. QED
    BY <2>1
<1>10. r < width
  <2>1. CASE width <= r
    <3>1. Segments * width <= Segments * r
      BY <1>1, <2>1
    <3>2. 3 * width <= Segments * width
      BY <1>1
    <3>3. QED
      BY <1>1, <1>7, <3>1, <3>2
  <2>2. QED
    BY <1>1, <2>1
<1>11. QED
  BY <1>2, <1>3, <1>4, <1>5, <1>8, <1>9, <1>10, <1>1

-----------------------------------------------------------------------------
\* The inductive invariant.

Spent == Cardinality(visited) >= MaxProbes

\* The amounts in a queue.
Queued(queue) == {queue[i] : i \in 1..Len(queue)}

Refining == {"refine", "grid", "tail", "local"}

\* Nothing that reaches the minimum is passed over.
Verdict ==
    /\ phase # "found" => selected = 0
    /\ phase = "found" => /\ selected \in visited /\ profit[selected] >= Minimum
                          /\ \A a \in visited \ {selected} : profit[a] < Minimum
    /\ phase \notin {"found", "failed"} => \A a \in visited : profit[a] < Minimum

\* The interval lies among the amounts and holds one that is available.
Bracket ==
    phase \in Refining =>
        /\ low \in Amounts /\ high \in Amounts
        /\ Scored \cap (low..high) # {}

BaseInv == TypeOK /\ Verdict /\ Bracket

LEMMA BaseInit == Init => BaseInv
<1> SUFFICES ASSUME Init PROVE BaseInv
  OBVIOUS
<1>1. Cardinality({}) = 0
  BY FS_EmptySet
<1>2. TypeOK
  BY <1>1, SearchAssumption DEF Init, TypeOK
<1>3. QED
  BY <1>2 DEF Init, BaseInv, Verdict, Bracket, Refining

\* Taking the first of a queue.
LEMMA HeadAndTail ==
    ASSUME NEW S, NEW queue \in Seq(S), queue # <<>>
    PROVE  /\ Head(queue) \in S /\ Tail(queue) \in Seq(S)
           /\ Queued(queue) = {Head(queue)} \cup Queued(Tail(queue))
<1>1. Len(queue) \in Nat \ {0} /\ Head(queue) = queue[1] /\ Head(queue) \in S
  OBVIOUS
<1>2. /\ Tail(queue) \in Seq(S) /\ Len(Tail(queue)) = Len(queue) - 1
      /\ \A i \in 1..Len(Tail(queue)) : Tail(queue)[i] = queue[i + 1]
  OBVIOUS
<1>3. ASSUME NEW a \in Queued(queue)
      PROVE  a \in {Head(queue)} \cup Queued(Tail(queue))
  <2>1. PICK i \in 1..Len(queue) : a = queue[i]
    BY DEF Queued
  <2>2. CASE i = 1
    BY <1>1, <2>1, <2>2
  <2>3. CASE i # 1
    <3>1. i - 1 \in 1..Len(Tail(queue)) /\ Tail(queue)[i - 1] = queue[(i - 1) + 1]
      BY <1>1, <1>2, <2>3
    <3>2. QED
      BY <2>1, <3>1 DEF Queued
  <2>4. QED
    BY <2>2, <2>3
<1>4. ASSUME NEW a \in {Head(queue)} \cup Queued(Tail(queue))
      PROVE  a \in Queued(queue)
  <2>1. CASE a = Head(queue)
    BY <1>1, <2>1 DEF Queued
  <2>2. CASE a \in Queued(Tail(queue))
    <3>1. PICK i \in 1..Len(Tail(queue)) : a = Tail(queue)[i]
      BY <2>2 DEF Queued
    <3>2. i + 1 \in 1..Len(queue) /\ a = queue[i + 1]
      BY <1>1, <1>2, <3>1
    <3>3. QED
      BY <3>2 DEF Queued
  <2>3. QED
    BY <2>1, <2>2
<1>5. QED
  BY <1>1, <1>2, <1>3, <1>4

\* The budget holds one more amount.
LEMMA OneMore ==
    ASSUME TypeOK, ~Spent, NEW a \in Amounts
    PROVE  /\ visited \cup {a} \subseteq Amounts
           /\ Cardinality(visited \cup {a}) <= MaxProbes
<1>1. IsFiniteSet(visited)
  BY AmountsFinite, FS_Subset DEF TypeOK
<1>2. Cardinality(visited) \in Nat
  BY <1>1, FS_CardinalityType
<1>3. \/ Cardinality(visited \cup {a}) = Cardinality(visited)
      \/ Cardinality(visited \cup {a}) = Cardinality(visited) + 1
  BY <1>1, FS_AddElement
<1>4. Cardinality(visited \cup {a}) <= MaxProbes
  BY <1>2, <1>3, SearchAssumption DEF Spent
<1>5. QED
  BY <1>4 DEF TypeOK

\* What a probe does: it drops an amount that needs no evaluation, or
\* evaluates one, which fails, ends the search or goes on.
LEMMA ProbeCases ==
    ASSUME TypeOK, Probe
    PROVE  /\ phase \in {"slices", "grid", "local"} /\ todo # <<>>
           /\ UNCHANGED <<profit, low, high>>
           /\ Head(todo) \in Amounts /\ Tail(todo) \in Seq(Amounts)
           /\ Queued(todo) = {Head(todo)} \cup Queued(Tail(todo))
           /\ \/ /\ Head(todo) \in visited \/ Spent
                 /\ todo' = Tail(todo) /\ UNCHANGED <<phase, visited, selected>>
              \/ /\ ~Spent /\ visited' = visited \cup {Head(todo)}
                 /\ \/ phase' = "failed" /\ todo' = <<>> /\ UNCHANGED selected
                    \/ /\ profit[Head(todo)] >= Minimum /\ phase' = "found"
                       /\ todo' = <<>> /\ selected' = Head(todo)
                    \/ /\ profit[Head(todo)] < Minimum
                       /\ todo' = Tail(todo) /\ UNCHANGED <<phase, selected>>
<1>1. todo \in Seq(Amounts) /\ todo # <<>>
  BY DEF TypeOK, Probe
<1>2. /\ Head(todo) \in Amounts /\ Tail(todo) \in Seq(Amounts)
      /\ Queued(todo) = {Head(todo)} \cup Queued(Tail(todo))
  BY <1>1, HeadAndTail
<1>3. Head(todo) # 0
  BY <1>2, AmountsFinite
<1>4. QED
  BY <1>1, <1>2, <1>3 DEF Probe, Spent

\* Narrowing lo..hi around its best amount b keeps b and any peak, and leaves
\* the interval as it is only when nothing else inside has been visited.
LEMMA Narrowing ==
    ASSUME TypeOK, NEW lo \in Amounts, NEW hi \in Amounts, lo <= hi,
           Scored \cap (lo..hi) # {},
           NEW b, b = BestOf(Scored \cap (lo..hi))
    PROVE  /\ b \in Scored
           /\ Below(b, lo) \in lo..b /\ Above(b, hi) \in b..hi
           /\ Below(b, lo) \in Amounts /\ Above(b, hi) \in Amounts
           /\ \A p, x, y \in Amounts :
                 IsPeak(p, x, y) /\ p \in lo..hi => p \in Below(b, lo)..Above(b, hi)
           /\ Below(b, lo) = lo /\ Above(b, hi) = hi =>
                 \A a \in visited \cap (lo..hi) : a \in {lo, b, hi}
<1> DEFINE S == Scored \cap (lo..hi)
           l == Below(b, lo)
           h == Above(b, hi)
<1>1. visited \subseteq Amounts /\ profit \in [Amounts -> Nat \cup {Absent}] /\ lo \in Nat /\ hi \in Nat
  BY AmountsFinite DEF TypeOK
<1>2. S \subseteq Amounts
  BY <1>1 DEF Scored
<1>3. b \in S /\ \A a \in S : profit[a] <= profit[b]
  BY <1>1, <1>2, BestIsBest
<1>4. b \in Amounts /\ b \in Nat /\ lo <= b /\ b <= hi
  BY <1>2, <1>3, AmountsFinite
<1>5. /\ l \in lo..b
      /\ l = lo \/ (l \in visited /\ l < b)
      /\ \A a \in visited : lo <= a /\ a < b => a <= l
  BY <1>1, <1>4, NeighbourBelow
<1>6. /\ h \in b..hi
      /\ h = hi \/ (h \in visited /\ b < h)
      /\ \A a \in visited : b < a /\ a <= hi => h <= a
  BY <1>1, <1>4, NeighbourAbove
<1> HIDE DEF l, h
<1>7. l \in Amounts /\ h \in Amounts
  BY <1>1, <1>4, <1>5, <1>6
<1>8. ASSUME NEW p \in Amounts, NEW x \in Amounts, NEW y \in Amounts,
             IsPeak(p, x, y), p \in lo..hi
      PROVE  p \in l..h
  <2>1. /\ x <= b /\ b <= y /\ x <= p /\ p <= y
        /\ p \in Nat /\ x \in Nat /\ y \in Nat /\ l \in Nat /\ h \in Nat
    BY <1>3, <1>4, <1>7, <1>8, AmountsFinite DEF IsPeak, Scored
  <2>2. CASE p < l
    <3>1. l \in visited /\ l < b
      BY <1>5, <1>8, <2>1, <2>2
    <3>2. l \in S
      BY <1>1, <1>4, <1>5, <1>7, <1>8, <2>1, <2>2, <3>1 DEF IsPeak, Scored
    <3>3. profit[l] > profit[b]
      <4>1. l \in p..y /\ b \in p..y
        BY <1>4, <2>1, <2>2, <3>1
      <4>2. QED
        BY <1>8, <3>1, <4>1 DEF IsPeak
    <3>4. profit[l] \in Int /\ profit[b] \in Int
      BY <1>1, <1>4, <1>7 DEF Absent
    <3>5. QED
      BY <1>3, <3>2, <3>3, <3>4
  <2>3. CASE h < p
    <3>1. h \in visited /\ b < h
      BY <1>6, <1>8, <2>1, <2>3
    <3>2. h \in S
      BY <1>1, <1>4, <1>6, <1>7, <1>8, <2>1, <2>3, <3>1 DEF IsPeak, Scored
    <3>3. profit[b] < profit[h]
      <4>1. h \in x..p /\ b \in x..p
        BY <1>4, <2>1, <2>3, <3>1
      <4>2. QED
        BY <1>8, <3>1, <4>1 DEF IsPeak
    <3>4. profit[h] \in Int /\ profit[b] \in Int
      BY <1>1, <1>4, <1>7 DEF Absent
    <3>5. QED
      BY <1>3, <3>2, <3>3, <3>4
  <2>4. QED
    BY <2>1, <2>2, <2>3
<1>9. ASSUME l = lo, h = hi, NEW a \in visited \cap (lo..hi)
      PROVE  a \in {lo, b, hi}
  <2>1. a \in Nat /\ lo <= a /\ a <= hi
    BY <1>1, AmountsFinite
  <2>2. a < b => a = lo
    BY <1>1, <1>5, <1>9, <2>1
  <2>3. b < a => a = hi
    BY <1>1, <1>6, <1>9, <2>1
  <2>4. QED
    BY <1>4, <2>1, <2>2, <2>3
<1>10. b \in Scored
  BY <1>3
<1>11. QED
  BY <1>5, <1>6, <1>7, <1>8, <1>9, <1>10 DEF l, h

-----------------------------------------------------------------------------
\* Each action keeps the bounds, the verdict and the interval.

LEMMA HalveBase == ASSUME BaseInv, Halve PROVE BaseInv'
<1>1. TypeOK /\ Verdict /\ phase = "halve" /\ UNCHANGED <<profit, visited, low, high, selected>>
  BY DEF BaseInv, Halve
<1>2. phase' \in {"halve", "slices"}
  BY DEF Halve, BaseInv
<1>3. todo' \in Seq(Amounts)
  <2> DEFINE value == IF todo = <<>> THEN Cap ELSE todo[Len(todo)] \div 2
  <2>1. todo \in Seq(Amounts) /\ Cap \in Nat
    BY <1>1, SearchAssumption DEF TypeOK
  <2>2. Cap > 0 => 1 \in Amounts /\ Cap \in Amounts
    BY <2>1 DEF Amounts
  <2>3. value > 0 => value \in Amounts
    <3>1. CASE todo = <<>>
      BY <2>2, <3>1
    <3>2. CASE todo # <<>>
      <4>1. todo[Len(todo)] \in Amounts
        BY <2>1, <3>2
      <4>2. todo[Len(todo)] \in 1..Cap
        BY <4>1 DEF Amounts
      <4>3. ASSUME NEW n \in 1..Cap, n \div 2 > 0
            PROVE  n \div 2 \in 1..Cap
        BY <2>1, <4>3
      <4>4. QED
        BY <3>2, <4>2, <4>3 DEF Amounts
    <3>3. QED
      BY <3>1, <3>2
  <2>4. \/ value > 0 /\ todo' = Append(todo, value)
        \/ Cap > 0 /\ todo' = Append(todo, 1)
        \/ todo' = todo
    BY DEF Halve
  <2> HIDE DEF value
  <2>5. QED
    BY <2>1, <2>2, <2>3, <2>4
<1>4. TypeOK'
  BY <1>1, <1>2, <1>3 DEF TypeOK
<1>5. Verdict'
  BY <1>1, <1>2 DEF Verdict
<1>6. Bracket'
  BY <1>2 DEF Bracket, Refining
<1>7. QED
  BY <1>4, <1>5, <1>6 DEF BaseInv

LEMMA ProbeBase == ASSUME BaseInv, Probe PROVE BaseInv'
<1>1. TypeOK /\ Verdict /\ Bracket
  BY DEF BaseInv
<1> DEFINE a == Head(todo)
<1>2. /\ phase \in {"slices", "grid", "local"} /\ UNCHANGED <<profit, low, high>>
      /\ a \in Amounts /\ Tail(todo) \in Seq(Amounts)
      /\ \/ todo' = Tail(todo) /\ UNCHANGED <<phase, visited, selected>>
         \/ /\ ~Spent /\ visited' = visited \cup {a}
            /\ \/ phase' = "failed" /\ todo' = <<>> /\ UNCHANGED selected
               \/ profit[a] >= Minimum /\ phase' = "found" /\ todo' = <<>> /\ selected' = a
               \/ profit[a] < Minimum /\ todo' = Tail(todo) /\ UNCHANGED <<phase, selected>>
  BY <1>1, ProbeCases
<1> HIDE DEF a
<1>3. visited' \subseteq Amounts /\ Cardinality(visited') <= MaxProbes
  BY <1>1, <1>2, OneMore DEF TypeOK
<1>4. todo' \in Seq(Amounts) /\ selected' \in 0..Cap
  <2>1. todo' \in {Tail(todo), <<>>} /\ selected' \in {selected, a}
    BY <1>2
  <2>2. <<>> \in Seq(Amounts)
    OBVIOUS
  <2>3. a \in 0..Cap /\ selected \in 0..Cap
    BY <1>1, <1>2, SearchAssumption DEF TypeOK, Amounts
  <2>4. QED
    BY <1>2, <2>1, <2>2, <2>3
<1>5. TypeOK'
  BY <1>1, <1>2, <1>3, <1>4 DEF TypeOK
<1>6. Verdict'
  BY <1>1, <1>2 DEF Verdict
<1>7. Bracket'
  BY <1>1, <1>2 DEF Bracket, Refining, Scored
<1>8. QED
  BY <1>5, <1>6, <1>7 DEF BaseInv

LEMMA ScoredRange ==
    ASSUME TypeOK, Scored # {}
    PROVE  Scored \cap (1..Cap) = Scored /\ 1 \in Amounts /\ Cap \in Amounts /\ 1 <= Cap
<1>1. Scored \subseteq 1..Cap
  BY DEF TypeOK, Scored, Amounts
<1>2. PICK a : a \in 1..Cap
  BY <1>1
<1>3. 1 <= Cap /\ Cap \in Nat
  BY <1>2, SearchAssumption
<1>4. 1 \in 1..Cap /\ Cap \in 1..Cap
  BY <1>3
<1>5. QED
  BY <1>1, <1>3, <1>4 DEF Amounts

LEMMA EndSlicesBase == ASSUME BaseInv, EndSlices PROVE BaseInv'
<1>1. TypeOK /\ Verdict /\ phase = "slices" /\ UNCHANGED <<profit, todo, visited, selected>>
  BY DEF BaseInv, EndSlices
<1>2. CASE Scored = {}
  <2>1. phase' = "none" /\ UNCHANGED <<low, high>>
    BY <1>2 DEF EndSlices
  <2>2. QED
    BY <1>1, <2>1 DEF BaseInv, TypeOK, Verdict, Bracket, Refining
<1>3. CASE Scored # {}
  <2>1. /\ phase' = "refine"
        /\ low' = Below(BestOf(Scored), 1) /\ high' = Above(BestOf(Scored), Cap)
    BY <1>3 DEF EndSlices
  <2>2. Scored \cap (1..Cap) = Scored /\ 1 \in Amounts /\ Cap \in Amounts /\ 1 <= Cap
    BY <1>1, <1>3, ScoredRange
  <2>3. PICK b : b = BestOf(Scored)
    OBVIOUS
  <2>4. /\ b \in Scored /\ low' \in 1..b /\ high' \in b..Cap
        /\ low' \in Amounts /\ high' \in Amounts
    BY <1>1, <1>3, <2>1, <2>2, <2>3, Narrowing
  <2>5. b \in Amounts /\ b \in Nat
    BY <1>1, <2>4, AmountsFinite DEF TypeOK, Scored
  <2>6. low' \in 0..Cap /\ high' \in low'..Cap /\ b \in low'..high'
    BY <2>4, <2>5, SearchAssumption
  <2>7. TypeOK'
    BY <1>1, <2>1, <2>6 DEF TypeOK
  <2>8. Bracket'
    BY <1>1, <2>1, <2>4, <2>6 DEF Bracket, Scored
  <2>9. QED
    BY <1>1, <2>1, <2>7, <2>8 DEF BaseInv, Verdict
<1>4. QED
  BY <1>2, <1>3

LEMMA RefineBase == ASSUME BaseInv, Refine PROVE BaseInv'
<1>1. /\ TypeOK /\ Verdict /\ Bracket /\ phase = "refine"
      /\ UNCHANGED <<profit, visited, low, high, selected>>
  BY DEF BaseInv, Refine
<1>2. \/ phase' = "tail" /\ UNCHANGED todo
      \/ phase' = "grid" /\ todo' = [i \in 1..(Segments + 1) |-> GridAmount(i - 1)]
  BY DEF Refine
<1>3. low \in Nat /\ high \in Nat /\ low <= high /\ low..high \subseteq Amounts /\ Segments \in Nat
  BY <1>1, SearchAssumption DEF TypeOK, Bracket, Refining, Amounts
<1>4. [i \in 1..(Segments + 1) |-> GridAmount(i - 1)] \in Seq(Amounts)
  <2>1. \A i \in 1..(Segments + 1) : GridAmount(i - 1) \in Amounts
    <3>1. \A i \in 1..(Segments + 1) : i - 1 \in 0..Segments
      BY <1>3
    <3>2. QED
      BY <1>3, <3>1, GridWithin
  <2>2. Segments + 1 \in Nat
    BY <1>3
  <2>3. QED
    BY <2>1, <2>2
<1>5. TypeOK'
  BY <1>1, <1>2, <1>4 DEF TypeOK
<1>6. QED
  BY <1>1, <1>2, <1>5 DEF BaseInv, Verdict, Bracket, Refining, Scored

LEMMA EndGridBase == ASSUME BaseInv, EndGrid PROVE BaseInv'
<1>1. /\ TypeOK /\ Verdict /\ Bracket /\ phase = "grid"
      /\ UNCHANGED <<profit, todo, visited, selected>>
  BY DEF BaseInv, EndGrid
<1>2. PICK b : b = BestOf(Scored \cap (low..high))
  OBVIOUS
<1>3. low \in Amounts /\ high \in Amounts /\ low <= high /\ Scored \cap (low..high) # {}
  BY <1>1, SearchAssumption DEF TypeOK, Bracket, Refining
<1>4. /\ b \in Scored /\ Below(b, low) \in low..b /\ Above(b, high) \in b..high
      /\ Below(b, low) \in Amounts /\ Above(b, high) \in Amounts
  BY <1>1, <1>2, <1>3, Narrowing
<1>5. \/ phase' = "tail" /\ UNCHANGED <<low, high>>
      \/ phase' = "refine" /\ low' = Below(b, low) /\ high' = Above(b, high)
  BY <1>2 DEF EndGrid
<1>6. CASE phase' = "tail" /\ UNCHANGED <<low, high>>
  BY <1>1, <1>3, <1>6 DEF BaseInv, TypeOK, Verdict, Bracket, Scored
<1>7. CASE phase' = "refine" /\ low' = Below(b, low) /\ high' = Above(b, high)
  <2>1. b \in Nat /\ low \in Nat /\ high \in Nat /\ high <= Cap /\ Cap \in Nat
    BY <1>1, <1>3, <1>4, AmountsFinite, SearchAssumption DEF TypeOK, Scored, Amounts
  <2>2. low' \in 0..Cap /\ high' \in low'..Cap /\ b \in low'..high'
    BY <1>4, <1>7, <2>1
  <2>3. TypeOK'
    BY <1>1, <1>7, <2>2 DEF TypeOK
  <2>4. Bracket'
    BY <1>1, <1>4, <1>7, <2>2 DEF Bracket, Scored
  <2>5. QED
    BY <1>1, <1>7, <2>3, <2>4 DEF BaseInv, Verdict
<1>8. QED
  BY <1>5, <1>6, <1>7

LEMMA StartLocalBase == ASSUME BaseInv, StartLocal PROVE BaseInv'
<1>1. /\ TypeOK /\ Verdict /\ Bracket /\ phase = "tail"
      /\ UNCHANGED <<profit, visited, low, high, selected>>
  BY DEF BaseInv, StartLocal
<1>2. \/ phase' = "local" /\ todo' = [i \in 1..(high - low + 1) |-> high - i + 1]
      \/ phase' = "none" /\ UNCHANGED todo
  BY DEF StartLocal
<1>3. low \in Nat /\ high \in Nat /\ low <= high /\ low..high \subseteq Amounts
  BY <1>1, SearchAssumption DEF TypeOK, Bracket, Refining, Amounts
<1>4. [i \in 1..(high - low + 1) |-> high - i + 1] \in Seq(Amounts)
  <2>1. \A i \in 1..(high - low + 1) : high - i + 1 \in low..high
    BY <1>3
  <2>2. high - low + 1 \in Nat
    BY <1>3
  <2>3. \A i \in 1..(high - low + 1) : high - i + 1 \in Amounts
    BY <1>3, <2>1
  <2>4. QED
    BY <2>2, <2>3
<1>5. TypeOK'
  BY <1>1, <1>2, <1>4 DEF TypeOK
<1>6. QED
  BY <1>1, <1>2, <1>5 DEF BaseInv, Verdict, Bracket, Refining, Scored

LEMMA BaseStep == BaseInv /\ [Next]_vars => BaseInv'
<1>1. ASSUME BaseInv, EndLocal PROVE BaseInv'
  BY <1>1 DEF EndLocal, BaseInv, TypeOK, Verdict, Bracket, Refining
<1>2. ASSUME BaseInv, UNCHANGED vars PROVE BaseInv'
  BY <1>2 DEF vars, BaseInv, TypeOK, Verdict, Bracket, Scored
<1>3. QED
  BY <1>1, <1>2, HalveBase, ProbeBase, EndSlicesBase, RefineBase, EndGridBase, StartLocalBase
     DEF Next

\* What this phase covers is visited or waiting, while probes are left.
Progress ==
    /\ phase = "grid" =>
        Spent \/ \A step \in 0..Segments : GridAmount(step) \in visited \cup Queued(todo)
    /\ phase = "tail" => Spent \/ high - low <= LocalWidth \/ low..high \subseteq visited
    /\ phase = "local" => Spent \/ low..high \subseteq visited \cup Queued(todo)

\* The interval never loses the peak.
PeakKept ==
    \A p, x, y \in Amounts : IsPeak(p, x, y) =>
        /\ phase \in Refining => p \in low..high
        /\ phase = "none" => Scored = {} \/ Spent \/ p \in visited

SearchInv == BaseInv /\ Progress /\ PeakKept

LEMMA SearchInit == Init => SearchInv
BY BaseInit DEF Init, SearchInv, Progress, PeakKept, Refining

LEMMA ProbeCovers == ASSUME SearchInv, Probe PROVE Progress' /\ PeakKept'
<1>1. TypeOK /\ Progress /\ PeakKept
  BY DEF SearchInv, BaseInv
<1> DEFINE a == Head(todo)
<1>2. /\ phase \in {"slices", "grid", "local"} /\ UNCHANGED <<profit, low, high>>
      /\ Queued(todo) = {a} \cup Queued(Tail(todo))
      /\ \/ /\ a \in visited \/ Spent
            /\ todo' = Tail(todo) /\ UNCHANGED <<phase, visited, selected>>
         \/ ~Spent /\ visited' = visited \cup {a} /\ phase' \in {"failed", "found"}
         \/ ~Spent /\ visited' = visited \cup {a} /\ todo' = Tail(todo) /\ UNCHANGED phase
  BY <1>1, ProbeCases
<1> HIDE DEF a
<1>3. CASE phase' \in {"failed", "found"}
  BY <1>3 DEF Progress, PeakKept, Refining
<1>4. CASE phase' = phase /\ todo' = Tail(todo)
  <2>1. Spent => visited' = visited
    BY <1>2, <1>4
  <2>2. Spent => Spent'
    BY <2>1 DEF Spent
  <2>3. ~Spent => visited \cup Queued(todo) \subseteq visited' \cup Queued(todo')
    BY <1>2, <1>4
  <2>4. \A step \in 0..Segments : GridAmount(step)' = GridAmount(step)
    BY <1>2 DEF GridAmount
  <2>5. Progress'
    <3>1. ASSUME phase' = "grid", ~Spent', NEW step \in 0..Segments
          PROVE  GridAmount(step)' \in visited' \cup Queued(todo')
      <4>1. GridAmount(step) \in visited \cup Queued(todo)
        BY <1>1, <1>4, <2>2, <3>1 DEF Progress
      <4>2. QED
        BY <2>2, <2>3, <2>4, <3>1, <4>1
    <3>2. ASSUME phase' = "local", ~Spent'
          PROVE  (low..high)' \subseteq visited' \cup Queued(todo')
      <4>1. low..high \subseteq visited \cup Queued(todo)
        BY <1>1, <1>4, <2>2, <3>2 DEF Progress
      <4>2. QED
        BY <1>2, <2>2, <2>3, <3>2, <4>1
    <3>3. phase' # "tail"
      BY <1>2, <1>4
    <3>4. Queued(todo)' = Queued(todo')
      BY DEF Queued
    <3>5. QED
      BY <3>1, <3>2, <3>3, <3>4 DEF Progress
  <2>6. PeakKept'
    BY <1>1, <1>2, <1>4 DEF PeakKept, IsPeak, Refining
  <2>7. QED
    BY <2>5, <2>6
<1>5. QED
  BY <1>2, <1>3, <1>4

LEMMA EndSlicesCovers == ASSUME SearchInv, EndSlices PROVE Progress' /\ PeakKept'
<1>1. TypeOK /\ phase = "slices" /\ UNCHANGED <<profit, todo, visited, selected>>
  BY DEF SearchInv, BaseInv, EndSlices
<1>2. CASE Scored = {}
  <2>1. phase' = "none" /\ Scored' = {}
    BY <1>1, <1>2 DEF EndSlices, Scored
  <2>2. QED
    BY <2>1 DEF Progress, PeakKept, Refining
<1>3. CASE Scored # {}
  <2>1. PICK b : b = BestOf(Scored)
    OBVIOUS
  <2>2. phase' = "refine" /\ low' = Below(b, 1) /\ high' = Above(b, Cap)
    BY <1>3, <2>1 DEF EndSlices
  <2>3. Scored \cap (1..Cap) = Scored /\ 1 \in Amounts /\ Cap \in Amounts /\ 1 <= Cap
    BY <1>1, <1>3, ScoredRange
  <2>4. ASSUME NEW p \in Amounts, NEW x \in Amounts, NEW y \in Amounts, IsPeak(p, x, y)
        PROVE  p \in low'..high'
    <3>1. p \in 1..Cap
      BY DEF Amounts
    <3>2. QED
      BY <1>1, <1>3, <2>1, <2>2, <2>3, <2>4, <3>1, Narrowing
  <2>5. PeakKept'
    BY <1>1, <2>2, <2>4 DEF PeakKept, IsPeak
  <2>6. QED
    BY <2>2, <2>5 DEF Progress
<1>4. QED
  BY <1>2, <1>3

LEMMA RefineCovers == ASSUME SearchInv, Refine PROVE Progress' /\ PeakKept'
<1>1. /\ TypeOK /\ PeakKept /\ Bracket /\ phase = "refine"
      /\ UNCHANGED <<profit, visited, low, high, selected>>
  BY DEF SearchInv, BaseInv, Refine
<1>2. phase' \in {"grid", "tail"}
  BY DEF Refine
<1>3. PeakKept'
  BY <1>1, <1>2 DEF PeakKept, IsPeak, Refining
<1>4. CASE phase' = "grid"
  <2>1. Segments \in Nat
    BY SearchAssumption
  <2>2. todo' = [i \in 1..(Segments + 1) |-> GridAmount(i - 1)]
    BY <1>4 DEF Refine
  <2>3. Len(todo') = Segments + 1
    BY <2>1, <2>2
  <2>4. ASSUME NEW step \in 0..Segments
        PROVE  GridAmount(step)' \in Queued(todo)'
    <3>1. step + 1 \in 1..Len(todo') /\ (step + 1) - 1 = step
      BY <2>1, <2>3
    <3>2. todo'[step + 1] = GridAmount(step)
      BY <2>2, <2>3, <3>1
    <3>3. GridAmount(step)' = GridAmount(step)
      BY <1>1 DEF GridAmount
    <3>4. QED
      BY <3>1, <3>2, <3>3 DEF Queued
  <2>5. QED
    BY <1>3, <1>4, <2>4 DEF Progress
<1>5. CASE phase' = "tail"
  <2>1. ~(high - low > LocalWidth) \/ ~(Cardinality(visited) < MaxProbes)
    BY <1>5 DEF Refine
  <2>2. Cardinality(visited) \in Nat
    BY <1>1, AmountsFinite, FS_Subset, FS_CardinalityType DEF TypeOK
  <2>3. high - low <= LocalWidth \/ Spent
    BY <1>1, <2>1, <2>2, SearchAssumption DEF TypeOK, Spent
  <2>4. (high - low <= LocalWidth)' \/ Spent'
    BY <1>1, <2>3 DEF Spent
  <2>5. QED
    BY <1>3, <1>5, <2>4 DEF Progress
<1>6. QED
  BY <1>2, <1>4, <1>5

\* A grid of three segments or more that leaves the interval as it is has
\* visited all of it.
LEMMA GridExhausts ==
    ASSUME Segments >= 3, TypeOK, low \in Amounts, high \in Amounts, low <= high,
           \A step \in 0..Segments : GridAmount(step) \in visited,
           NEW b \in Amounts, \A a \in visited \cap (low..high) : a \in {low, b, high}
    PROVE  low..high \subseteq visited
<1>1. low \in Nat /\ high \in Nat /\ Segments \in Nat
  BY AmountsFinite, SearchAssumption
<1>2. CASE high - low <= Segments
  <2>1. ASSUME NEW t \in low..high
        PROVE  t \in visited
    BY <1>1, <1>2, GridFine
  <2>2. QED
    BY <2>1
<1>3. CASE Segments <= high - low
  <2>1. low < GridAmount(1) /\ GridAmount(1) < GridAmount(2) /\ GridAmount(2) < high
    BY <1>1, <1>3, GridCoarse
  <2>2. 1 \in 0..Segments /\ 2 \in 0..Segments
    BY <1>1
  <2>3. GridAmount(1) \in low..high /\ GridAmount(2) \in low..high
    BY <1>1, <2>2, GridWithin
  <2>4. GridAmount(1) = b /\ GridAmount(2) = b
    BY <1>1, <2>1, <2>2, <2>3
  <2>5. QED
    BY <1>1, <2>1, <2>3, <2>4
<1>4. QED
  BY <1>1, <1>2, <1>3

LEMMA EndGridCovers ==
    ASSUME Segments >= 3, SearchInv, EndGrid
    PROVE  Progress' /\ PeakKept'
<1>1. /\ TypeOK /\ Progress /\ PeakKept /\ Bracket /\ phase = "grid" /\ todo = <<>>
      /\ UNCHANGED <<profit, todo, visited, selected>>
  BY DEF SearchInv, BaseInv, EndGrid
<1>2. PICK b : b = BestOf(Scored \cap (low..high))
  OBVIOUS
<1>3. low \in Amounts /\ high \in Amounts /\ low <= high /\ Scored \cap (low..high) # {}
  BY <1>1, SearchAssumption DEF TypeOK, Bracket, Refining
<1>4. \A p, x, y \in Amounts :
          IsPeak(p, x, y) /\ p \in low..high => p \in Below(b, low)..Above(b, high)
  BY <1>1, <1>2, <1>3, Narrowing
<1>5. b \in Amounts
  <2>1. b \in Scored /\ Below(b, low) \in low..b /\ Above(b, high) \in b..high
    BY <1>1, <1>2, <1>3, Narrowing
  <2>2. QED
    BY <1>1, <2>1 DEF TypeOK, Scored
<1>6. CASE phase' = "tail" /\ UNCHANGED <<low, high>>
  <2>1. Below(b, low) = low /\ Above(b, high) = high
    BY <1>2, <1>3, <1>6 DEF EndGrid
  <2>2. \A a \in visited \cap (low..high) : a \in {low, b, high}
    BY <1>1, <1>2, <1>3, <2>1, Narrowing
  <2>3. Spent \/ \A step \in 0..Segments : GridAmount(step) \in visited
    <3>1. Queued(todo) = {}
      BY <1>1 DEF Queued
    <3>2. QED
      BY <1>1, <3>1 DEF Progress
  <2>4. Spent \/ low..high \subseteq visited
    BY <1>1, <1>3, <1>5, <2>2, <2>3, GridExhausts
  <2>5. Spent' \/ (low..high \subseteq visited)'
    BY <1>1, <1>6, <2>4 DEF Spent
  <2>6. Progress'
    BY <1>6, <2>5 DEF Progress
  <2>7. PeakKept'
    BY <1>1, <1>6 DEF PeakKept, IsPeak, Refining
  <2>8. QED
    BY <2>6, <2>7
<1>7. CASE phase' = "refine" /\ low' = Below(b, low) /\ high' = Above(b, high)
  <2>1. PeakKept'
    BY <1>1, <1>4, <1>7 DEF PeakKept, IsPeak, Refining
  <2>2. QED
    BY <1>7, <2>1 DEF Progress
<1>8. QED
  BY <1>2, <1>6, <1>7 DEF EndGrid

LEMMA StartLocalCovers == ASSUME SearchInv, StartLocal PROVE Progress' /\ PeakKept'
<1>1. /\ TypeOK /\ Progress /\ PeakKept /\ Bracket /\ phase = "tail"
      /\ UNCHANGED <<profit, visited, low, high, selected>>
  BY DEF SearchInv, BaseInv, StartLocal
<1>2. low \in Nat /\ high \in Nat /\ low <= high
  BY <1>1, SearchAssumption DEF TypeOK
<1>3. CASE high - low <= LocalWidth
  <2>1. phase' = "local" /\ todo' = [i \in 1..(high - low + 1) |-> high - i + 1]
    BY <1>3 DEF StartLocal
  <2>2. Len(todo') = high - low + 1
    BY <1>2, <2>1
  <2>3. ASSUME NEW a \in low..high
        PROVE  a \in Queued(todo)'
    <3>1. high - a + 1 \in 1..Len(todo') /\ high - (high - a + 1) + 1 = a
      BY <1>2, <2>2
    <3>2. todo'[high - a + 1] = a
      BY <2>1, <2>2, <3>1
    <3>3. QED
      BY <3>1, <3>2 DEF Queued
  <2>4. Progress'
    BY <1>1, <2>1, <2>3 DEF Progress
  <2>5. PeakKept'
    BY <1>1, <2>1 DEF PeakKept, IsPeak, Refining
  <2>6. QED
    BY <2>4, <2>5
<1>4. CASE ~(high - low <= LocalWidth)
  <2>1. phase' = "none"
    BY <1>4 DEF StartLocal
  <2>2. Spent \/ low..high \subseteq visited
    BY <1>1, <1>4 DEF Progress
  <2>3. Spent' <=> Spent
    BY <1>1 DEF Spent
  <2>4. PeakKept'
    BY <1>1, <2>1, <2>2, <2>3 DEF PeakKept, IsPeak, Refining
  <2>5. QED
    BY <2>1, <2>4 DEF Progress
<1>5. QED
  BY <1>3, <1>4

LEMMA EndLocalCovers == ASSUME SearchInv, EndLocal PROVE Progress' /\ PeakKept'
<1>1. /\ Progress /\ PeakKept /\ phase = "local" /\ todo = <<>> /\ phase' = "none"
      /\ UNCHANGED <<profit, todo, visited, low, high, selected>>
  BY DEF SearchInv, EndLocal
<1>2. Queued(todo) = {}
  BY <1>1 DEF Queued
<1>3. Spent \/ low..high \subseteq visited
  BY <1>1, <1>2 DEF Progress
<1>4. Spent' <=> Spent
  BY <1>1 DEF Spent
<1>5. PeakKept'
  BY <1>1, <1>3, <1>4 DEF PeakKept, IsPeak, Refining
<1>6. QED
  BY <1>1, <1>5 DEF Progress

LEMMA SearchStep == ASSUME Segments >= 3 PROVE SearchInv /\ [Next]_vars => SearchInv'
<1> SUFFICES ASSUME SearchInv, [Next]_vars PROVE Progress' /\ PeakKept'
  BY BaseStep DEF SearchInv
<1>1. CASE Halve
  <2>1. phase' \notin Refining \cup {"none"} /\ UNCHANGED <<profit, visited>>
    BY <1>1 DEF Halve, Refining
  <2>2. QED
    BY <2>1 DEF Progress, PeakKept, Refining
<1>2. CASE UNCHANGED vars
  BY <1>2 DEF SearchInv, vars, Progress, PeakKept, IsPeak, Spent, Queued, GridAmount, Scored
<1>3. QED
  BY <1>1, <1>2, ProbeCovers, EndSlicesCovers, RefineCovers, EndGridCovers, StartLocalCovers,
     EndLocalCovers DEF Next

-----------------------------------------------------------------------------
LEMMA BaseHolds == Spec => []BaseInv
BY BaseInit, BaseStep, PTL DEF Spec

(***************************************************************************)
(* For every profit function, cap, number of segments and budget: every    *)
(* amount probed lies between 1 and the cap, the interval stays in that    *)
(* range, and no more than the budget is probed.                           *)
(***************************************************************************)
THEOREM TypeCorrect == Spec => []TypeOK
<1>1. BaseInv => TypeOK
  BY DEF BaseInv
<1>2. QED
  BY BaseHolds, <1>1, PTL

(***************************************************************************)
(* What the search returns was measured to reach the minimum, and nothing  *)
(* that reached it was passed over, at whichever stage it was measured.    *)
(***************************************************************************)
THEOREM ReturnsWhatPays == Spec => []ReturnsProfitable
<1>1. BaseInv => ReturnsProfitable
  <2> SUFFICES ASSUME BaseInv PROVE ReturnsProfitable
    OBVIOUS
  <2>1. TypeOK /\ Verdict
    BY DEF BaseInv
  <2>2. \A a \in visited : profit[a] \in Int
    BY <2>1 DEF TypeOK, Absent
  <2>3. QED
    BY <2>1, <2>2, SearchAssumption DEF Verdict, ReturnsProfitable
<1>2. QED
  BY BaseHolds, <1>1, PTL

(***************************************************************************)
(* With grids of three segments or more (the code has eight), a search     *)
(* that had an available probe and gives up with probes left has missed    *)
(* nothing when profit has a single peak.                                  *)
(***************************************************************************)
THEOREM MissesNoPeak == ASSUME Segments >= 3 PROVE Spec => []FindsPeak
<1>1. SearchInv => FindsPeak
  <2> SUFFICES ASSUME SearchInv, phase = "none", Scored # {}, Cardinality(visited) < MaxProbes,
                      NEW p \in Amounts, NEW x \in Amounts, NEW y \in Amounts, IsPeak(p, x, y),
                      NEW a \in Amounts
               PROVE  profit[a] < Minimum
    BY DEF FindsPeak, SinglePeak
  <2>1. TypeOK /\ Verdict /\ PeakKept
    BY DEF SearchInv, BaseInv
  <2>2. Cardinality(visited) \in Nat
    BY <2>1, AmountsFinite, FS_Subset, FS_CardinalityType DEF TypeOK
  <2>3. p \in visited
    BY <2>1, <2>2, SearchAssumption DEF PeakKept, Spent
  <2>4. profit[p] < Minimum
    BY <2>1, <2>3 DEF Verdict
  <2>5. profit[a] \in Int /\ profit[p] \in Int /\ Minimum \in Nat
    BY <2>1, SearchAssumption DEF TypeOK, Absent
  <2>6. a \in Nat /\ p \in Nat /\ x \in Nat /\ y \in Nat
    BY AmountsFinite
  <2>7. CASE profit[a] = Absent
    BY <2>5, <2>7 DEF Absent
  <2>8. CASE profit[a] # Absent
    <3>1. x <= a /\ a <= y /\ x <= p /\ p <= y
      BY <2>8 DEF IsPeak
    <3>2. CASE a < p
      <4>1. profit[a] < profit[p]
        BY <2>6, <3>1, <3>2 DEF IsPeak
      <4>2. QED
        BY <2>4, <2>5, <4>1
    <3>3. CASE p < a
      <4>1. profit[p] > profit[a]
        BY <2>6, <3>1, <3>3 DEF IsPeak
      <4>2. QED
        BY <2>4, <2>5, <4>1
    <3>4. QED
      BY <2>4, <2>6, <3>2, <3>3
  <2>9. QED
    BY <2>7, <2>8
<1>2. QED
  BY SearchInit, SearchStep, <1>1, PTL DEF Spec

-----------------------------------------------------------------------------
\* The attempt.  Its property needs to be carried from the plan to the
\* signature and on to the liquidation that landed, while the chain grows.

\* The limits of the inventory are in a plan from the start.
Kept(tx) ==
    /\ tx \in Plan /\ tx.size \in Quantities
    /\ tx.route = "emergency" => tx.internal
    /\ tx.route = "flash" /\ ~tx.internal =>
        tx.bounds.gross <= MaxDebit /\ tx.bounds.minCollateral >= MinCredit

\* The floor is in it before it can be submitted.
Floored(tx) == tx.route = "flash" /\ tx.internal => tx.bounds.minGain = MinProfit

\* Where the plan was simulated last, the wallet grew by the minimum.
Checked(s) ==
    s.plan.route = "emergency" =>
        (chain[s.checked].wallet + Earned(chain[s.checked], s.plan)) - chain[s.snap].wallet >= MinProfit

SharedType ==
    /\ config \in Config
    /\ chain \in Seq(World) /\ chain # <<>>

LocalType ==
    /\ pc \in {"idle", "read", "health", "probe", "score", "protect", "reread", "recheck"}
    /\ at \in 1..Tip /\ snap \in 1..Tip /\ debt \in 0..MaxDebt
    /\ route \in Routes /\ full \in BOOLEAN

PlanInv ==
    /\ pc \in {"score", "protect", "reread", "recheck"} => Kept(plan)
    /\ pc = "score" => plan.route = route /\ (full => Floored(plan))
    /\ pc \in {"protect", "reread", "recheck"} => Floored(plan)

SignedInv ==
    signed # None =>
        /\ Kept(signed.plan) /\ Floored(signed.plan)
        /\ signed.snap \in 1..Tip /\ signed.checked \in 1..Tip
        /\ Checked(signed)

LandedInv ==
    /\ landed # None => landed.at \in 1..Tip /\ landed.snap \in 1..Tip /\ landed.checked \in 1..Tip
    /\ LandedWithinBounds

AttemptInv == SharedType /\ LocalType /\ PlanInv /\ SignedInv /\ LandedInv

-----------------------------------------------------------------------------
\* There is a newest state, and every slot holds a state.
LEMMA TipIsSlot ==
    ASSUME SharedType
    PROVE  Tip \in Nat \ {0} /\ 1 \in 1..Tip /\ \A k \in 1..Tip : chain[k] \in World
<1>1. Len(chain) \in Nat /\ Len(chain) # 0
  BY DEF SharedType
<1>2. \A k \in 1..Len(chain) : chain[k] \in World
  BY DEF SharedType
<1> QED
  BY <1>1, <1>2 DEF Tip

\* A program's answer about a plan that is kept.
LEMMA ResultIsFilled ==
    ASSUME NEW w \in World, NEW tx, Kept(tx), tx.route \in Routes, Result(w, tx) # None
    PROVE  Result(w, tx) \in Filled
<1>1. tx.full \in BOOLEAN /\ tx.size \in Quantities
  BY DEF Kept, Plan
<1>2. Fill(w, tx.route, tx.size, tx.full) \in Filled \cup {None}
  BY <1>1, ProgramAssumption
<1> QED
  BY <1>2 DEF Result

\* Chains only grow: what refers to a slot is unchanged.
LEMMA Grows ==
    ASSUME SharedType, NEW w \in World, chain' = Append(chain, w)
    PROVE  /\ chain' \in Seq(World) /\ chain' # <<>> /\ Tip' = Tip + 1
           /\ \A k \in 1..Tip : k \in 1..Tip' /\ chain'[k] = chain[k]
<1>1. chain \in Seq(World)
  BY DEF SharedType
<1>2. Append(chain, w) \in Seq(World) /\ Len(Append(chain, w)) = Len(chain) + 1
      /\ \A k \in 1..Len(chain) : Append(chain, w)[k] = chain[k]
  BY <1>1
<1>3. Len(chain) \in Nat
  BY <1>1
<1>4. chain' # <<>>
  BY <1>2, <1>3
<1> QED
  BY <1>2, <1>3, <1>4 DEF Tip

\* The invariant of what is signed and of what landed survives a longer chain.
LEMMA SharedGrows ==
    ASSUME AttemptInv, NEW w \in World, chain' = Append(chain, w), UNCHANGED <<config, local>>
    PROVE  /\ SharedType' /\ LocalType' /\ PlanInv'
           /\ signed' = signed => SignedInv'
           /\ landed' = landed => LandedInv'
<1>1. chain' \in Seq(World) /\ chain' # <<>> /\ \A k \in 1..Tip : k \in 1..Tip' /\ chain'[k] = chain[k]
  BY Grows DEF AttemptInv
<1>2. SharedType'
  BY <1>1 DEF AttemptInv, SharedType
<1>3. LocalType'
  BY <1>1 DEF AttemptInv, LocalType, local
<1>4. PlanInv'
  BY DEF AttemptInv, PlanInv, local, Kept, Floored
<1>5. ASSUME signed' = signed, signed # None PROVE SignedInv'
  <2>1. signed.snap \in 1..Tip /\ signed.checked \in 1..Tip
    BY <1>5 DEF AttemptInv, SignedInv
  <2>2. chain'[signed.snap] = chain[signed.snap] /\ chain'[signed.checked] = chain[signed.checked]
    BY <1>1, <2>1
  <2>3. signed.snap \in 1..Tip' /\ signed.checked \in 1..Tip'
    BY <1>1, <2>1
  <2> QED
    BY <1>5, <2>2, <2>3 DEF AttemptInv, SignedInv, Checked, Earned, Result, Kept, Floored
<1>6. signed' = signed => SignedInv'
  BY <1>5 DEF SignedInv
<1>7. ASSUME landed' = landed, landed # None PROVE LandedInv'
  <2>1. landed.at \in 1..Tip /\ landed.snap \in 1..Tip /\ landed.checked \in 1..Tip
    BY <1>7 DEF AttemptInv, LandedInv
  <2>2. /\ chain'[landed.at] = chain[landed.at] /\ chain'[landed.snap] = chain[landed.snap]
        /\ chain'[landed.checked] = chain[landed.checked]
    BY <1>1, <2>1
  <2>3. landed.at \in 1..Tip' /\ landed.snap \in 1..Tip' /\ landed.checked \in 1..Tip'
    BY <1>1, <2>1
  <2> QED
    BY <1>7, <2>2, <2>3 DEF AttemptInv, LandedInv, LandedWithinBounds
<1>8. landed' = landed => LandedInv'
  BY <1>7 DEF LandedInv, LandedWithinBounds
<1> QED
  BY <1>2, <1>3, <1>4, <1>6, <1>8

-----------------------------------------------------------------------------
\* At first nothing is planned, signed or landed.
LEMMA Initially == AttemptInit => AttemptInv
<1> SUFFICES ASSUME AttemptInit PROVE AttemptInv
  OBVIOUS
<1>1. PICK w \in Starts : chain = <<w>>
  BY DEF AttemptInit
<1>2. w \in World /\ config \in Config
  BY AttemptAssumption DEF AttemptInit
<1>3. chain \in Seq(World) /\ chain # <<>> /\ Len(chain) = 1
  BY <1>1, <1>2
<1>4. SharedType
  BY <1>2, <1>3 DEF SharedType
<1>5. LocalType
  <2>1. 0 \in 0..MaxDebt /\ 1 \in 1..Tip
    BY <1>3, AttemptAssumption DEF Tip
  <2>2. /\ pc = "idle" /\ at = 1 /\ snap = 1 /\ debt = 0 /\ route = "flash" /\ full = FALSE
    BY DEF AttemptInit, Quiet
  <2> QED
    BY <2>1, <2>2 DEF LocalType, Routes
<1>6. PlanInv /\ SignedInv /\ LandedInv
  BY DEF AttemptInit, Quiet, PlanInv, SignedInv, LandedInv, LandedWithinBounds
<1> QED
  BY <1>4, <1>5, <1>6 DEF AttemptInv

\* A step of the attempt that signs nothing leaves the shared part alone.
LEMMA QuietShared ==
    ASSUME AttemptInv, UNCHANGED Shared
    PROVE  SharedType' /\ SignedInv' /\ LandedInv' /\ Tip' = Tip
<1>1. Tip' = Tip
  BY DEF Shared, Tip
<1> QED
  BY <1>1 DEF AttemptInv, Shared, SharedType, SignedInv, LandedInv, LandedWithinBounds, Checked,
              Earned, Result, Kept, Floored

\* An attempt that is over holds no plan.
LEMMA Returned ==
    ASSUME AttemptInv, Return, UNCHANGED chain
    PROVE  LocalType' /\ PlanInv'
<1>1. 1 \in 1..Tip' /\ 0 \in 0..MaxDebt
  BY TipIsSlot, AttemptAssumption DEF Tip, AttemptInv
<1>2. LocalType'
  BY <1>1 DEF Return, LocalType, Routes
<1>3. PlanInv'
  BY DEF Return, PlanInv
<1> QED
  BY <1>2, <1>3

\* A plan enters the submission with its limits and its floor.
LEMMA Submitted ==
    ASSUME AttemptInv, NEW tx, Kept(tx), Floored(tx), Submit(tx), UNCHANGED chain
    PROVE  LocalType' /\ PlanInv'
<1>1. CASE ~config.live
  BY <1>1, Returned DEF Submit
<1>2. CASE config.live
  <2>1. Tip' = Tip /\ 1 \in 1..Tip
    BY TipIsSlot DEF Tip, AttemptInv
  <2> QED
    BY <1>2, <2>1 DEF Submit, AttemptInv, LocalType, PlanInv, Kept, Floored
<1> QED
  BY <1>1, <1>2

\* The sizes a route may try are amounts the program can be asked for.
LEMMA SizesAreQuantities ==
    ASSUME AttemptInv, NEW size \in Sizes
    PROVE  size \in Quantities
<1>1. chain[snap] \in World /\ chain[snap].pledged \in 0..MaxPledge
  <2>1. chain[snap] \in World
    BY TipIsSlot DEF AttemptInv, LocalType
  <2> QED
    BY <2>1 DEF World
<1>2. debt \in 0..MaxDebt /\ route \in Routes /\ full \in BOOLEAN
  BY DEF AttemptInv, LocalType
<1>3. CASE route = "flash" /\ ~full
  BY <1>2, <1>3, AttemptAssumption DEF Sizes, Quantities
<1>4. CASE route = "flash" /\ full
  BY <1>2, <1>4 DEF Sizes, Quantities
<1>5. CASE route = "emergency" /\ ~full
  BY <1>1, <1>2, <1>5, AttemptAssumption DEF Sizes, Quantities
<1>6. CASE route = "emergency" /\ full
  BY <1>1, <1>2, <1>6, AttemptAssumption DEF Sizes, Quantities
<1> QED
  BY <1>2, <1>3, <1>4, <1>5, <1>6 DEF Routes

\* What is offered keeps the limits; for the whole position it has the floor.
LEMMA OfferIsKept ==
    ASSUME AttemptInv, NEW quote \in Filled, NEW size \in Quantities, Affordable(Offer(quote, size))
    PROVE  /\ Kept(Offer(quote, size)) /\ Offer(quote, size).route = route
           /\ full => Floored(Offer(quote, size))
<1>1. route \in Routes /\ full \in BOOLEAN
  BY DEF AttemptInv, LocalType
<1>2. size \in Nat
  BY AttemptAssumption DEF Quantities
<1>3. CASE route = "flash"
  <2>1. chain[snap].epoch \in 0..MaxEpoch
    <3>1. chain[snap] \in World
      BY TipIsSlot DEF AttemptInv, LocalType
    <3> QED
      BY <3>1 DEF World
  <2>2. FeeOf(chain[snap].epoch) \in Nat
    BY <2>1, ProgramAssumption
  <2>3. Internal \in BOOLEAN
    BY DEF Internal
  <2>4. quote.payment \in Nat /\ quote.collateral \in Nat
    BY DEF Filled
  <2>5. FlashPlan(quote, size, IF full THEN MinProfit ELSE 0).bounds \in Bounds
    BY <2>2, <2>4, AttemptAssumption DEF FlashPlan, InventoryPayment, Bounds
  <2>6. Offer(quote, size) = FlashPlan(quote, size, IF full THEN MinProfit ELSE 0)
    BY <1>3 DEF Offer
  <2>7. FlashPlan(quote, size, IF full THEN MinProfit ELSE 0) \in Plan
    BY <1>1, <1>2, <2>3, <2>5 DEF FlashPlan, InventoryPayment, Plan, Routes
  <2>8. full => Floored(Offer(quote, size))
    BY <2>6 DEF Floored, FlashPlan
  <2> QED
    BY <1>3, <2>6, <2>7, <2>8 DEF Kept, Affordable, FlashPlan
<1>4. CASE route = "emergency"
  <2>1. quote.gain \in Nat
    BY DEF Filled
  <2>2. Offer(quote, size) = EmergencyPlan(quote, size)
    BY <1>4 DEF Offer
  <2>3. EmergencyPlan(quote, size).bounds \in Bounds
    BY <2>1 DEF EmergencyPlan, Bounds
  <2>4. EmergencyPlan(quote, size) \in Plan
    BY <1>1, <1>2, <2>3 DEF EmergencyPlan, Plan, Routes
  <2> QED
    BY <1>4, <2>2, <2>4 DEF Kept, Floored, EmergencyPlan
<1> QED
  BY <1>1, <1>3, <1>4 DEF Routes

\* Preparing the accounts has no bounds to keep.
LEMMA PrepareIsKept == Kept(PreparePlan) /\ Floored(PreparePlan)
<1>1. PreparePlan \in Plan
  BY DEF PreparePlan, Plan, Bounds
<1>2. 0 \in Quantities
  BY AttemptAssumption DEF Quantities
<1> QED
  BY <1>1, <1>2 DEF Kept, Floored, PreparePlan

\* Rebuilding a plan adds the floor and changes nothing else.
LEMMA ProtectedIsKept ==
    ASSUME NEW tx, Kept(tx)
    PROVE  Kept(Protected(tx)) /\ Floored(Protected(tx)) /\ Protected(tx).route = tx.route
<1>1. tx \in Plan /\ tx.bounds \in Bounds
  BY DEF Kept, Plan
<1>2. (IF tx.internal THEN MinProfit ELSE 0) \in Nat
  BY AttemptAssumption
<1>3. Protected(tx) \in Plan
  BY <1>1, <1>2 DEF Protected, Plan, Bounds
<1>4. /\ Protected(tx).route = tx.route /\ Protected(tx).internal = tx.internal
      /\ Protected(tx).size = tx.size /\ Protected(tx).bounds.gross = tx.bounds.gross
      /\ Protected(tx).bounds.minCollateral = tx.bounds.minCollateral
      /\ Protected(tx).bounds.minGain = IF tx.internal THEN MinProfit ELSE 0
  BY <1>1 DEF Protected, Plan, Bounds
<1> QED
  BY <1>3, <1>4 DEF Kept, Floored

-----------------------------------------------------------------------------
\* One case for each step of the attempt.
LEMMA StepKeeps == AttemptInv /\ AttemptStep => AttemptInv'
<1> SUFFICES ASSUME AttemptInv, AttemptStep PROVE AttemptInv'
  OBVIOUS
<1>1. CASE Begin
  <2>1. SharedType' /\ SignedInv' /\ LandedInv' /\ Tip' = Tip
    BY <1>1, QuietShared DEF Begin
  <2> QED
    BY <1>1, <2>1 DEF Begin, AttemptInv, LocalType, PlanInv
<1>2. CASE Fetch
  <2>1. SharedType' /\ SignedInv' /\ LandedInv' /\ Tip' = Tip
    BY <1>2, QuietShared DEF Fetch
  <2>2. PICK k \in 1..Tip : at' = k /\ snap' \in {k, snap} /\ pc' \in {"health", "recheck"}
                            /\ (pc' = "recheck" => pc = "reread")
    BY <1>2 DEF Fetch, Answers
  <2>3. UNCHANGED <<debt, route, full, plan>>
    BY <1>2 DEF Fetch
  <2>4. LocalType'
    BY <2>1, <2>2, <2>3 DEF AttemptInv, LocalType
  <2>5. PlanInv'
    BY <2>2, <2>3 DEF AttemptInv, PlanInv, Kept, Floored
  <2> QED
    BY <2>1, <2>4, <2>5 DEF AttemptInv
<1>3. CASE Assess
  <2>1. SharedType' /\ SignedInv' /\ LandedInv' /\ Tip' = Tip
    BY <1>3, QuietShared DEF Assess
  <2>2. UNCHANGED chain
    BY <1>3 DEF Assess, Shared
  <2>3. PICK k \in Answers(snap) :
            \/ Return
            \/ Submit(PreparePlan)
            \/ /\ pc' = "probe" /\ debt' = chain[k].debt /\ route' \in Routes
               /\ UNCHANGED <<at, snap, full, plan>>
    BY <1>3 DEF Assess
  <2>4. CASE Return
    BY <2>1, <2>2, <2>4, Returned DEF AttemptInv
  <2>5. CASE Submit(PreparePlan)
    BY <2>1, <2>2, <2>5, Submitted, PrepareIsKept DEF AttemptInv
  <2>6. CASE /\ pc' = "probe" /\ debt' = chain[k].debt /\ route' \in Routes
             /\ UNCHANGED <<at, snap, full, plan>>
    <3>1. k \in 1..Tip
      BY TipIsSlot DEF Answers, AttemptInv, LocalType
    <3>2. chain[k].debt \in 0..MaxDebt
      BY <3>1, TipIsSlot DEF AttemptInv, World
    <3> QED
      BY <2>1, <2>6, <3>2 DEF AttemptInv, LocalType, PlanInv
  <2> QED
    BY <2>3, <2>4, <2>5, <2>6
<1>4. CASE Preview
  <2>1. SharedType' /\ SignedInv' /\ LandedInv' /\ Tip' = Tip
    BY <1>4, QuietShared DEF Preview
  <2>2. PICK k \in Answers(snap), size \in Sizes :
            /\ Fill(chain[k], route, size, full) # None
            /\ Affordable(Offer(Fill(chain[k], route, size, full), size))
            /\ plan' = Offer(Fill(chain[k], route, size, full), size)
    BY <1>4 DEF Preview
  <2>3. size \in Quantities
    BY SizesAreQuantities
  <2>4. k \in 1..Tip
    BY TipIsSlot DEF Answers, AttemptInv, LocalType
  <2>5. chain[k] \in World
    BY <2>4, TipIsSlot DEF AttemptInv
  <2>6. Fill(chain[k], route, size, full) \in Filled
    BY <2>2, <2>3, <2>5, ProgramAssumption DEF AttemptInv, LocalType
  <2>7. Kept(plan') /\ plan'.route = route /\ (full => Floored(plan'))
    BY <2>2, <2>3, <2>6, OfferIsKept
  <2>8. pc' = "score" /\ UNCHANGED <<at, snap, debt, route, full>>
    BY <1>4 DEF Preview
  <2> QED
    BY <2>1, <2>7, <2>8 DEF AttemptInv, LocalType, PlanInv, Kept, Floored
<1>5. CASE Score
  <2>1. SharedType' /\ SignedInv' /\ LandedInv' /\ Tip' = Tip
    BY <1>5, QuietShared DEF Score
  <2>2. UNCHANGED chain
    BY <1>5 DEF Score, Shared
  <2>3. Kept(plan) /\ plan.route = route /\ (full => Floored(plan))
    BY <1>5 DEF Score, AttemptInv, PlanInv
  <2>4. CASE route = "flash" /\ ~full
    <3>1. Kept(plan') /\ Floored(plan')
      BY <1>5, <2>3, <2>4, ProtectedIsKept DEF Score
    <3>2. pc' = "protect" /\ UNCHANGED <<at, snap, debt, route, full>>
      BY <1>5, <2>4 DEF Score
    <3> QED
      BY <2>1, <3>1, <3>2 DEF AttemptInv, LocalType, PlanInv, Kept, Floored
  <2>5. CASE ~(route = "flash" /\ ~full)
    <3>1. full \in BOOLEAN /\ route \in Routes
      BY DEF AttemptInv, LocalType
    <3>2. Floored(plan)
      BY <2>3, <2>5, <3>1 DEF Floored
    <3>3. Submit(plan)
      BY <1>5, <2>5 DEF Score
    <3> QED
      BY <2>1, <2>2, <2>3, <3>2, <3>3, Submitted DEF AttemptInv
  <2> QED
    BY <2>4, <2>5
<1>6. CASE ScoreLow
  <2>1. SharedType' /\ SignedInv' /\ LandedInv' /\ Tip' = Tip
    BY <1>6, QuietShared DEF ScoreLow
  <2> QED
    BY <1>6, <2>1 DEF ScoreLow, AttemptInv, LocalType, PlanInv
<1>7. CASE NextRoute
  <2>1. SharedType' /\ SignedInv' /\ LandedInv' /\ Tip' = Tip
    BY <1>7, QuietShared DEF NextRoute
  <2>2. CASE Return
    <3>1. UNCHANGED chain
      BY <1>7 DEF NextRoute, Shared
    <3> QED
      BY <2>1, <2>2, <3>1, Returned DEF AttemptInv
  <2>3. CASE ~Return
    BY <1>7, <2>1, <2>3 DEF NextRoute, AttemptInv, LocalType, PlanInv, Routes
  <2> QED
    BY <2>2, <2>3
<1>8. CASE Protect
  <2>1. SharedType' /\ SignedInv' /\ LandedInv' /\ Tip' = Tip
    BY <1>8, QuietShared DEF Protect
  <2>2. Kept(plan) /\ Floored(plan) /\ Submit(plan) /\ UNCHANGED chain
    BY <1>8 DEF Protect, AttemptInv, PlanInv, Shared
  <2> QED
    BY <2>1, <2>2, Submitted DEF AttemptInv
<1>9. CASE Recheck
  <2>1. UNCHANGED <<config, chain, landed>> /\ Return /\ Tip' = Tip
    BY <1>9 DEF Recheck, Tip
  <2>2. LocalType' /\ PlanInv'
    BY <2>1, Returned
  <2>3. SharedType' /\ LandedInv'
    BY <2>1 DEF AttemptInv, SharedType, LandedInv, LandedWithinBounds
  <2>4. PICK k \in Answers(at) :
            /\ plan.route # "prepare" => Reaches(k, at, plan, full)
            /\ signed' = [plan |-> plan, snap |-> snap, checked |-> k]
    BY <1>9 DEF Recheck
  <2>5. Kept(plan) /\ Floored(plan) /\ chain[at] = chain[snap]
    BY <1>9 DEF Recheck, AttemptInv, PlanInv
  <2>6. k \in 1..Tip /\ snap \in 1..Tip
    BY TipIsSlot DEF Answers, AttemptInv, LocalType
  <2>7. ASSUME plan.route = "emergency"
        PROVE  (chain[k].wallet + Earned(chain[k], plan)) - chain[snap].wallet >= MinProfit
    <3>1. Reaches(k, at, plan, full)
      BY <2>4, <2>7
    <3>2. plan.internal
      BY <2>5, <2>7 DEF Kept
    <3>3. MinimumOf(plan.route) = MinProfit
      BY <2>7 DEF MinimumOf
    <3>4. Pays(chain[k], chain[at], plan)
      BY <3>1 DEF Reaches
    <3>5. (chain[k].wallet + Earned(chain[k], plan)) - chain[at].wallet >= MinimumOf(plan.route)
      BY <3>2, <3>4 DEF Pays
    <3> QED
      BY <2>5, <3>3, <3>5
  <2>8. signed'.plan = plan /\ signed'.snap = snap /\ signed'.checked = k /\ chain' = chain
    BY <2>1, <2>4
  <2>9. SignedInv'
    <3>1. Kept(signed'.plan) /\ Floored(signed'.plan)
      BY <2>5, <2>8
    <3>2. signed'.snap \in 1..Tip' /\ signed'.checked \in 1..Tip'
      BY <2>1, <2>6, <2>8
    <3>3. signed'.plan.route = "emergency" =>
            (chain'[signed'.checked].wallet + Earned(chain'[signed'.checked], signed'.plan))
                - chain'[signed'.snap].wallet >= MinProfit
      BY <2>7, <2>8
    <3> QED
      BY <3>1, <3>2, <3>3 DEF SignedInv, Checked, Kept, Floored, Earned, Result
  <2> QED
    BY <2>2, <2>3, <2>9 DEF AttemptInv
<1>10. CASE Fail
  <2>1. SharedType' /\ SignedInv' /\ LandedInv' /\ Tip' = Tip /\ Return /\ UNCHANGED chain
    BY <1>10, QuietShared DEF Fail, Shared
  <2> QED
    BY <2>1, Returned DEF AttemptInv
<1> QED
  BY <1>1, <1>2, <1>3, <1>4, <1>5, <1>6, <1>7, <1>8, <1>9, <1>10 DEF AttemptStep

\* A liquidation that executes keeps its bounds in the state it executes in.
LEMMA LandKeeps == AttemptInv /\ Land => AttemptInv'
<1> SUFFICES ASSUME AttemptInv, Land PROVE AttemptInv'
  OBVIOUS
<1> DEFINE tx == signed.plan
           w  == chain[Tip]
<1>1. /\ w \in World /\ Tip \in 1..Tip /\ Kept(tx) /\ Floored(tx) /\ Checked(signed)
      /\ signed.snap \in 1..Tip /\ signed.checked \in 1..Tip
  BY TipIsSlot DEF Land, AttemptInv, SignedInv
<1>2. SignedInv'
  BY DEF Land, SignedInv
<1>3. UNCHANGED <<config, local>>
  BY DEF Land
<1>4. CASE tx.route = "prepare"
  <2>1. [w EXCEPT !.ready = TRUE] \in World
    BY <1>1 DEF World
  <2>2. chain' = Append(chain, [w EXCEPT !.ready = TRUE]) /\ landed' = landed
    BY <1>4 DEF Land
  <2> QED
    BY <1>2, <1>3, <2>1, <2>2, SharedGrows DEF AttemptInv
<1>5. CASE tx.route # "prepare"
  <2>1. /\ Executes(w, tx) /\ After(w, tx) \in World /\ chain' = Append(chain, After(w, tx))
        /\ landed' = [plan |-> tx, snap |-> signed.snap, checked |-> signed.checked, at |-> Tip,
                      earned |-> Earned(w, tx), collateral |-> Result(w, tx).collateral]
    BY <1>5 DEF Land
  <2>2. SharedType' /\ LocalType' /\ PlanInv'
    BY <1>3, <2>1, SharedGrows
  <2>3. \A k \in 1..Tip : k \in 1..Tip' /\ chain'[k] = chain[k]
    BY <2>1, Grows DEF AttemptInv
  <2>4. tx.route \in Routes /\ tx.internal \in BOOLEAN /\ tx.bounds \in Bounds
    BY <1>1, <1>5 DEF Kept, Plan
  <2>5. Result(w, tx) \in Filled
    BY <1>1, <2>1, <2>4, ResultIsFilled DEF Executes
  <2>6. /\ Result(w, tx).gain \in Nat /\ Result(w, tx).collateral \in Nat
        /\ tx.bounds.gross \in Nat /\ tx.bounds.minCollateral \in Nat
    BY <2>4, <2>5 DEF Filled, Bounds
  <2>7. tx.route = "flash" /\ tx.internal => Earned(w, tx) >= MinProfit
    BY <1>1, <2>1 DEF Executes, Earned, Floored
  <2>8. tx.route = "flash" /\ ~tx.internal =>
            -Earned(w, tx) <= MaxDebit /\ Result(w, tx).collateral >= MinCredit
    <3> SUFFICES ASSUME tx.route = "flash", ~tx.internal
                 PROVE  -Earned(w, tx) <= MaxDebit /\ Result(w, tx).collateral >= MinCredit
      OBVIOUS
    <3>1. Earned(w, tx) = -tx.bounds.gross /\ Result(w, tx).collateral >= tx.bounds.minCollateral
      BY <2>1 DEF Earned, Executes
    <3>2. tx.bounds.gross <= MaxDebit /\ tx.bounds.minCollateral >= MinCredit
      BY <1>1 DEF Kept
    <3> QED
      BY <2>6, <3>1, <3>2, AttemptAssumption
  <2>9. tx.route = "emergency" /\ w = chain[signed.checked] /\ w.wallet = chain[signed.snap].wallet
            => Earned(w, tx) >= MinProfit
    <3> SUFFICES ASSUME tx.route = "emergency", w = chain[signed.checked],
                        w.wallet = chain[signed.snap].wallet
                 PROVE  Earned(w, tx) >= MinProfit
      OBVIOUS
    <3>1. (w.wallet + Earned(w, tx)) - w.wallet >= MinProfit
      BY <1>1 DEF Checked
    <3>2. Earned(w, tx) \in Nat /\ w.wallet \in Nat
      BY <1>1, <2>6, AttemptAssumption DEF Earned, Kept, World
    <3> QED
      BY <3>1, <3>2, AttemptAssumption
  <2>10. LandedInv'
    <3>1. /\ landed'.plan = tx /\ landed'.at = Tip /\ landed'.snap = signed.snap
          /\ landed'.checked = signed.checked /\ landed'.earned = Earned(w, tx)
          /\ landed'.collateral = Result(w, tx).collateral
      BY <2>1
    <3>2. /\ chain'[landed'.at] = w /\ chain'[landed'.checked] = chain[signed.checked]
          /\ chain'[landed'.snap] = chain[signed.snap]
      BY <1>1, <2>3, <3>1
    <3>3. landed'.at \in 1..Tip' /\ landed'.snap \in 1..Tip' /\ landed'.checked \in 1..Tip'
      BY <1>1, <2>3, <3>1
    <3> HIDE DEF tx, w
    <3> QED
      BY <2>7, <2>8, <2>9, <3>1, <3>2, <3>3 DEF LandedInv, LandedWithinBounds
  <2> QED
    BY <1>2, <2>2, <2>10 DEF AttemptInv
<1> QED
  BY <1>4, <1>5

\* The invariant is inductive.
LEMMA NextKeeps == AttemptInv /\ [AttemptNext]_attemptVars => AttemptInv'
<1> SUFFICES ASSUME AttemptInv, [AttemptNext]_attemptVars PROVE AttemptInv'
  OBVIOUS
<1>1. CASE AttemptStep
  BY <1>1, StepKeeps
<1>2. CASE Land
  BY <1>2, LandKeeps
<1>3. CASE Lapse
  BY <1>3 DEF Lapse, local, AttemptInv, SharedType, LocalType, PlanInv, SignedInv, LandedInv,
              LandedWithinBounds, Tip, Kept, Floored
<1>4. CASE Others
  <2>1. PICK w \in World : chain' = Append(chain, w)
    BY <1>4 DEF Others
  <2> QED
    BY <1>4, <2>1, SharedGrows DEF Others, AttemptInv
<1>5. CASE UNCHANGED attemptVars
  BY <1>5 DEF attemptVars, local, AttemptInv, SharedType, LocalType, PlanInv, SignedInv, LandedInv,
              LandedWithinBounds, Checked, Earned, Result, Tip, Kept, Floored
<1> QED
  BY <1>1, <1>2, <1>3, <1>4, <1>5 DEF AttemptNext

-----------------------------------------------------------------------------
(***************************************************************************)
(* What lands keeps the limits of the configuration, for every value of    *)
(* them, for every program that answers with amounts, and for every course *)
(* of the chain between the calls of an attempt (engine.rs: attempt,       *)
(* ordinary_plan, emergency_plan, submit).                                 *)
(***************************************************************************)
THEOREM LandsWithinBounds == AttemptSpec => []LandedWithinBounds
<1>1. AttemptInv => LandedWithinBounds
  BY DEF AttemptInv, LandedInv
<1> QED
  BY Initially, NextKeeps, <1>1, PTL DEF AttemptSpec
=============================================================================

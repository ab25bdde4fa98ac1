--------------------------- MODULE BacktestProofs ---------------------------
(***************************************************************************)
(* What the backtester's run() does, for every calendar, gaps, windows,     *)
(* limits and outcomes.  IInv, a conjunction that each action keeps, ties   *)
(* the indexes of the loop to the trades it returns; on top of it,          *)
(*   Ledger    the account is that of the trades, as of the last bar rolled *)
(*             over to;                                                     *)
(*   Counters  the indexes of the last exit and entry are those of the      *)
(*             trades;                                                      *)
(*   Gated     each trade was decided on by gates that passed on those before; *)
(*   Tally     the equity curve and the weeks are those of the trades.      *)
(*                                                                         *)
(* A bar of the frame is an index, a property speaks of its time: BarsUpTo  *)
(* and BarsHeld count the bars between two times, WeekendSpan reads the     *)
(* weekend off the slot in the week.                                        *)
(***************************************************************************)
EXTENDS Backtest, Sums, FiniteSetTheorems, SequenceTheorems, WellFoundedInduction, TLAPS

-----------------------------------------------------------------------------
(* Least and greatest, and how a frame is sorted.                              *)

(* A part of a range of numbers is finite.                                     *)
LEMMA SubrangeFinite ==
  ASSUME NEW n \in Nat, NEW S \in SUBSET (0..n)
  PROVE  IsFiniteSet(S) /\ Cardinality(S) \in Nat
<1>1. IsFiniteSet(0..n)
  BY FS_Interval
<1>2. IsFiniteSet(S)
  BY <1>1, FS_Subset
<1> QED BY <1>2, FS_CardinalityType

(* A nonempty part of 0..n has a greatest element.  No induction: the tails m..n *)
(* of its elements are finite sets, and one of them has no other inside.       *)
LEMMA LargestIn ==
  ASSUME NEW n \in Nat, NEW S \in SUBSET (0..n), S # {}
  PROVE  \E x \in S : \A y \in S : y <= x
<1> DEFINE T == {m..n : m \in S}
<1>1. T # {} /\ T \subseteq FiniteSubsetsOf(0..n)
  <2>1. \A m \in S : m..n \in SUBSET (0..n)
    OBVIOUS
  <2>2. FiniteSubsetsOf(0..n) = SUBSET (0..n)
    <3>1. IsFiniteSet(0..n)
      BY FS_Interval
    <3> QED BY <3>1, FS_FiniteSubsetsOfFinite
  <2>3. T # {} /\ \A x \in T : x \in SUBSET (0..n)
    BY <2>1
  <2> HIDE DEF T
  <2> QED BY <2>2, <2>3
<1>2. PICK s \in T : \A u \in T : ~ (<<u, s>> \in StrictSubsetOrdering(0..n))
  <2> HIDE DEF T
  <2> QED BY <1>1, FS_StrictSubsetOrderingWellFounded, WFMin
<1>3. PICK x \in S : s = x..n
  BY <1>2
<1>4. ASSUME NEW y \in S PROVE y <= x
  <2> SUFFICES ASSUME x < y PROVE FALSE
    OBVIOUS
  <2>1. y..n \in T /\ y..n \subseteq s /\ x \in s /\ x \notin y..n /\ s \in SUBSET (0..n)
    BY <1>3
  <2>2. <<y..n, s>> \in StrictSubsetOrdering(0..n)
    BY <2>1 DEF StrictSubsetOrdering
  <2> QED BY <1>2, <2>1, <2>2
<1> QED BY <1>4

(* And a least one.                                                            *)
LEMMA LeastIn ==
  ASSUME NEW n \in Nat, NEW S \in SUBSET (0..n), S # {}
  PROVE  \E x \in S : \A y \in S : x <= y
<1> DEFINE T == {n - m : m \in S}
<1>1. T \in SUBSET (0..n) /\ T # {}
  OBVIOUS
<1>2. PICK x \in T : \A y \in T : y <= x
  <2> HIDE DEF T
  <2> QED BY <1>1, LargestIn
<1>3. PICK m \in S : x = n - m
  BY <1>2
<1>4. ASSUME NEW k \in S PROVE m <= k
  <2>1. n - k \in T /\ m \in 0..n /\ k \in 0..n
    OBVIOUS
  <2>2. n - k <= n - m
    BY <1>2, <1>3, <2>1
  <2> QED BY <2>1, <2>2
<1> QED BY <1>4

(* The library's Max and Min are choices; a witness determines them.           *)
LEMMA MaxIs ==
  ASSUME NEW S \in SUBSET Int, NEW x \in S, \A y \in S : y <= x
  PROVE  Max(S) = x
<1>1. Max(S) \in S /\ \A y \in S : y <= Max(S)
  BY DEF Max
<1>2. Max(S) <= x /\ x <= Max(S) /\ x \in Int /\ Max(S) \in Int
  BY <1>1
<1> QED BY <1>2

(* The same for Min.                                                           *)
LEMMA MinIs ==
  ASSUME NEW S \in SUBSET Int, NEW x \in S, \A y \in S : x <= y
  PROVE  Min(S) = x
<1>1. Min(S) \in S /\ \A y \in S : Min(S) <= y
  BY DEF Min
<1>2. Min(S) <= x /\ x <= Min(S) /\ x \in Int /\ Min(S) \in Int
  BY <1>1
<1> QED BY <1>2

(* The greater of two.                                                         *)
LEMMA MaxOfTwo ==
  ASSUME NEW a \in Int, NEW b \in Int
  PROVE  Max({a, b}) = IF a >= b THEN a ELSE b
<1>1. {a, b} \in SUBSET Int
  OBVIOUS
<1>2. CASE a >= b
  BY <1>1, <1>2, MaxIs
<1>3. CASE ~(a >= b)
  BY <1>1, <1>3, MaxIs
<1> QED BY <1>2, <1>3

(* Of a set with c elements, every k up to c has an element with k - 1 before it. *)
LEMMA Ranked ==
  ASSUME NEW n \in Nat, NEW S \in SUBSET (0..n)
  PROVE  \A k \in 1..Cardinality(S) : \E ts \in S : Rank(S, ts) = k
<1> DEFINE c == Cardinality(S)
           T == {k \in 1..c : ~\E ts \in S : Rank(S, ts) = k}
<1>1. IsFiniteSet(S) /\ c \in Nat
  BY SubrangeFinite
<1>2. SUFFICES ASSUME T # {} PROVE FALSE
  OBVIOUS
<1>3. PICK k \in T : \A m \in T : k <= m
  <2>1. T \in SUBSET (0..c)
    OBVIOUS
  <2> HIDE DEF T
  <2> QED BY <1>1, <1>2, <2>1, LeastIn
<1>4. CASE k = 1
  <2>1. S # {}
    BY <1>1, <1>3, FS_EmptySet
  <2>2. PICK m \in S : \A u \in S : m <= u
    BY <2>1, LeastIn
  <2>3. {u \in S : u <= m} = {m}
    <3>1. \A u \in S : u \in Int
      OBVIOUS
    <3>2. \A u \in S : u <= m => u = m
      BY <2>2, <3>1
    <3>3. m <= m
      BY <3>1
    <3> QED BY <3>2, <3>3
  <2>4. Rank(S, m) = 1
    BY <2>3, FS_Singleton DEF Rank
  <2> QED BY <1>3, <1>4, <2>4
<1>5. CASE k # 1
  <2>1. k - 1 \in 1..c /\ k - 1 \notin T
    BY <1>1, <1>3, <1>5
  <2>2. PICK ts \in S : Rank(S, ts) = k - 1
    BY <2>1
  <2> DEFINE below == {u \in S : u <= ts}
             above == {u \in S : ts < u}
  <2>3. IsFiniteSet(below) /\ Cardinality(below) = k - 1
    BY <1>1, <2>2, FS_Subset DEF Rank
  <2>4. above # {}
    <3>1. SUFFICES ASSUME above = {} PROVE FALSE
      OBVIOUS
    <3>2. \A u \in S : u \in Int /\ ts \in Int /\ u \notin above
      BY <3>1, <2>2
    <3>3. \A u \in S : u <= ts
      BY <3>2
    <3>4. below = S
      BY <3>3
    <3> QED BY <1>1, <1>3, <2>3, <3>4
  <2>5. PICK m \in above : \A u \in above : m <= u
    <3>1. above \in SUBSET (0..n)
      OBVIOUS
    <3> HIDE DEF above
    <3> QED BY <2>4, <3>1, LeastIn
  <2>6. {u \in S : u <= m} = below \cup {m} /\ m \notin below /\ m \in S
    <3>1. m \in S /\ m \in Int /\ ts \in Int /\ ts < m /\ \A u \in S : u \in Int
      BY <2>2, <2>5
    <3>2. \A u \in S : u <= m <=> (u <= ts \/ u = m)
      <4> SUFFICES ASSUME NEW u \in S PROVE u <= m <=> (u <= ts \/ u = m)
        OBVIOUS
      <4>1. u \in Int /\ m \in Int /\ ts \in Int
        BY <3>1
      <4>2. u <= ts \/ m <= u
        <5>1. ts < u => u \in above
          OBVIOUS
        <5> HIDE DEF above
        <5> QED BY <4>1, <5>1, <2>5
      <4> QED BY <3>1, <4>1, <4>2
    <3>3. {u \in S : u <= m} = below \cup {m}
      BY <3>1, <3>2
    <3>4. m \notin below
      BY <3>1
    <3> QED BY <3>1, <3>3, <3>4
  <2>7. Rank(S, m) = k
    <3> DEFINE up == {u \in S : u <= m}
    <3>1. Cardinality(below \cup {m}) = Cardinality(below) + 1
      <4> HIDE DEF below
      <4> QED BY <2>3, <2>6, FS_AddElement
    <3>2. Rank(S, m) = Cardinality(up)
      BY DEF Rank
    <3>3. up = below \cup {m}
      BY <2>6
    <3>4. Cardinality(below) = k - 1 /\ k \in Int
      BY <1>1, <1>3, <2>3
    <3> HIDE DEF up, below
    <3> QED BY <3>1, <3>2, <3>3, <3>4
  <2> QED BY <1>3, <2>6, <2>7
<1> QED BY <1>4, <1>5

Rising(s) == \A a, b \in DOMAIN s : a < b => s[a] < s[b]

(* Sorted lists the set, in order.                                             *)
LEMMA SortedRises ==
  ASSUME NEW S \in SUBSET Calendar
  PROVE  /\ Cardinality(S) \in Nat
         /\ Sorted(S) \in [1..Cardinality(S) -> Calendar]
         /\ Rising(Sorted(S))
<1> DEFINE c == Cardinality(S)
           s == Sorted(S)
<1>1. Slots - 1 \in Nat /\ S \in SUBSET (0..(Slots - 1))
  BY BacktestAssumption DEF Calendar
<1>2. IsFiniteSet(S) /\ c \in Nat
  BY <1>1, SubrangeFinite
<1>3. \A k \in 1..c : s[k] \in S /\ Rank(S, s[k]) = k
  <2>1. \A k \in 1..c : \E ts \in S : Rank(S, ts) = k
    BY <1>1, Ranked
  <2> QED BY <2>1 DEF Sorted
<1>4. ASSUME NEW a \in 1..c, NEW b \in 1..c, a < b PROVE s[a] < s[b]
  <2>0. s[a] \in S /\ s[b] \in S /\ s[a] \in Int /\ s[b] \in Int /\ \A u \in S : u \in Int
    <3>1. s[a] \in S /\ s[b] \in S
      BY <1>3
    <3>2. \A u \in S : u \in Int
      BY <1>1
    <3> QED BY <3>1, <3>2
  <2> HIDE DEF s
  <2>1. SUFFICES ASSUME s[b] <= s[a] PROVE FALSE
    BY <2>0
  <2>2. {u \in S : u <= s[b]} \subseteq {u \in S : u <= s[a]}
    BY <2>0, <2>1
  <2>3. IsFiniteSet({u \in S : u <= s[a]})
    BY <1>2, FS_Subset
  <2>4. Rank(S, s[b]) <= Rank(S, s[a])
    BY <2>2, <2>3, FS_Subset DEF Rank
  <2> QED BY <1>3, <1>4, <2>4
<1>5. s \in [1..c -> Calendar]
  <2>1. DOMAIN s = 1..c /\ s = [k \in 1..c |-> s[k]]
    BY DEF Sorted
  <2> QED BY <1>3, <2>1
<1> QED BY <1>2, <1>4, <1>5 DEF Rising

-----------------------------------------------------------------------------
(* Bars between two bars of the frame.                                         *)

LEMMA BarsFromTo ==
  ASSUME NEW n \in Nat, NEW s \in [1..n -> Int], Rising(s),
         NEW a \in 1..(n + 1), NEW b \in 0..n, a <= b + 1
  PROVE  /\ IsFiniteSet({s[k] : k \in a..b})
         /\ Cardinality({s[k] : k \in a..b}) = b - a + 1
<1> DEFINE R == {s[k] : k \in a..b}
           f == [k \in a..b |-> s[k]]
<1>1. a \in Int /\ b \in Int /\ a..b \subseteq 1..n /\ DOMAIN s = 1..n
  OBVIOUS
<1>2. IsFiniteSet(a..b)
  BY <1>1, FS_Interval
<1>3. Cardinality(a..b) = b - a + 1
  <2>1. Cardinality(a..b) = IF a > b THEN 0 ELSE b - a + 1
    BY <1>1, FS_Interval
  <2> QED BY <1>1, <2>1
<1>4. \A k, m \in a..b : s[k] = s[m] => k = m
  <2> SUFFICES ASSUME NEW k \in a..b, NEW m \in a..b, k # m PROVE s[k] # s[m]
    OBVIOUS
  <2>1. k \in 1..n /\ m \in 1..n /\ s[k] \in Int /\ s[m] \in Int
    BY <1>1
  <2>2. CASE k < m
    BY <1>1, <2>1, <2>2 DEF Rising
  <2>3. CASE m < k
    BY <1>1, <2>1, <2>3 DEF Rising
  <2> QED BY <2>1, <2>2, <2>3
<1>5. f \in Bijection(a..b, R)
  <2>1. f \in [a..b -> R]
    OBVIOUS
  <2>2. \A k, m \in a..b : f[k] = f[m] => k = m
    BY <1>4
  <2>3. \A t \in R : \E k \in a..b : f[k] = t
    OBVIOUS
  <2> HIDE DEF f, R
  <2> QED BY <2>1, <2>2, <2>3 DEF Bijection, Injection, Surjection, IsInjective
<1>6. ExistsBijection(a..b, R)
  <2> HIDE DEF f, R
  <2> QED BY <1>5 DEF ExistsBijection
<1>7. IsFiniteSet(R) /\ Cardinality(R) = Cardinality(a..b)
  <2> HIDE DEF f, R
  <2> QED BY <1>2, <1>6, FS_Bijection
<1> QED BY <1>3, <1>7

(* The bars from one bar of the frame up to another.                           *)
LEMMA BarsUpTo ==
  ASSUME NEW n \in Nat, idx \in [1..n -> Int], Rising(idx),
         NEW a \in 1..n, NEW b \in 1..n, a <= b
  PROVE  BarsFrom(idx[a], idx[b]) = b - a
<1> DEFINE T == {ts \in ToSet(idx) : idx[a] <= ts /\ ts < idx[b]}
           R == {idx[k] : k \in a..(b - 1)}
<1>1. DOMAIN idx = 1..n /\ ToSet(idx) = {idx[k] : k \in 1..n}
  BY DEF ToSet
<1>2. \A k \in 1..n : (idx[a] <= idx[k] /\ idx[k] < idx[b]) <=> k \in a..(b - 1)
  <2> SUFFICES ASSUME NEW k \in 1..n
               PROVE  (idx[a] <= idx[k] /\ idx[k] < idx[b]) <=> k \in a..(b - 1)
    OBVIOUS
  <2>1. idx[a] \in Int /\ idx[b] \in Int /\ idx[k] \in Int /\ k \in Int
    OBVIOUS
  <2>2. (k < a => idx[k] < idx[a]) /\ (a < k => idx[a] < idx[k])
    BY <1>1 DEF Rising
  <2>3. (k < b => idx[k] < idx[b]) /\ (b < k => idx[b] < idx[k])
    BY <1>1 DEF Rising
  <2> QED BY <2>1, <2>2, <2>3
<1>3. T = R
  <2>1. a..(b - 1) \subseteq 1..n
    OBVIOUS
  <2> QED BY <1>1, <1>2, <2>1
<1>4. Cardinality(R) = (b - 1) - a + 1
  <2>1. b - 1 \in 0..n /\ a \in 1..(n + 1) /\ a <= (b - 1) + 1
    OBVIOUS
  <2> HIDE DEF R
  <2> QED BY <2>1, BarsFromTo DEF R
<1> HIDE DEF R
<1>5. BarsFrom(idx[a], idx[b]) = Cardinality(R)
  BY <1>3 DEF BarsFrom
<1> QED BY <1>4, <1>5

(* The bars after one, up to another: what a position decided on one and closed *)
(* in the other is held in.                                                    *)
LEMMA BarsHeld ==
  ASSUME NEW n \in Nat, idx \in [1..n -> Int], Rising(idx),
         NEW a \in 1..n, NEW b \in 1..n, a <= b
  PROVE  BarsFrom(idx[a] + 1, idx[b] + 1) = b - a
<1> DEFINE T == {ts \in ToSet(idx) : idx[a] + 1 <= ts /\ ts < idx[b] + 1}
           R == {idx[k] : k \in (a + 1)..b}
<1>1. DOMAIN idx = 1..n /\ ToSet(idx) = {idx[k] : k \in 1..n}
  BY DEF ToSet
<1>2. \A k \in 1..n : (idx[a] + 1 <= idx[k] /\ idx[k] < idx[b] + 1) <=> k \in (a + 1)..b
  <2> SUFFICES ASSUME NEW k \in 1..n
               PROVE  (idx[a] + 1 <= idx[k] /\ idx[k] < idx[b] + 1) <=> k \in (a + 1)..b
    OBVIOUS
  <2>1. idx[a] \in Int /\ idx[b] \in Int /\ idx[k] \in Int /\ k \in Int
    OBVIOUS
  <2>2. (k < a => idx[k] < idx[a]) /\ (a < k => idx[a] < idx[k])
    BY <1>1 DEF Rising
  <2>3. (k < b => idx[k] < idx[b]) /\ (b < k => idx[b] < idx[k])
    BY <1>1 DEF Rising
  <2> QED BY <2>1, <2>2, <2>3
<1>3. T = R
  <2>1. (a + 1)..b \subseteq 1..n
    OBVIOUS
  <2> QED BY <1>1, <1>2, <2>1
<1>4. Cardinality(R) = b - (a + 1) + 1
  <2>1. b \in 0..n /\ a + 1 \in 1..(n + 1) /\ a + 1 <= b + 1
    OBVIOUS
  <2> HIDE DEF R
  <2> QED BY <2>1, BarsFromTo DEF R
<1> HIDE DEF R
<1>5. BarsFrom(idx[a] + 1, idx[b] + 1) = Cardinality(R)
  BY <1>3 DEF BarsFrom
<1> QED BY <1>4, <1>5

-----------------------------------------------------------------------------
(* The engine's weekend, in days and hours, and the stretch of the week.       *)

LEMMA Apart ==
  ASSUME NEW d \in Nat, NEW a \in Nat, NEW b \in Nat, a < b
  PROVE  a * d + d <= b * d
<1>1. b - a - 1 \in Nat
  OBVIOUS
<1>2. (b - a - 1) * d >= 0
  BY <1>1
<1>3. (b - a - 1) * d = b * d - a * d - d
  BY <1>1
<1> QED BY <1>2, <1>3

(* Quotient and remainder.                                                     *)
LEMMA Divided ==
  ASSUME NEW ts \in Nat, NEW m \in Nat \ {0}
  PROVE  ts \div m \in Nat /\ ts % m \in 0..(m - 1) /\ ts = m * (ts \div m) + (ts % m)
OBVIOUS

(* The slot in the week is the day's first slot and the hour.                  *)
LEMMA Slot ==
  ASSUME NEW ts \in Nat
  PROVE  /\ Day(ts) % WeekDays \in Nat /\ ts % DayBars \in 0..(DayBars - 1)
         /\ ts % (WeekDays * DayBars) = (Day(ts) % WeekDays) * DayBars + (ts % DayBars)
<1> DEFINE D == DayBars
           W == WeekDays
           q == ts \div DayBars
           h == ts % DayBars
           a == q \div WeekDays
           d == q % WeekDays
<1>1. D \in Nat /\ D > 0 /\ W \in Nat /\ W > 0
  BY BacktestAssumption
<1>2. q \in Nat /\ h \in 0..(D - 1) /\ ts = D * q + h
  BY <1>1
<1>3. a \in Nat /\ d \in 0..(W - 1) /\ q = W * a + d
  BY <1>1, <1>2
<1> HIDE DEF q, h, a, d, D, W
<1>4. D * d + h \in Nat /\ D * d + h < W * D
  <2>1. d * D + D <= W * D /\ d * D \in Nat
    BY <1>1, <1>3, Apart
  <2>2. D * d = d * D
    BY <1>1, <1>3
  <2> QED BY <1>1, <1>2, <2>1, <2>2
<1>5. ts = (W * D) * a + (D * d + h)
  <2>1. D * (W * a + d) = (W * D) * a + D * d
    BY <1>1, <1>3
  <2>2. D * q = D * (W * a + d)
    BY <1>3
  <2>3. (W * D) * a \in Int /\ D * d \in Int /\ h \in Int
    BY <1>1, <1>2, <1>3
  <2>4. ts = ((W * D) * a + D * d) + h
    BY <1>2, <2>1, <2>2
  <2> QED BY <2>3, <2>4
<1>6. W * D \in Nat /\ W * D > 0
  BY <1>1
<1>7. ts % (W * D) = D * d + h
  <2> DEFINE M == W * D
             r == D * d + h
             a2 == ts \div M
             r2 == ts % M
  <2>1. a2 \in Nat /\ r2 \in 0..(M - 1) /\ ts = M * a2 + r2
    <3>1. M \in Nat \ {0}
      BY <1>6
    <3> HIDE DEF M
    <3> QED BY <3>1, Divided
  <2>2. M \in Nat /\ M > 0 /\ r \in Nat /\ r < M /\ ts = M * a + r
    BY <1>4, <1>5, <1>6
  <2> HIDE DEF M, r, a2, r2
  <2>3. CASE a < a2
    <3>1. a * M + M <= a2 * M
      BY <1>3, <2>1, <2>2, <2>3, Apart
    <3>2. M * a = a * M /\ M * a2 = a2 * M /\ a * M \in Nat /\ a2 * M \in Nat
      BY <1>3, <2>1, <2>2
    <3> QED BY <2>1, <2>2, <3>1, <3>2
  <2>4. CASE a2 < a
    <3>1. a2 * M + M <= a * M
      BY <1>3, <2>1, <2>2, <2>4, Apart
    <3>2. M * a = a * M /\ M * a2 = a2 * M /\ a * M \in Nat /\ a2 * M \in Nat
      BY <1>3, <2>1, <2>2
    <3> QED BY <2>1, <2>2, <3>1, <3>2
  <2>5. CASE a = a2
    <3>1. M * a \in Int /\ M * a = M * a2
      BY <1>3, <2>2, <2>5
    <3>2. r2 = r
      BY <2>1, <2>2, <3>1
    <3> QED BY <3>2 DEF r2, r, M
  <2> QED BY <1>3, <2>1, <2>3, <2>4, <2>5
<1>8. D * d = d * D
  BY <1>1, <1>3
<1>9. d \in Nat /\ h \in 0..(D - 1) /\ ts % (W * D) = d * D + h
  BY <1>2, <1>3, <1>7, <1>8
<1> QED BY <1>9 DEF q, h, d, D, W, Day

(* Outside the engine's weekend is outside of the stretch of the week.         *)
LEMMA WeekendSpan ==
  ASSUME NEW ts \in Nat, ~is_weekend(ts)
  PROVE  ~InWeekend(ts)
<1> DEFINE d == Day(ts) % WeekDays
           h == ts % DayBars
           ws == weekend_start_weekday
           we == weekend_end_weekday
           sh == weekend_start_hour_utc
           eh == weekend_end_hour_utc
           slot == ts % (WeekDays * DayBars)
<1>1. d \in Nat /\ h \in 0..(DayBars - 1) /\ slot = d * DayBars + h
  BY Slot
<1>2. /\ ws \in Nat /\ we \in Nat /\ ws < we /\ DayBars \in Nat
      /\ sh \in 0..(DayBars - 1) /\ eh \in 0..(DayBars - 1)
  BY BacktestAssumption
<1>3. ~(d = ws /\ h >= sh) /\ ~(d = we /\ h < eh) /\ ~(d > ws /\ d < we)
  BY <1>2 DEF is_weekend, WeekendWindow
<1> SUFFICES ASSUME ws * DayBars + sh <= slot, slot < we * DayBars + eh PROVE FALSE
  BY DEF InWeekend
<1> HIDE DEF d, h, ws, we, sh, eh, slot
<1>4. d * DayBars \in Nat /\ ws * DayBars \in Nat /\ we * DayBars \in Nat
  BY <1>1, <1>2
<1>5. CASE d < ws
  <2>1. d * DayBars + DayBars <= ws * DayBars
    BY <1>1, <1>2, <1>5, Apart
  <2> QED BY <1>1, <1>2, <1>4, <2>1
<1>6. CASE d = ws
  <2>1. h < sh /\ d * DayBars = ws * DayBars
    BY <1>1, <1>2, <1>3, <1>6
  <2> QED BY <1>1, <1>2, <1>4, <2>1
<1>7. CASE d = we
  <2>1. eh <= h /\ d * DayBars = we * DayBars
    BY <1>1, <1>2, <1>3, <1>7
  <2> QED BY <1>1, <1>2, <1>4, <2>1
<1>8. CASE we < d
  <2>1. we * DayBars + DayBars <= d * DayBars
    BY <1>1, <1>2, <1>8, Apart
  <2> QED BY <1>1, <1>2, <1>4, <2>1
<1> QED BY <1>1, <1>2, <1>3, <1>5, <1>6, <1>7, <1>8

-----------------------------------------------------------------------------
(* The folds and the windows.                                                  *)

LEMMA FoldIs ==
  ASSUME NEW from \in Int, NEW to \in Int
  PROVE  /\ DOMAIN make_folds(from, to) \subseteq 1..folds
         /\ \A k \in DOMAIN make_folds(from, to) :
              make_folds(from, to)[k] = FoldFrom(from + (k - 1) * Step)
BY DEF make_folds

(* First and last time of a frame.                                             *)
LEMMA FramesEnds ==
  ASSUME NEW n \in Nat, n >= 1, NEW s \in [1..n -> Calendar]
  PROVE  Len(s) = n /\ s[1] \in Nat /\ s[Len(s)] \in Nat
<1>1. s \in Seq(Calendar)
  OBVIOUS
<1>2. Len(s) = n
  BY <1>1
<1>3. \A ts \in Calendar : ts \in Nat
  BY BacktestAssumption DEF Calendar
<1> QED BY <1>2, <1>3

(* A window has two ends.                                                      *)
LEMMA WindowsTyped ==
  ASSUME NEW n \in Nat, n >= 1, NEW s \in [1..n -> Calendar], NEW w \in Windows(s)
  PROVE  w[1] \in Int /\ w[2] \in Int
<1>1. s[1] \in Int /\ s[Len(s)] \in Int
  BY FramesEnds
<1>2. CASE w = <<s[1], s[Len(s)]>>
  BY <1>1, <1>2
<1>3. CASE \E f \in ToSet(FoldsOf(s)) : w \in {f.train, f.test}
  <2>1. PICK k \in DOMAIN FoldsOf(s) : w \in {FoldsOf(s)[k].train, FoldsOf(s)[k].test}
    BY <1>3 DEF ToSet
  <2> DEFINE c == s[1] + (k - 1) * Step
  <2>2. k \in Int /\ FoldsOf(s)[k] = FoldFrom(c)
    BY <1>1, <2>1, FoldIs DEF FoldsOf
  <2>3. /\ Step \in Int
        /\ train_days * DayBars \in Int
        /\ (train_days + test_days) * DayBars \in Int
    BY BacktestAssumption DEF Step
  <2>4. c \in Int
    BY <1>1, <2>2, <2>3
  <2> HIDE DEF c
  <2>5. FoldFrom(c).train = <<c, c + train_days * DayBars>>
    BY DEF FoldFrom
  <2>6. FoldFrom(c).test = <<c + train_days * DayBars, c + (train_days + test_days) * DayBars>>
    BY DEF FoldFrom
  <2>7. CASE w = FoldFrom(c).train
    BY <2>3, <2>4, <2>5, <2>7
  <2>8. CASE w = FoldFrom(c).test
    BY <2>3, <2>4, <2>6, <2>8
  <2> QED BY <2>1, <2>2, <2>7, <2>8
<1> QED BY <1>2, <1>3 DEF Windows

(* The bars the loop runs over are bars of the frame, and of the window.        *)
LEMMA EvaluatedBars ==
  ASSUME NEW n \in Nat, NEW s \in [1..n -> Int], Rising(s),
         NEW w, w[1] \in Int, w[2] \in Int, InWindow(s, w) # {}
  PROVE  /\ FirstEval(s, w) \in Nat /\ LastEval(s, w) \in 1..n
         /\ FirstEval(s, w) >= 1
         /\ \A k \in FirstEval(s, w)..LastEval(s, w) :
              k \in 1..n /\ w[1] <= s[k] /\ s[k] <= w[2]
<1> DEFINE S == InWindow(s, w)
<1>1. S \in SUBSET (0..n) /\ S \in SUBSET Int /\ \A k \in S : k \in 1..n
  BY DEF InWindow
<1>2. PICK m \in S : \A k \in S : m <= k
  <2> HIDE DEF S
  <2> QED BY <1>1, LeastIn DEF S
<1>3. PICK M \in S : \A k \in S : k <= M
  <2> HIDE DEF S
  <2> QED BY <1>1, LargestIn DEF S
<1>4. Min(S) = m /\ Max(S) = M
  <2>1. Min(S) = m
    <3> HIDE DEF S
    <3> QED BY <1>1, <1>2, MinIs
  <2>2. Max(S) = M
    <3> HIDE DEF S
    <3> QED BY <1>1, <1>3, MaxIs
  <2> QED BY <2>1, <2>2
<1>5. m \in 1..n /\ M \in 1..n /\ required_bars + 1 \in Nat
  BY <1>1, BacktestAssumption
<1>6. FirstEval(s, w) = (IF m >= required_bars + 1 THEN m ELSE required_bars + 1)
  <2>1. FirstEval(s, w) = Max({m, required_bars + 1})
    BY <1>4 DEF FirstEval
  <2>2. m \in Int /\ required_bars + 1 \in Int
    BY <1>5
  <2> QED BY <2>1, <2>2, MaxOfTwo
<1>7. LastEval(s, w) = M
  BY <1>4 DEF LastEval
<1>8. ASSUME NEW k \in FirstEval(s, w)..LastEval(s, w)
      PROVE  k \in 1..n /\ w[1] <= s[k] /\ s[k] <= w[2]
  <2>1. k \in 1..n /\ m <= k /\ k <= M
    BY <1>5, <1>6, <1>7
  <2>2. w[1] <= s[m] /\ s[M] <= w[2]
    BY DEF InWindow
  <2>3. s[m] <= s[k] /\ s[k] <= s[M]
    <3>1. s[m] \in Int /\ s[k] \in Int /\ s[M] \in Int /\ DOMAIN s = 1..n
      BY <1>5, <2>1
    <3>2. (m < k => s[m] < s[k]) /\ (k < M => s[k] < s[M])
      BY <1>5, <2>1, <3>1 DEF Rising
    <3> QED BY <1>5, <2>1, <3>1, <3>2
  <2>4. s[m] \in Int /\ s[k] \in Int /\ s[M] \in Int
    BY <1>5, <2>1
  <2> QED BY <2>1, <2>2, <2>3, <2>4
<1> QED BY <1>5, <1>6, <1>7, <1>8

(* The ends of a fold's windows.                                               *)
LEMMA FoldWindows ==
  ASSUME NEW c \in Int
  PROVE  /\ train_days * DayBars \in Nat /\ Step \in Nat
         /\ FoldFrom(c).train[1] = c
         /\ FoldFrom(c).train[2] = c + train_days * DayBars
         /\ FoldFrom(c).test[1] = c + train_days * DayBars
         /\ FoldFrom(c).test[2] = c + train_days * DayBars + Step
<1>1. /\ train_days * DayBars \in Nat /\ Step \in Nat
      /\ (train_days + test_days) * DayBars = train_days * DayBars + Step
  BY BacktestAssumption DEF Step
<1>2. FoldFrom(c).train = <<c, c + train_days * DayBars>>
  BY DEF FoldFrom
<1>3. FoldFrom(c).test = <<c + train_days * DayBars, c + (train_days + test_days) * DayBars>>
  BY DEF FoldFrom
<1> HIDE DEF FoldFrom
<1> QED BY <1>1, <1>2, <1>3

(* What a test window decides no other test decides, nor what it was trained on.*)
LEMMA TestsAreApart ==
  ASSUME NEW n \in Nat, n >= 1, idx \in [1..n -> Calendar]
  PROVE  \A k, m \in DOMAIN FoldsOf(idx) :
           /\ k # m => HeldIn(FoldsOf(idx)[k].test) \cap HeldIn(FoldsOf(idx)[m].test) = {}
           /\ HeldIn(FoldsOf(idx)[k].train) \cap HeldIn(FoldsOf(idx)[k].test) = {}
<1> DEFINE fs == FoldsOf(idx)
           c(k) == idx[1] + (k - 1) * Step
<1>1. idx[1] \in Int /\ idx[Len(idx)] \in Int
  BY FramesEnds
<1>2. \A k \in DOMAIN fs : k \in 1..folds /\ fs[k] = FoldFrom(c(k))
  BY <1>1, FoldIs DEF FoldsOf
<1>3. Step \in Nat /\ train_days * DayBars \in Nat
  BY FoldWindows
<1>4. \A k \in DOMAIN fs : k \in Nat /\ k >= 1 /\ c(k) \in Int
  <2> SUFFICES ASSUME NEW k \in DOMAIN fs PROVE k \in Nat /\ k >= 1 /\ c(k) \in Int
    OBVIOUS
  <2>1. k \in 1..folds /\ folds \in Nat
    BY <1>2, BacktestAssumption
  <2>2. k \in Nat /\ k >= 1
    BY <2>1
  <2>3. (k - 1) * Step \in Int
    BY <1>3, <2>2
  <2> QED BY <1>1, <2>2, <2>3
<1>5. ToSet(idx) \subseteq Int
  <2>1. \A ts \in Calendar : ts \in Int
    BY BacktestAssumption DEF Calendar
  <2> QED BY <2>1 DEF ToSet
<1>6. ASSUME NEW k \in DOMAIN fs, NEW m \in DOMAIN fs, k < m
      PROVE  HeldIn(fs[k].test) \cap HeldIn(fs[m].test) = {}
  <2>1. c(k) + Step <= c(m)
    <3>1. k - 1 \in Nat /\ m - 1 \in Nat /\ k - 1 < m - 1
      <4>1. k \in Nat /\ k >= 1 /\ m \in Nat /\ m >= 1
        BY <1>4
      <4> QED BY <1>6, <4>1
    <3>2. (k - 1) * Step + Step <= (m - 1) * Step
      BY <1>3, <3>1, Apart
    <3>3. (k - 1) * Step \in Int /\ (m - 1) * Step \in Int
      BY <1>3, <3>1
    <3> QED BY <1>1, <1>3, <3>2, <3>3
  <2>2. c(k) \in Int /\ c(m) \in Int
    BY <1>4
  <2>3. /\ fs[k].test[2] = c(k) + train_days * DayBars + Step
        /\ fs[m].test[1] = c(m) + train_days * DayBars
    <3>1. fs[k] = FoldFrom(c(k)) /\ fs[m] = FoldFrom(c(m))
      BY <1>2
    <3> HIDE DEF c, fs
    <3> QED BY <2>2, <3>1, FoldWindows
  <2>4. fs[k].test[2] <= fs[m].test[1] /\ fs[k].test[2] \in Int /\ fs[m].test[1] \in Int
    <3> HIDE DEF c, fs
    <3> QED BY <1>3, <2>1, <2>2, <2>3
  <2> HIDE DEF c, fs
  <2> QED BY <1>5, <2>4 DEF HeldIn
<1>7. ASSUME NEW k \in DOMAIN fs
      PROVE  HeldIn(fs[k].train) \cap HeldIn(fs[k].test) = {}
  <2>1. c(k) \in Int /\ fs[k] = FoldFrom(c(k))
    BY <1>2, <1>4
  <2>2. fs[k].train[2] = fs[k].test[1] /\ fs[k].test[1] \in Int
    <3> HIDE DEF c, fs
    <3>1. /\ fs[k].train[2] = c(k) + train_days * DayBars
          /\ fs[k].test[1] = c(k) + train_days * DayBars
      BY <2>1, FoldWindows
    <3>2. c(k) + train_days * DayBars \in Int
      BY <1>3, <2>1
    <3> QED BY <3>1, <3>2
  <2> HIDE DEF c, fs
  <2> QED BY <1>5, <2>2 DEF HeldIn
<1>8. ASSUME NEW k \in DOMAIN fs, NEW m \in DOMAIN fs, k # m
      PROVE  HeldIn(fs[k].test) \cap HeldIn(fs[m].test) = {}
  <2>1. k \in Int /\ m \in Int
    BY <1>4
  <2>2. CASE k < m
    BY <1>6, <2>2
  <2>3. CASE m < k
    BY <1>6, <2>3
  <2> QED BY <1>8, <2>1, <2>2, <2>3
<1> QED BY <1>7, <1>8

-----------------------------------------------------------------------------
(* The inductive invariant.  The frame and the window do not change.            *)

Size == Len(idx)
Exit == [sold : ExitReasons \cup {"none"}, pnl : Int]
(* The parts of the account that decide about spacing; the sums do not.         *)
Fields == DOMAIN empty_state
IsAccount(s) == DOMAIN s = Fields /\ s.streak \in Nat /\ s.open_positions \in 0..1

Frame ==
  /\ Size \in Nat \ {0} /\ idx \in [1..Size -> Calendar] /\ Rising(idx)
  /\ window[1] \in Int /\ window[2] \in Int

(* The loop walks the bars of the window, one after the other.                  *)
Walk ==
  /\ phase \in {"manage", "enter", "end", "done"}
  /\ phase # "done" => InWindow(idx, window) # {}
  /\ i \in Int
  /\ phase \in {"manage", "enter"} => i \in first_eval..last_eval
  /\ phase = "end" => i = last_eval + 1 /\ first_eval <= last_eval

Books == IsAccount(state) /\ trades \in Seq(Trade) /\ metrics.trade_count \in Nat

(* How long the trade after trade k of `ts` has waited, in bars.                *)
LostFrom(ts, from, to) == \A m \in from..to : m >= 1 /\ ts[m].pnl < 0
Spaced(ts, k, waited) ==
  /\ ts[k].pnl < 0 => waited >= reentry_after_loss_same_direction_bars
  /\ ts[k].sold = "sl" => waited >= cooldown_after_stop_out_bars
  /\ ts[k].pnl < 0 /\ LostFrom(ts, k - cooldown_after_consecutive_losses + 1, k)
       => waited >= cooldown_after_consecutive_losses_bars

(* What is open was decided on a bar that may trade, and is not held too long.  *)
Open ==
  LET o == position.opened_index
      n == Len(trades)
  IN /\ phase = "done" => ~Holding
     /\ Holding => /\ o \in (first_eval + 1)..last_eval /\ o <= i
                   /\ position.opened_at = idx[o - 1] + 1
                   /\ ~is_weekend(idx[o - 1])
                   /\ i - o <= max_position_hold_bars
                   /\ phase = "enter" => i - o < max_position_hold_bars
                   /\ n > 0 => last_exit < o /\ Spaced(trades, n, o - 1 - last_exit)

(* The account's memory of the trade closed last, and of the losses up to it.   *)
Memory ==
  LET n == Len(trades)
  IN phase # "done" /\ n > 0 =>
       /\ last_exit \in first_eval..last_eval /\ last_exit <= i
       /\ trades[n].closed_at = idx[last_exit]
       /\ state.last_exit = [sold |-> trades[n].sold, pnl |-> trades[n].pnl]
       /\ \A m \in 1..n : LostFrom(trades, m, n) => state.streak >= n - m + 1

(* Of every trade: the bar e it was decided on and the bar x it was closed in.  *)
DoneRight(t) ==
  \E e, x \in 1..Size :
    /\ e < x /\ x - e <= max_position_hold_bars + 1
    /\ window[1] <= idx[e] /\ idx[x] <= window[2]
    /\ t.opened_at = idx[e] + 1 /\ t.closed_at = idx[x]
    /\ ~is_weekend(idx[e])
Followed(ts, k) ==
  \E y, e \in 1..Size :
    /\ y <= e /\ ts[k].closed_at = idx[y] /\ ts[k + 1].opened_at = idx[e] + 1
    /\ Spaced(ts, k, e - y)
Past ==
  /\ \A k \in 1..Len(trades) : DoneRight(trades[k])
  /\ \A k \in 1..(Len(trades) - 1) : Followed(trades, k)

IInv == Frame /\ Walk /\ Books /\ Open /\ Memory /\ Past

-----------------------------------------------------------------------------
(* What the steps do to the account.                                           *)

LEMMA AccountFields ==
  Fields = {"equity", "equity_high", "day_pnl", "week_pnl", "drawdown", "trades_today",
            "losses_today", "streak", "last_exit", "since_exit", "since_entry",
            "open_positions", "is_weekend"}
BY DEF Fields, empty_state

(* The empty account is an account.                                            *)
LEMMA StartsTyped ==
  IsAccount(empty_state)
BY DEF IsAccount, Fields, empty_state

(* A rollover forgets neither the streak nor the last exit.                    *)
LEMMA Rolls ==
  ASSUME NEW s, IsAccount(s), NEW was, NEW ts
  PROVE  /\ IsAccount(Rolled(s, was, ts))
         /\ Rolled(s, was, ts).streak = s.streak
         /\ Rolled(s, was, ts).last_exit = s.last_exit
<1>1. ASSUME NEW u, IsAccount(u)
      PROVE  IsAccount(roll_day(u)) /\ roll_day(u).streak = u.streak
             /\ roll_day(u).last_exit = u.last_exit
  BY <1>1, AccountFields DEF roll_day, IsAccount
<1>2. ASSUME NEW u, IsAccount(u)
      PROVE  IsAccount(roll_week(u)) /\ roll_week(u).streak = u.streak
             /\ roll_week(u).last_exit = u.last_exit
  BY <1>2, AccountFields DEF roll_week, IsAccount
<1> DEFINE d == IF Day(ts) # Day(was) THEN roll_day(s) ELSE s
<1>3. IsAccount(d) /\ d.streak = s.streak /\ d.last_exit = s.last_exit
  BY <1>1
<1>4. Rolled(s, was, ts) = IF Week(ts) # Week(was) THEN roll_week(d) ELSE d
  BY DEF Rolled
<1> HIDE DEF d
<1> QED BY <1>2, <1>3, <1>4

(* A close counts the streak, and is the last exit.                            *)
LEMMA Closes ==
  ASSUME NEW s, IsAccount(s), NEW pnl, NEW sold
  PROVE  /\ IsAccount(update_after_close(s, pnl, sold))
         /\ update_after_close(s, pnl, sold).streak = IF pnl < 0 THEN s.streak + 1 ELSE 0
         /\ update_after_close(s, pnl, sold).last_exit = [sold |-> sold, pnl |-> pnl]
<1> DEFINE equity == s.equity + pnl
           high == Max({s.equity_high, equity})
           exit == [sold |-> sold, pnl |-> pnl]
           streak == IF pnl < 0 THEN s.streak + 1 ELSE 0
           lost == IF pnl < 0 THEN s.losses_today + 1 ELSE s.losses_today
           fall == high - equity
           day == s.day_pnl + pnl
           week == s.week_pnl + pnl
           u == [s EXCEPT !.equity = equity, !.equity_high = high, !.drawdown = fall,
                          !.day_pnl = day, !.week_pnl = week, !.open_positions = 0,
                          !.losses_today = lost, !.streak = streak,
                          !.since_exit = 0, !.last_exit = exit]
<1>1. update_after_close(s, pnl, sold) = u
  BY AccountFields DEF update_after_close, IsAccount
<1>2. streak \in Nat
  BY DEF IsAccount
<1> HIDE DEF equity, high, exit, streak, lost, fall, day, week
<1>3. DOMAIN u = Fields /\ u.streak = streak /\ u.last_exit = exit /\ u.open_positions = 0
  BY AccountFields DEF IsAccount
<1> HIDE DEF u
<1> QED BY <1>1, <1>2, <1>3 DEF streak, exit, IsAccount

(* The counters of a bar change nothing but themselves.                        *)
LEMMA Ages ==
  ASSUME IsAccount(state)
  PROVE  /\ IsAccount(Aged)
         /\ Aged.streak = state.streak /\ Aged.last_exit = state.last_exit
         /\ Aged.is_weekend = is_weekend(idx[i])
         /\ Aged.since_exit = BarsSince(last_exit)
<1> DEFINE w == is_weekend(idx[i])
           x == BarsSince(last_exit)
           e == BarsSince(last_entry)
<1>1. Aged = [state EXCEPT !.is_weekend = w, !.since_exit = x, !.since_entry = e]
  BY DEF Aged
<1> HIDE DEF w, x, e
<1>2. IsAccount(Aged)
  BY <1>1, AccountFields DEF IsAccount
<1>3. /\ Aged.streak = state.streak /\ Aged.last_exit = state.last_exit
      /\ Aged.is_weekend = w /\ Aged.since_exit = x
  BY <1>1, AccountFields DEF IsAccount
<1> QED BY <1>2, <1>3 DEF w, x

(* The loop's bars, where there is a loop.                                     *)
LEMMA Evals ==
  ASSUME Frame, Walk, phase # "done"
  PROVE  /\ first_eval \in Nat /\ first_eval >= 1 /\ last_eval \in 1..Size
         /\ \A k \in first_eval..last_eval :
              k \in 1..Size /\ idx[k] \in Calendar /\ idx[k] \in Nat
              /\ window[1] <= idx[k] /\ idx[k] <= window[2]
<1>1. Size \in Nat /\ idx \in [1..Size -> Int] /\ Rising(idx)
  <2>1. \A ts \in Calendar : ts \in Int
    BY BacktestAssumption DEF Calendar
  <2> QED BY <2>1 DEF Frame
<1>2. window[1] \in Int /\ window[2] \in Int /\ InWindow(idx, window) # {}
  BY DEF Frame, Walk
<1>3. /\ first_eval \in Nat /\ first_eval >= 1 /\ last_eval \in 1..Size
      /\ \A k \in first_eval..last_eval :
           k \in 1..Size /\ window[1] <= idx[k] /\ idx[k] <= window[2]
  BY <1>1, <1>2, EvaluatedBars DEF first_eval, last_eval
<1>4. \A k \in 1..Size : idx[k] \in Calendar /\ idx[k] \in Nat
  <2>1. \A ts \in Calendar : ts \in Nat
    BY BacktestAssumption DEF Calendar
  <2> QED BY <2>1 DEF Frame
<1> QED BY <1>3, <1>4

(* They are those of the frame and the window.                                 *)
LEMMA SameEvals ==
  ASSUME idx' = idx, window' = window
  PROVE  first_eval' = first_eval /\ last_eval' = last_eval /\ Size' = Size
BY DEF first_eval, last_eval, Size

-----------------------------------------------------------------------------
(* A close, in the loop or at its end.                                         *)

LEMMA SpacedOn ==
  ASSUME NEW ts \in Seq(Trade), NEW t \in Trade, NEW k \in 1..Len(ts), NEW waited \in Int,
         Spaced(ts, k, waited)
  PROVE  Spaced(Append(ts, t), k, waited)
<1> DEFINE us == Append(ts, t)
           low == k - cooldown_after_consecutive_losses + 1
<1>1. \A m \in 1..k : us[m] = ts[m]
  OBVIOUS
<1>2. LostFrom(us, low, k) => LostFrom(ts, low, k)
  <2> SUFFICES ASSUME LostFrom(us, low, k), NEW m \in low..k PROVE m >= 1 /\ ts[m].pnl < 0
    BY DEF LostFrom
  <2>1. m >= 1 /\ us[m].pnl < 0
    BY DEF LostFrom
  <2>2. m \in Int /\ m <= k
    BY BacktestAssumption
  <2>3. m \in 1..k
    BY <2>1, <2>2
  <2> HIDE DEF us
  <2> QED BY <1>1, <2>1, <2>3
<1>3. us[k] = ts[k]
  BY <1>1
<1> HIDE DEF us
<1>4. Spaced(us, k, waited)
  BY <1>2, <1>3 DEF Spaced, low
<1> QED BY <1>4 DEF us

(* A trade is worth one of Outcomes.                                           *)
LEMMA SoldFor ==
  ASSUME NEW sold \in ExitReasons, NEW pnl \in PnlOf(sold)
  PROVE  pnl \in Outcomes /\ pnl \in Int
<1>1. PnlOf(sold) \subseteq Outcomes
  BY DEF PnlOf
<1> QED BY <1>1, BacktestAssumption

(* The bars of the position that is open.                                      *)
LEMMA HoldingBars ==
  ASSUME Frame, Walk, Open, phase # "done", Holding
  PROVE  LET o == position.opened_index
         IN /\ o \in Int /\ o - 1 \in 1..Size /\ o \in 1..Size
            /\ first_eval < o /\ o <= last_eval /\ o <= i
            /\ position.opened_at = idx[o - 1] + 1 /\ position.opened_at \in Nat
            /\ window[1] <= idx[o - 1]
<1> DEFINE o == position.opened_index
<1>1. first_eval \in Nat /\ first_eval >= 1 /\ last_eval \in 1..Size /\ Size \in Nat
  BY Evals DEF Frame
<1>2. o \in (first_eval + 1)..last_eval /\ o <= i /\ position.opened_at = idx[o - 1] + 1
  BY DEF Open
<1> HIDE DEF o
<1>3. o \in Int /\ o - 1 \in first_eval..last_eval /\ o \in first_eval..last_eval
  BY <1>1, <1>2
<1>4. idx[o - 1] \in Nat /\ window[1] <= idx[o - 1] /\ o - 1 \in 1..Size /\ o \in 1..Size
  BY <1>3, Evals
<1> QED BY <1>1, <1>2, <1>3, <1>4 DEF o

(* A close adds a trade that is done right and has waited after the last one,  *)
(* and the account remembers it.                                               *)
LEMMA CloseKeeps ==
  ASSUME Frame, Walk, Books, Open, Memory, Past, phase # "done", Holding,
         NEW k \in first_eval..last_eval, position.opened_index <= k,
         k - position.opened_index <= max_position_hold_bars,
         NEW s, IsAccount(s), s.streak = state.streak,
         NEW sold \in ExitReasons, NEW pnl \in PnlOf(sold), ClosedAt(k, s, sold, pnl),
         idx' = idx, window' = window
  PROVE  LET n == Len(trades')
         IN /\ IsAccount(state') /\ trades' \in Seq(Trade) /\ ~Holding' /\ Past'
            /\ n > 0 /\ trades'[n].closed_at = idx[k]
            /\ state'.last_exit = [sold |-> trades'[n].sold, pnl |-> trades'[n].pnl]
            /\ \A m \in 1..n : LostFrom(trades', m, n) => state'.streak >= n - m + 1
<1> DEFINE o == position.opened_index
           n == Len(trades)
           bars == Max({1, k - o})
           t == [opened_at |-> position.opened_at, closed_at |-> idx[k], pnl |-> pnl,
                 sold |-> sold, bars_held |-> bars]
           after == update_after_close(s, pnl, sold)
<1>1. /\ trades' = Append(trades, t) /\ state' = after /\ position' = NoPosition
      /\ Size' = Size
  BY SameEvals DEF ClosedAt
<1>2. /\ o \in Int /\ o - 1 \in 1..Size /\ o \in 1..Size
      /\ first_eval < o /\ o <= last_eval
      /\ position.opened_at = idx[o - 1] + 1 /\ position.opened_at \in Nat
      /\ window[1] <= idx[o - 1]
  BY HoldingBars
<1>3. /\ k \in 1..Size /\ idx[k] \in Calendar /\ idx[k] <= window[2]
      /\ k \in Int /\ o <= k /\ k - o <= max_position_hold_bars
  BY Evals
<1>4. pnl \in Outcomes /\ pnl \in Int
  BY SoldFor
<1>5. bars \in Nat
  <2>1. k - o \in Int
    BY <1>2, <1>3
  <2>2. bars = IF 1 >= k - o THEN 1 ELSE k - o
    BY <2>1, MaxOfTwo
  <2> HIDE DEF bars
  <2> QED BY <2>1, <2>2
<1>6. t \in Trade
  <2> HIDE DEF bars, o
  <2> QED BY <1>2, <1>3, <1>4, <1>5 DEF Trade
<1>7. /\ trades \in Seq(Trade) /\ n \in Nat
  BY DEF Books
<1>8. /\ t.opened_at = idx[o - 1] + 1 /\ t.closed_at = idx[k]
      /\ t.sold = sold /\ t.pnl = pnl
  BY <1>2
<1> HIDE DEF t, bars, after
<1>9. /\ trades' \in Seq(Trade) /\ Len(trades') = n + 1 /\ trades'[n + 1] = t
      /\ \A j \in 1..n : trades'[j] = trades[j]
  BY <1>1, <1>6, <1>7
<1>10. IsAccount(state') /\ state'.last_exit = [sold |-> sold, pnl |-> pnl]
       /\ state'.streak = IF pnl < 0 THEN state.streak + 1 ELSE 0
  BY <1>1, Closes DEF after
<1>11. ASSUME NEW m \in 1..(n + 1), LostFrom(trades', m, n + 1)
       PROVE  state'.streak >= (n + 1) - m + 1
  <2>1. pnl < 0
    <3>1. n + 1 \in m..(n + 1)
      BY <1>7
    <3> QED BY <1>8, <1>9, <1>11, <3>1 DEF LostFrom
  <2>2. state'.streak = state.streak + 1 /\ state.streak \in Nat
    BY <1>10, <2>1 DEF Books, IsAccount
  <2>3. CASE m = n + 1
    BY <1>7, <2>2, <2>3
  <2>4. CASE m # n + 1
    <3>1. m \in 1..n /\ n > 0
      BY <1>7, <2>4
    <3>2. LostFrom(trades, m, n)
      <4> SUFFICES ASSUME NEW j \in m..n PROVE j >= 1 /\ trades[j].pnl < 0
        BY DEF LostFrom
      <4>1. j \in m..(n + 1) /\ j \in 1..n
        BY <1>7, <3>1
      <4>2. trades'[j].pnl < 0
        BY <1>11, <4>1 DEF LostFrom
      <4> QED BY <1>9, <4>1, <4>2
    <3>3. state.streak >= n - m + 1
      BY <3>1, <3>2 DEF Memory
    <3> QED BY <1>7, <2>2, <3>1, <3>3
  <2> QED BY <2>3, <2>4
<1>12. DoneRight(t)
  <2>1. o - 1 < k /\ k - (o - 1) <= max_position_hold_bars + 1
    BY <1>2, <1>3, BacktestAssumption
  <2>2. ~is_weekend(idx[o - 1])
    BY DEF Open
  <2> QED BY <1>2, <1>3, <1>8, <2>1, <2>2 DEF DoneRight
<1>13. \A j \in 1..Len(trades') : DoneRight(trades[j])'
  <2> SUFFICES ASSUME NEW j \in 1..(n + 1) PROVE DoneRight(trades[j])'
    BY <1>9
  <2>1. DoneRight(trades'[j])
    <3>1. CASE j = n + 1
      BY <1>9, <1>12, <3>1
    <3>2. CASE j # n + 1
      <4>1. j \in 1..n
        BY <1>7, <3>2
      <4>2. DoneRight(trades[j])
        BY <4>1 DEF Past
      <4>3. trades'[j] = trades[j]
        BY <1>9, <4>1
      <4> QED BY <4>2, <4>3
    <3> QED BY <3>1, <3>2
  <2> QED BY <1>1, <2>1 DEF DoneRight, is_weekend, Day
<1>14. \A j \in 1..(Len(trades') - 1) : Followed(trades, j)'
  <2> SUFFICES ASSUME NEW j \in 1..n PROVE Followed(trades, j)'
    BY <1>7, <1>9
  <2>1. Followed(trades', j)
    <3>1. CASE j = n
      <4>1. n > 0 /\ last_exit < o /\ Spaced(trades, n, o - 1 - last_exit)
        BY <1>7, <3>1 DEF Open
      <4>2. last_exit \in first_eval..last_eval /\ trades[n].closed_at = idx[last_exit]
        BY <4>1 DEF Memory
      <4>3. last_exit \in 1..Size /\ last_exit \in Int
        BY <4>2, Evals
      <4>4. last_exit <= o - 1 /\ (o - 1) - last_exit \in Int
        BY <1>2, <4>1, <4>3
      <4>5. Spaced(trades', n, (o - 1) - last_exit)
        BY <1>1, <1>6, <1>7, <3>1, <4>1, <4>4, SpacedOn
      <4>6. trades'[n].closed_at = idx[last_exit] /\ trades'[n + 1].opened_at = idx[o - 1] + 1
        BY <1>8, <1>9, <3>1, <4>2
      <4> QED BY <1>2, <3>1, <4>3, <4>4, <4>5, <4>6 DEF Followed
    <3>2. CASE j # n
      <4>1. j \in 1..(n - 1) /\ j \in 1..n /\ j + 1 \in 1..n
        BY <1>7, <3>2
      <4>2. Followed(trades, j)
        BY <4>1 DEF Past
      <4>3. PICK y, e \in 1..Size :
              /\ y <= e /\ trades[j].closed_at = idx[y]
              /\ trades[j + 1].opened_at = idx[e] + 1 /\ Spaced(trades, j, e - y)
        BY <4>2 DEF Followed
      <4>4. Spaced(trades', j, e - y)
        <5>1. e - y \in Int
          BY DEF Frame
        <5> QED BY <1>1, <1>6, <1>7, <4>1, <4>3, <5>1, SpacedOn
      <4>5. trades'[j] = trades[j] /\ trades'[j + 1] = trades[j + 1]
        BY <1>9, <4>1
      <4> QED BY <4>3, <4>4, <4>5 DEF Followed
    <3> QED BY <3>1, <3>2
  <2> QED BY <1>1, <2>1 DEF Followed, Spaced, LostFrom
<1>15. Past'
  BY <1>13, <1>14 DEF Past
<1>16. ~Holding'
  BY <1>1 DEF Holding
<1>17. /\ trades'[n + 1].closed_at = idx[k]
       /\ state'.last_exit = [sold |-> trades'[n + 1].sold, pnl |-> trades'[n + 1].pnl]
  BY <1>8, <1>9, <1>10
<1> QED BY <1>7, <1>9, <1>10, <1>11, <1>15, <1>16, <1>17

-----------------------------------------------------------------------------
(* The invariant holds at first, and every step keeps it.                       *)

LEMMA CalendarCounts ==
  IsFiniteSet(Calendar) /\ Cardinality(Calendar) = Slots
<1>1. Slots - 1 \in Int /\ 0 \in Int /\ ~(0 > Slots - 1) /\ (Slots - 1) - 0 + 1 = Slots
  BY BacktestAssumption
<1>2. IsFiniteSet(0..(Slots - 1))
  BY <1>1, FS_Interval
<1>3. Cardinality(0..(Slots - 1)) = IF 0 > Slots - 1 THEN 0 ELSE (Slots - 1) - 0 + 1
  BY <1>1, FS_Interval
<1>4. Cardinality(0..(Slots - 1)) = Slots
  BY <1>1, <1>3
<1> QED BY <1>2, <1>4 DEF Calendar

(* The frame is not empty: it lacks fewer slots than there are.                *)
LEMMA InitFrame ==
  Init => Frame
<1> SUFFICES ASSUME Init PROVE Frame
  OBVIOUS
<1>1. PICK g \in 0..Gaps : \E missing \in kSubset(g, Calendar) :
        idx = Sorted(Calendar \ missing)
  BY DEF Init
<1>2. PICK missing \in kSubset(g, Calendar) : idx = Sorted(Calendar \ missing)
  BY <1>1
<1> DEFINE S == Calendar \ missing
           c == Cardinality(S)
<1>3. missing \in SUBSET Calendar /\ Cardinality(missing) = g
  BY DEF kSubset
<1>4. g # Slots
  BY BacktestAssumption
<1>5. S \in SUBSET Calendar /\ S # {}
  <2>1. missing # Calendar
    BY <1>3, <1>4, CalendarCounts
  <2> QED BY <1>3, <2>1
<1>6. c \in Nat \ {0}
  <2>1. IsFiniteSet(S)
    BY CalendarCounts, <1>5, FS_Subset
  <2>2. c \in Nat
    BY <2>1, FS_CardinalityType
  <2>3. c # 0
    BY <1>5, <2>1, FS_EmptySet
  <2> QED BY <2>2, <2>3
<1> HIDE DEF S
<1>7. idx \in [1..c -> Calendar] /\ Rising(idx)
  <2>1. Sorted(S) \in [1..c -> Calendar] /\ Rising(Sorted(S))
    BY <1>5, SortedRises
  <2>2. idx = Sorted(S)
    BY <1>2 DEF S
  <2> QED BY <2>1, <2>2
<1> HIDE DEF c
<1>8. Size = c
  BY <1>6, <1>7, FramesEnds DEF Size
<1>9. window[1] \in Int /\ window[2] \in Int
  <2>1. window \in Windows(idx)
    BY DEF Init
  <2> QED BY <1>6, <1>7, <2>1, WindowsTyped
<1> QED BY <1>6, <1>7, <1>8, <1>9 DEF Frame

(* Before the first bar there is no trade to speak of.                         *)
LEMMA InitKeeps ==
  Init => IInv
<1> SUFFICES ASSUME Init PROVE IInv
  OBVIOUS
<1>1. Frame
  BY InitFrame
<1>2. Walk
  <2>1. CASE InWindow(idx, window) = {}
    <3>1. i = 0 /\ phase = "done"
      BY <2>1 DEF Init
    <3> QED BY <3>1 DEF Walk
  <2>2. CASE InWindow(idx, window) # {}
    <3>1. i = first_eval /\ phase = IF i # 0 /\ i <= last_eval THEN "manage" ELSE "done"
      BY <2>2 DEF Init
    <3>2. idx \in [1..Size -> Int] /\ Rising(idx) /\ Size \in Nat
          /\ window[1] \in Int /\ window[2] \in Int
      <4>1. \A ts \in Calendar : ts \in Int
        BY BacktestAssumption DEF Calendar
      <4> QED BY <1>1, <4>1 DEF Frame
    <3>3. first_eval \in Nat /\ last_eval \in Int
      BY <2>2, <3>2, EvaluatedBars DEF first_eval, last_eval
    <3> QED BY <2>2, <3>1, <3>3 DEF Walk
  <2> QED BY <2>1, <2>2
<1>3. Books
  <2>1. trades = <<>> /\ state = empty_state /\ metrics = EmptyMetrics
    BY DEF Init
  <2>2. trades \in Seq(Trade)
    BY <2>1
  <2>3. metrics.trade_count = 0
    BY <2>1 DEF EmptyMetrics
  <2> QED BY <2>1, <2>2, <2>3, StartsTyped DEF Books
<1>4. ~Holding /\ Len(trades) = 0
  BY DEF Init, Holding
<1> QED BY <1>1, <1>2, <1>3, <1>4 DEF IInv, Open, Memory, Past

(* Nothing changes the frame.                                                  *)
LEMMA FrameKeeps ==
  ASSUME Frame, idx' = idx, window' = window
  PROVE  Frame'
BY DEF Frame, Size, Rising, Calendar

(* What is past stays, as long as the trades do.                               *)
LEMMA PastKeeps ==
  ASSUME Past, idx' = idx, window' = window, trades' = trades
  PROVE  Past'
BY DEF Past, DoneRight, Followed, Spaced, LostFrom, is_weekend, Day, Size

(* What the hard cap lets be kept is held for fewer bars than it allows.       *)
LEMMA ManageKeeps ==
  IInv /\ Manage => IInv'
<1> SUFFICES ASSUME IInv, Manage PROVE IInv'
  OBVIOUS
<1> DEFINE s == Rolled(state, idx[IF i = first_eval THEN i ELSE i - 1], idx[i])
           held == i - position.opened_index
<1>1. /\ Frame /\ Walk /\ Books /\ Open /\ Memory /\ Past
      /\ phase = "manage" /\ phase' = "enter"
      /\ UNCHANGED <<idx, window, i, last_entry, metrics>>
  BY DEF IInv, Manage
<1>2. i \in first_eval..last_eval /\ i \in Int /\ InWindow(idx, window) # {}
      /\ first_eval' = first_eval /\ last_eval' = last_eval
  BY <1>1, SameEvals DEF Walk
<1>3. IsAccount(s) /\ s.streak = state.streak /\ s.last_exit = state.last_exit
  BY <1>1, Rolls DEF Books
<1> HIDE DEF s
<1>4. Frame'
  BY <1>1, FrameKeeps
<1>5. Walk'
  BY <1>1, <1>2 DEF Walk, InWindow
<1>6. ASSUME Holding => i - position.opened_index < max_position_hold_bars,
             state' = s, UNCHANGED <<position, last_exit, trades>>
      PROVE  IInv'
  <2>1. Books'
    BY <1>1, <1>3, <1>6 DEF Books
  <2>2. Past'
    BY <1>1, <1>6, PastKeeps
  <2>3. Memory'
    BY <1>1, <1>2, <1>3, <1>6 DEF Memory, LostFrom
  <2>4. Open'
    <3>1. Holding' <=> Holding
      BY <1>6 DEF Holding
    <3>2. CASE ~Holding
      BY <3>1, <3>2 DEF Open
    <3>3. CASE Holding
      <4>1. /\ i - position.opened_index < max_position_hold_bars
            /\ position.opened_index \in Int /\ max_position_hold_bars \in Nat
        BY <1>1, <1>6, <3>3, HoldingBars, BacktestAssumption
      <4>2. i - position.opened_index <= max_position_hold_bars
        BY <1>2, <4>1
      <4> QED BY <1>1, <1>2, <1>6, <3>1, <3>3, <4>1, <4>2
              DEF Open, is_weekend, Day, Spaced, LostFrom
    <3> QED BY <3>2, <3>3
  <2> QED BY <1>4, <1>5, <2>1, <2>2, <2>3, <2>4 DEF IInv
<1>7. ASSUME Holding, NEW sold \in MayExit(held) \ {"none"}, NEW pnl \in PnlOf(sold),
             ClosedAt(i, s, sold, pnl), last_exit' = i
      PROVE  IInv'
  <2>1. sold \in ExitReasons
    BY DEF MayExit, ExitReasons
  <2>2. position.opened_index <= i /\ i - position.opened_index <= max_position_hold_bars
    BY <1>1, <1>7 DEF Open
  <2> DEFINE n == Len(trades')
  <2>3. /\ IsAccount(state') /\ trades' \in Seq(Trade) /\ ~Holding' /\ Past'
        /\ n > 0 /\ trades'[n].closed_at = idx[i]
        /\ state'.last_exit = [sold |-> trades'[n].sold, pnl |-> trades'[n].pnl]
        /\ \A m \in 1..n : LostFrom(trades', m, n) => state'.streak >= n - m + 1
    BY <1>1, <1>2, <1>3, <1>7, <2>1, <2>2, CloseKeeps
  <2>4. Books'
    BY <1>1, <2>3 DEF Books
  <2>5. Open'
    BY <2>3 DEF Open
  <2>6. Memory'
    <3>1. /\ last_exit' \in first_eval'..last_eval' /\ last_exit' <= i'
          /\ trades'[n].closed_at = idx'[last_exit']
      BY <1>1, <1>2, <1>7, <2>3
    <3>2. \A m \in 1..n : LostFrom(trades, m, Len(trades))' => state'.streak >= n - m + 1
      BY <2>3 DEF LostFrom
    <3> QED BY <2>3, <3>1, <3>2 DEF Memory
  <2> QED BY <1>4, <1>5, <2>3, <2>4, <2>5, <2>6 DEF IInv
<1>8. "none" \in MayExit(held) /\ Holding => i - position.opened_index < max_position_hold_bars
  <2> SUFFICES ASSUME "none" \in MayExit(held), Holding
               PROVE  i - position.opened_index < max_position_hold_bars
    OBVIOUS
  <2>1. ~HardCap(held)
    BY DEF MayExit
  <2>2. position.opened_index \in Int /\ max_position_hold_bars \in Nat
    BY <1>1, HoldingBars, BacktestAssumption
  <2> QED BY <1>2, <2>1, <2>2 DEF HardCap
<1>9. \/ ~Holding /\ state' = s /\ UNCHANGED <<position, last_exit, trades>>
      \/ /\ Holding /\ "none" \in MayExit(held)
         /\ state' = s /\ UNCHANGED <<position, last_exit, trades>>
      \/ /\ Holding
         /\ \E sold \in MayExit(held) \ {"none"} : \E pnl \in PnlOf(sold) :
              ClosedAt(i, s, sold, pnl)
         /\ last_exit' = i
  BY DEF Manage, s
<1> HIDE DEF held
<1> QED BY <1>6, <1>7, <1>8, <1>9

(* The counters of a bar, and the step to the next one.                         *)
LEMMA NextBarWalks ==
  ASSUME Frame, Walk, phase = "enter", NextBar, idx' = idx, window' = window
  PROVE  /\ Walk' /\ i' = i + 1 /\ i \in first_eval..last_eval
         /\ phase' \in {"manage", "end"} /\ (phase' = "manage" => i' <= last_eval)
         /\ first_eval' = first_eval /\ last_eval' = last_eval
<1>1. first_eval \in Nat /\ last_eval \in 1..Size /\ Size \in Nat
  BY Evals DEF Frame
<1>2. i \in first_eval..last_eval /\ InWindow(idx, window) # {}
  BY DEF Walk
<1>3. /\ i' = i + 1 /\ phase' = (IF i = last_eval THEN "end" ELSE "manage")
      /\ first_eval' = first_eval /\ last_eval' = last_eval
  BY SameEvals DEF NextBar
<1>4. InWindow(idx, window)' # {}
  BY <1>2 DEF InWindow
<1> QED BY <1>1, <1>2, <1>3, <1>4 DEF Walk

(* One bar more, for the position that is open too.                            *)
LEMMA StayOutKeeps ==
  IInv /\ StayOut => IInv'
<1> SUFFICES ASSUME IInv, StayOut PROVE IInv'
  OBVIOUS
<1>1. /\ Frame /\ Walk /\ Books /\ Open /\ Memory /\ Past
      /\ phase = "enter" /\ state' = Aged /\ NextBar
      /\ UNCHANGED <<idx, window, position, last_exit, trades, metrics>>
  BY DEF IInv, StayOut
<1>2. /\ Walk' /\ i' = i + 1 /\ i \in first_eval..last_eval /\ phase' \in {"manage", "end"}
      /\ first_eval' = first_eval /\ last_eval' = last_eval
  BY <1>1, NextBarWalks
<1>3. IsAccount(Aged) /\ Aged.streak = state.streak /\ Aged.last_exit = state.last_exit
  BY <1>1, Ages DEF Books
<1>4. Books'
  BY <1>1, <1>3 DEF Books
<1>5. Memory'
  <2>1. first_eval \in Nat /\ last_eval \in Nat /\ i \in Int
    BY <1>1, Evals DEF Frame, Walk
  <2> QED BY <1>1, <1>2, <1>3, <2>1 DEF Memory, LostFrom
<1>6. Open'
  <2>1. Holding' <=> Holding
    BY <1>1 DEF Holding
  <2>2. CASE ~Holding
    BY <2>1, <2>2 DEF Open
  <2>3. CASE Holding
    <3>1. i - position.opened_index < max_position_hold_bars /\ i \in Int
          /\ position.opened_index \in Int /\ max_position_hold_bars \in Nat
      BY <1>1, <2>3, HoldingBars, BacktestAssumption DEF Open, Walk
    <3>2. (i + 1) - position.opened_index <= max_position_hold_bars
      BY <3>1
    <3>3. position.opened_index <= i /\ position.opened_index <= i + 1
      BY <1>1, <2>3, <3>1 DEF Open
    <3> QED BY <1>1, <1>2, <2>1, <2>3, <3>2, <3>3 DEF Open, is_weekend, Day, Spaced, LostFrom
  <2> QED BY <2>2, <2>3
<1>7. Frame' /\ Past'
  BY <1>1, FrameKeeps, PastKeeps
<1> QED BY <1>2, <1>4, <1>5, <1>6, <1>7 DEF IInv

(* The gates let a trade follow the last one after its number of bars only.     *)
LEMMA ApprovedSpaces ==
  ASSUME IInv, phase = "enter", Approved(Aged), Len(trades) > 0
  PROVE  last_exit <= i /\ Spaced(trades, Len(trades), i - last_exit)
<1> DEFINE n == Len(trades)
           t == trades[n]
           w == i - last_exit
<1>1. Frame /\ Walk /\ Books /\ Memory
  BY DEF IInv
<1>2. first_eval \in Nat /\ first_eval >= 1 /\ last_eval \in 1..Size /\ i \in Int
  BY <1>1, Evals DEF Walk
<1>3. /\ last_exit \in first_eval..last_eval /\ last_exit <= i
      /\ state.last_exit = [sold |-> t.sold, pnl |-> t.pnl]
      /\ \A m \in 1..n : LostFrom(trades, m, n) => state.streak >= n - m + 1
  BY <1>1 DEF Memory
<1>4. last_exit # 0 /\ last_exit \in Int /\ w \in Int
  BY <1>2, <1>3
<1>5. /\ Aged.since_exit = w /\ Aged.streak = state.streak /\ state.streak \in Nat
      /\ Aged.last_exit.sold = t.sold /\ Aged.last_exit.pnl = t.pnl
  BY <1>1, <1>3, <1>4, Ages DEF Books, BarsSince, IsAccount
<1>6. /\ ~(Aged.streak >= cooldown_after_consecutive_losses
             /\ Aged.since_exit < cooldown_after_consecutive_losses_bars)
      /\ ~(Aged.last_exit.sold = "sl" /\ Aged.since_exit < cooldown_after_stop_out_bars)
      /\ ~(Aged.last_exit.pnl < 0 /\ Aged.since_exit < reentry_after_loss_same_direction_bars)
  BY DEF Approved, Gates
<1>7. {cooldown_after_consecutive_losses, cooldown_after_consecutive_losses_bars,
       cooldown_after_stop_out_bars, reentry_after_loss_same_direction_bars} \subseteq Nat
  BY BacktestAssumption
<1>8. n \in Nat /\ n >= 1
  BY <1>1 DEF Books
<1> HIDE DEF t, w
<1>9. t.pnl < 0 => w >= reentry_after_loss_same_direction_bars
  BY <1>4, <1>5, <1>6, <1>7 DEF w
<1>10. t.sold = "sl" => w >= cooldown_after_stop_out_bars
  BY <1>4, <1>5, <1>6, <1>7 DEF w
<1>11. ASSUME LostFrom(trades, n - cooldown_after_consecutive_losses + 1, n)
       PROVE  w >= cooldown_after_consecutive_losses_bars
  <2> DEFINE c == cooldown_after_consecutive_losses
             low == n - c + 1
  <2>1. c \in Nat
    BY <1>7
  <2>2. state.streak >= c
    <3>1. CASE c = 0
      BY <1>5, <3>1
    <3>2. CASE c # 0
      <4>1. low \in low..n /\ low <= n
        BY <1>8, <2>1, <3>2
      <4>2. low \in 1..n
        BY <1>8, <1>11, <2>1, <4>1 DEF LostFrom
      <4>3. state.streak >= n - low + 1
        BY <1>3, <1>11, <4>2
      <4> QED BY <1>5, <1>8, <2>1, <4>3
    <3> QED BY <3>1, <3>2
  <2> QED BY <1>4, <1>5, <1>6, <1>7, <2>2 DEF w
<1> QED BY <1>3, <1>9, <1>10, <1>11 DEF Spaced, t, w

(* An entry waits, is not on the weekend, and is filled inside the window.     *)
LEMMA EnterKeeps ==
  IInv /\ Enter => IInv'
<1> SUFFICES ASSUME IInv, Enter PROVE IInv'
  OBVIOUS
<1>1. /\ Frame /\ Walk /\ Books /\ Open /\ Memory /\ Past
      /\ phase = "enter" /\ ~Holding /\ Approved(Aged) /\ i + 1 <= last_eval /\ NextBar
      /\ position' = [opened_at |-> idx[i] + 1, opened_index |-> i + 1]
      /\ state' = [Aged EXCEPT !.open_positions = 1, !.trades_today = @ + 1, !.since_entry = 0]
      /\ UNCHANGED <<idx, window, last_exit, trades, metrics>>
  BY DEF IInv, Enter, Fillable
<1>2. /\ Walk' /\ i' = i + 1 /\ i \in first_eval..last_eval /\ phase' \in {"manage", "end"}
      /\ first_eval' = first_eval /\ last_eval' = last_eval
  BY <1>1, NextBarWalks
<1>3. IsAccount(Aged) /\ Aged.streak = state.streak /\ Aged.last_exit = state.last_exit
      /\ Aged.is_weekend = is_weekend(idx[i])
  BY <1>1, Ages DEF Books
<1>4. IsAccount(state') /\ state'.streak = state.streak /\ state'.last_exit = state.last_exit
  <2> DEFINE today == Aged.trades_today + 1
  <2>1. state' = [Aged EXCEPT !.open_positions = 1, !.trades_today = today, !.since_entry = 0]
    BY <1>1, <1>3, AccountFields DEF IsAccount
  <2> HIDE DEF today
  <2> QED BY <1>3, <2>1, AccountFields DEF IsAccount
<1>5. Books'
  BY <1>1, <1>4 DEF Books
<1>6. first_eval \in Nat /\ last_eval \in Nat /\ i \in Int
  BY <1>1, Evals DEF Frame, Walk
<1>7. Memory'
  BY <1>1, <1>2, <1>4, <1>6 DEF Memory, LostFrom
<1>8. Open'
  <2>1. /\ position'.opened_index = i + 1 /\ position'.opened_at = idx[i] + 1
        /\ i + 1 \in (first_eval + 1)..last_eval
    BY <1>1, <1>2, <1>6
  <2>2. ~is_weekend(idx[(i + 1) - 1])
    BY <1>1, <1>3, <1>6 DEF Approved
  <2>3. Len(trades) > 0 => last_exit < i + 1 /\ Spaced(trades, Len(trades), (i + 1) - 1 - last_exit)
    <3> SUFFICES ASSUME Len(trades) > 0
                 PROVE  last_exit < i + 1 /\ Spaced(trades, Len(trades), (i + 1) - 1 - last_exit)
      OBVIOUS
    <3>1. last_exit <= i /\ Spaced(trades, Len(trades), i - last_exit)
      BY <1>1, ApprovedSpaces
    <3>2. last_exit \in Int
      BY <1>1, <1>6 DEF Memory
    <3>3. (i + 1) - 1 - last_exit = i - last_exit
      BY <1>6, <3>2
    <3> QED BY <1>6, <3>1, <3>2, <3>3
  <2>4. (i + 1) - (i + 1) <= max_position_hold_bars
    BY <1>6, BacktestAssumption
  <2> QED BY <1>1, <1>2, <1>6, <2>1, <2>2, <2>3, <2>4 DEF Open, is_weekend, Day, Spaced, LostFrom
<1>9. Frame' /\ Past'
  BY <1>1, FrameKeeps, PastKeeps
<1> QED BY <1>2, <1>5, <1>7, <1>8, <1>9 DEF IInv

(* What is closed at the end was held no longer.                               *)
LEMMA FinishKeeps ==
  IInv /\ Finish => IInv'
<1> SUFFICES ASSUME IInv, Finish PROVE IInv'
  OBVIOUS
<1>1. /\ Frame /\ Walk /\ Books /\ Open /\ Memory /\ Past
      /\ phase = "end" /\ phase' = "done"
      /\ metrics' = compute_metrics(trades', state'.equity, curve', weeks')
      /\ UNCHANGED <<idx, window, i, last_exit>>
  BY DEF IInv, Finish
<1>2. Frame' /\ Walk' /\ Memory'
  <2>1. Walk'
    BY <1>1 DEF Walk
  <2> QED BY <1>1, <2>1, FrameKeeps DEF Memory
<1>3. trades' \in Seq(Trade) => metrics'.trade_count \in Nat
  BY <1>1 DEF compute_metrics, EmptyMetrics
<1>4. CASE ~Holding /\ UNCHANGED <<trades, state, position>>
  <2>1. Books'
    BY <1>1, <1>3, <1>4 DEF Books
  <2>2. Past'
    BY <1>1, <1>4, PastKeeps
  <2>3. ~Holding'
    BY <1>4 DEF Holding
  <2> QED BY <1>2, <2>1, <2>2, <2>3 DEF IInv, Open
<1>5. ASSUME Holding, NEW pnl \in PnlOf("reconciled"),
             ClosedAt(last_eval, state, "reconciled", pnl)
      PROVE  IInv'
  <2>1. "reconciled" \in ExitReasons
    BY DEF ExitReasons
  <2>2. /\ first_eval <= last_eval /\ i = last_eval + 1
        /\ first_eval \in Nat /\ last_eval \in Nat /\ last_eval \in first_eval..last_eval
    <3>1. first_eval \in Nat /\ last_eval \in 1..Size /\ Size \in Nat
      BY <1>1, Evals DEF Frame
    <3>2. first_eval <= last_eval /\ i = last_eval + 1
      BY <1>1 DEF Walk
    <3> QED BY <3>1, <3>2
  <2>3. position.opened_index <= last_eval
        /\ last_eval - position.opened_index <= max_position_hold_bars
    <3>1. position.opened_index \in Int /\ position.opened_index <= last_eval
      BY <1>1, <1>5, HoldingBars
    <3>2. i - position.opened_index <= max_position_hold_bars
      BY <1>1, <1>5 DEF Open
    <3> QED BY <2>2, <3>1, <3>2, BacktestAssumption
  <2>4. IsAccount(state)
    BY <1>1 DEF Books
  <2>5. IsAccount(state') /\ trades' \in Seq(Trade) /\ ~Holding' /\ Past'
    BY <1>1, <1>5, <2>1, <2>2, <2>3, <2>4, CloseKeeps
  <2> QED BY <1>2, <1>3, <2>5 DEF IInv, Books, Open
<1>6. \/ ~Holding /\ UNCHANGED <<trades, state, position>>
      \/ Holding /\ \E pnl \in PnlOf("reconciled") : ClosedAt(last_eval, state, "reconciled", pnl)
  BY DEF Finish
<1> QED BY <1>4, <1>5, <1>6

(* Nothing happens.                                                            *)
LEMMA StutterKeeps ==
  IInv /\ UNCHANGED vars => IInv'
<1> SUFFICES ASSUME IInv, UNCHANGED vars PROVE IInv'
  OBVIOUS
<1>1. /\ Frame /\ Walk /\ Books /\ Open /\ Memory /\ Past
      /\ UNCHANGED <<idx, window, i, phase, state, position, last_exit, trades, metrics>>
  BY DEF IInv, vars
<1>2. first_eval' = first_eval /\ last_eval' = last_eval
  BY <1>1, SameEvals
<1>3. Frame' /\ Past'
  BY <1>1, FrameKeeps, PastKeeps
<1>4. Walk'
  BY <1>1, <1>2 DEF Walk, InWindow
<1>5. Books'
  BY <1>1 DEF Books
<1>6. Open'
  BY <1>1, <1>2 DEF Open, Holding, is_weekend, Day, Spaced, LostFrom
<1>7. Memory'
  BY <1>1, <1>2 DEF Memory, LostFrom
<1> QED BY <1>3, <1>4, <1>5, <1>6, <1>7 DEF IInv

(* Every bar of the loop, every trade it has made, for every frame and window. *)
THEOREM BacktestInvariant ==
  Spec => []IInv
<1>1. IInv /\ [Next]_vars => IInv'
  BY ManageKeeps, StayOutKeeps, EnterKeeps, FinishKeeps, StutterKeeps DEF Next
<1> QED BY InitKeeps, <1>1, PTL DEF Spec

-----------------------------------------------------------------------------
(* The properties. *)

(* Whatever the frame and the window, the loop stays on the window's bars, holds *)
(* a position filled in one of them, and returns trades made of what run()     *)
(* puts in a trade.                                                            *)
THEOREM BacktestTyped ==
  Spec => []TypeOK
<1>1. IInv => TypeOK
  <2> SUFFICES ASSUME IInv PROVE TypeOK
    OBVIOUS
  <2>1. Walk /\ Books /\ Open
    BY DEF IInv
  <2>2. state.open_positions \in 0..1
    BY <2>1 DEF Books, IsAccount
  <2>3. Holding => position.opened_index \in (first_eval + 1)..last_eval
    BY <2>1 DEF Open
  <2> QED BY <2>1, <2>2, <2>3 DEF TypeOK, Walk, Books
<1> QED BY BacktestInvariant, <1>1, PTL

(* The times of the frame are numbers.                                         *)
LEMMA FrameOfInts ==
  ASSUME Frame
  PROVE  /\ Size \in Nat \ {0} /\ idx \in [1..Size -> Int] /\ Rising(idx)
         /\ \A k \in 1..Size : idx[k] \in Nat
<1>1. \A ts \in Calendar : ts \in Int /\ ts \in Nat
  BY BacktestAssumption DEF Calendar
<1> QED BY <1>1 DEF Frame

(* No trade is held for more bars than the hard cap allows: of every trade the  *)
(* loop's index bounds the bars between fill and close, gaps in the data or not.*)
THEOREM HoldCapped ==
  Spec => []HoldIsCapped
<1>1. IInv => HoldIsCapped
  <2> SUFFICES ASSUME IInv, NEW t \in ToSet(trades)
               PROVE  BarsFrom(t.opened_at, t.closed_at + 1) <= max_position_hold_bars + 1
    BY DEF HoldIsCapped
  <2>1. Frame /\ Past /\ Books
    BY DEF IInv
  <2>2. PICK k \in 1..Len(trades) : t = trades[k]
    BY <2>1 DEF ToSet, Books
  <2>3. PICK e, x \in 1..Size :
          /\ e < x /\ x - e <= max_position_hold_bars + 1
          /\ t.opened_at = idx[e] + 1 /\ t.closed_at = idx[x]
    BY <2>1, <2>2 DEF Past, DoneRight
  <2>4. e <= x
    BY <2>1, <2>3, FrameOfInts
  <2>5. BarsFrom(idx[e] + 1, idx[x] + 1) = x - e
    BY <2>1, <2>4, FrameOfInts, BarsHeld
  <2> QED BY <2>3, <2>5
<1> QED BY BacktestInvariant, <1>1, PTL

(* A loss counted is a loss.                                                   *)
LEMMA LossCounted ==
  ASSUME NEW m, LossesIn({m}) = 1
  PROVE  trades[m].pnl < 0
<1> SUFFICES ASSUME ~(trades[m].pnl < 0) PROVE FALSE
  OBVIOUS
<1>1. {k \in {m} : trades[k].pnl < 0} = {}
  OBVIOUS
<1> QED BY <1>1, FS_EmptySet DEF LossesIn

(* The discipline, of every two trades that follow each other: the gates read a  *)
(* streak and a last exit that are those of the trades, in bars of the frame.   *)
THEOREM NoneAvenged ==
  Spec => []NoRevenge
<1>1. ASSUME IInv, NEW t \in ToSet(trades) PROVE ~InWeekend(t.opened_at - 1)
  <2>1. Frame /\ DoneRight(t)
    BY <1>1 DEF IInv, Past, Books, ToSet
  <2>2. PICK e \in 1..Size : t.opened_at = idx[e] + 1 /\ ~is_weekend(idx[e])
    BY <2>1 DEF DoneRight
  <2>3. idx[e] \in Nat /\ t.opened_at - 1 = idx[e]
    BY <2>1, <2>2, FrameOfInts
  <2> QED BY <2>2, <2>3, WeekendSpan
<1>2. IInv => NoRevenge
  <2> SUFFICES ASSUME IInv, NEW k \in ClosedTrades \ {1}
               PROVE  LET t == trades[k]
                          last == trades[k - 1]
                          waited == BarsFrom(last.closed_at, t.opened_at - 1)
                      IN /\ last.closed_at < t.opened_at
                         /\ last.pnl < 0 => waited >= reentry_after_loss_same_direction_bars
                         /\ last.sold = "sl" => waited >= cooldown_after_stop_out_bars
                         /\ Streak(k - 1) => waited >= cooldown_after_consecutive_losses_bars
    BY <1>1 DEF NoRevenge
  <2>1. Frame /\ Past /\ Books
    BY DEF IInv
  <2>2. k \in 1..Len(trades) /\ k - 1 \in 1..(Len(trades) - 1) /\ k - 1 \in Int /\ (k - 1) + 1 = k
    BY <2>1 DEF ClosedTrades, Books
  <2> DEFINE j == k - 1
  <2>3. PICK y, e \in 1..Size :
          /\ y <= e /\ trades[j].closed_at = idx[y] /\ trades[k].opened_at = idx[e] + 1
          /\ Spaced(trades, j, e - y)
    <3>1. Followed(trades, j) /\ j + 1 = k
      BY <2>1, <2>2 DEF Past
    <3> HIDE DEF j
    <3> QED BY <3>1 DEF Followed
  <2>4. idx[y] \in Nat /\ idx[e] \in Nat /\ idx[y] <= idx[e]
    <3>1. /\ idx[y] \in Nat /\ idx[e] \in Nat /\ DOMAIN idx = 1..Size /\ Rising(idx)
          /\ y \in Int /\ e \in Int
      BY <2>1, FrameOfInts
    <3>2. y < e => idx[y] < idx[e]
      BY <3>1 DEF Rising
    <3> QED BY <2>3, <3>1, <3>2
  <2>5. trades[k].opened_at - 1 = idx[e]
    BY <2>3, <2>4
  <2>6. BarsFrom(idx[y], idx[e]) = e - y
    BY <2>1, <2>3, FrameOfInts, BarsUpTo
  <2>8. ASSUME Streak(j) PROVE e - y >= cooldown_after_consecutive_losses_bars
    <3>1. trades[j].pnl < 0
      <4>1. LossesIn(j..j) = 1
        BY <2>8 DEF Streak
      <4>2. j..j = {j}
        BY <2>2
      <4> QED BY <4>1, <4>2, LossCounted
    <3>2. LostFrom(trades, j - cooldown_after_consecutive_losses + 1, j)
      <4> SUFFICES ASSUME NEW m \in (j - cooldown_after_consecutive_losses + 1)..j
                   PROVE  m >= 1 /\ trades[m].pnl < 0
        BY DEF LostFrom
      <4>1. m \in ClosedTrades /\ LossesIn({m}) = 1
        BY <2>8 DEF Streak
      <4> QED BY <2>1, <4>1, LossCounted DEF ClosedTrades, Books
    <3> QED BY <2>3, <3>1, <3>2 DEF Spaced
  <2> HIDE DEF j
  <2>9. /\ trades[j].pnl < 0 => e - y >= reentry_after_loss_same_direction_bars
        /\ trades[j].sold = "sl" => e - y >= cooldown_after_stop_out_bars
    BY <2>3 DEF Spaced
  <2>10. trades[j].closed_at < trades[k].opened_at
    BY <2>3, <2>4
  <2>11. BarsFrom(trades[j].closed_at, trades[k].opened_at - 1) = e - y
    BY <2>3, <2>5, <2>6
  <2> QED BY <2>8, <2>9, <2>10, <2>11 DEF j
<1> QED BY BacktestInvariant, <1>2, PTL

(* However many folds the data holds, no bar is traded in two tests or in a test  *)
(* and its training, and a run's trades are opened and closed in its window.     *)
THEOREM FoldsApart ==
  Spec => []FoldsAreApart
<1>1. IInv => FoldsAreApart
  <2> SUFFICES ASSUME IInv PROVE FoldsAreApart
    OBVIOUS
  <2>1. Frame /\ Past /\ Books
    BY DEF IInv
  <2>2. \A k, m \in DOMAIN FoldsOf(idx) :
          /\ k # m => HeldIn(FoldsOf(idx)[k].test) \cap HeldIn(FoldsOf(idx)[m].test) = {}
          /\ HeldIn(FoldsOf(idx)[k].train) \cap HeldIn(FoldsOf(idx)[k].test) = {}
    <3>1. Size \in Nat /\ Size >= 1 /\ idx \in [1..Size -> Calendar]
      BY <2>1 DEF Frame
    <3> QED BY <3>1, TestsAreApart
  <2>3. ASSUME NEW t \in ToSet(trades)
        PROVE  window[1] < t.opened_at /\ t.opened_at <= t.closed_at /\ t.closed_at <= window[2]
    <3>1. PICK k \in 1..Len(trades) : t = trades[k]
      BY <2>1 DEF ToSet, Books
    <3>2. PICK e, x \in 1..Size :
            /\ e < x /\ window[1] <= idx[e] /\ idx[x] <= window[2]
            /\ t.opened_at = idx[e] + 1 /\ t.closed_at = idx[x]
      BY <2>1, <3>1 DEF Past, DoneRight
    <3>3. /\ idx[e] \in Nat /\ idx[x] \in Nat /\ window[1] \in Int /\ window[2] \in Int
          /\ idx[e] < idx[x]
      <4>1. Rising(idx) /\ DOMAIN idx = 1..Size
        BY <2>1 DEF Frame
      <4>2. idx[e] < idx[x]
        BY <3>2, <4>1 DEF Rising
      <4> QED BY <2>1, <4>2, FrameOfInts DEF Frame
    <3> QED BY <3>2, <3>3
  <2> HIDE DEF FoldsOf
  <2> QED BY <2>2, <2>3 DEF FoldsAreApart
<1> QED BY BacktestInvariant, <1>1, PTL

-----------------------------------------------------------------------------
(* The account against the trades.  First what it is of a list of trades `ts`  *)
(* and of the times `es` of the entries, at the time `now`.                    *)

OnDay(ts, day) == {k \in DOMAIN ts : Day(ts[k].closed_at) = day}
InTheWeek(ts, week) == {k \in DOMAIN ts : Week(ts[k].closed_at) = week}
Losers(ts, S) == {k \in S : ts[k].pnl < 0}
Losing(ts) == {k \in DOMAIN ts : LostFrom(ts, k, Len(ts))}
Highs(ts) == {PnlSum(ts, 1..k) : k \in 0..Len(ts)}
DecidedOn(es, day) == {e \in es : Day(e - 1) = day}
LastOf(ts) == IF Len(ts) = 0 THEN NoExit
              ELSE [sold |-> ts[Len(ts)].sold, pnl |-> ts[Len(ts)].pnl]

Money(s, ts) ==
  /\ s.equity = PnlSum(ts, 1..Len(ts))
  /\ s.equity_high \in Highs(ts) /\ \A h \in Highs(ts) : h <= s.equity_high
  /\ s.drawdown = s.equity_high - s.equity
Lately(s, ts) ==
  /\ s.streak = Cardinality(Losing(ts))
  /\ s.last_exit = LastOf(ts)
Daily(s, now, ts, es) ==
  /\ s.day_pnl = PnlSum(ts, OnDay(ts, Day(now)))
  /\ s.week_pnl = PnlSum(ts, InTheWeek(ts, Week(now)))
  /\ s.losses_today = Cardinality(Losers(ts, OnDay(ts, Day(now))))
  /\ s.trades_today = Cardinality(DecidedOn(es, Day(now)))

(* What has happened has happened by then.                                     *)
Elapsed(now, ts, es) ==
  /\ \A k \in DOMAIN ts : ts[k].closed_at <= now
  /\ \A e \in es : e \in Nat /\ e >= 1 /\ e - 1 <= now

-----------------------------------------------------------------------------

(* A later hour is on no earlier day, and in no earlier week.                  *)
LEMMA LaterDays ==
  ASSUME NEW a \in Nat, NEW b \in Nat, a <= b
  PROVE  /\ Day(a) \in Nat /\ Day(b) \in Nat /\ Day(a) <= Day(b)
         /\ Week(a) \in Nat /\ Week(b) \in Nat /\ Week(a) <= Week(b)
<1>1. ASSUME NEW m \in Nat \ {0}, NEW x \in Nat, NEW y \in Nat, x <= y
      PROVE  x \div m \in Nat /\ y \div m \in Nat /\ x \div m <= y \div m
  <2> DEFINE p == x \div m
             q == y \div m
  <2>1. /\ p \in Nat /\ x = m * p + (x % m) /\ x % m \in 0..(m - 1)
        /\ q \in Nat /\ y = m * q + (y % m) /\ y % m \in 0..(m - 1)
    BY Divided
  <2> HIDE DEF p, q
  <2>2. p <= q
    <3> SUFFICES ASSUME q < p PROVE FALSE
      BY <2>1
    <3>1. q * m + m <= p * m
      BY <2>1, Apart
    <3> QED BY <1>1, <2>1, <3>1
  <2> QED BY <2>1, <2>2 DEF p, q
<1>2. DayBars \in Nat \ {0} /\ WeekDays \in Nat \ {0}
  BY BacktestAssumption
<1>3. Day(a) \in Nat /\ Day(b) \in Nat /\ Day(a) <= Day(b)
  BY <1>1, <1>2 DEF Day
<1>4. Day(a) \div WeekDays \in Nat /\ Day(b) \div WeekDays \in Nat
      /\ Day(a) \div WeekDays <= Day(b) \div WeekDays
  BY <1>1, <1>2, <1>3
<1> QED BY <1>3, <1>4 DEF Week

(* A trade of the list: its result is a number, its times are hours.           *)
LEMMA TradesAre ==
  ASSUME NEW ts \in Seq(Trade)
  PROVE  /\ Len(ts) \in Nat /\ DOMAIN ts = 1..Len(ts) /\ IsFiniteSet(DOMAIN ts)
         /\ \A k \in DOMAIN ts : /\ ts[k] \in Trade
                                 /\ ts[k].pnl \in Int /\ ts[k].pnl # 0
                                 /\ ts[k].closed_at \in Nat /\ ts[k].closed_at \in Calendar
                                 /\ ts[k].opened_at \in Nat
<1>1. Len(ts) \in Nat /\ DOMAIN ts = 1..Len(ts)
  OBVIOUS
<1>2. IsFiniteSet(1..Len(ts))
  BY <1>1, FS_Interval
<1>3. \A k \in DOMAIN ts : ts[k] \in Trade
  BY <1>1
<1>4. (\A p \in Outcomes : p \in Int /\ p # 0) /\ \A c \in Calendar : c \in Nat
  BY BacktestAssumption DEF Calendar
<1>5. \A t \in Trade : t.pnl \in Outcomes /\ t.closed_at \in Calendar /\ t.opened_at \in Nat
  BY DEF Trade
<1> QED BY <1>1, <1>2, <1>3, <1>4, <1>5

(* Sets of trades of a list are finite, and their sums are numbers.            *)
LEMMA SetsOfTrades ==
  ASSUME NEW ts \in Seq(Trade), NEW S \in SUBSET DOMAIN ts
  PROVE  /\ IsFiniteSet(S) /\ Cardinality(S) \in Nat
         /\ \A k \in S : ts[k].pnl \in Int
         /\ PnlSum(ts, S) \in Int
<1>1. IsFiniteSet(S) /\ \A k \in S : ts[k].pnl \in Int
  BY TradesAre, FS_Subset
<1> QED BY <1>1, PnlType, FS_CardinalityType

(* One trade more.                                                             *)
Extended(ts, t, us) ==
  LET n == Len(ts)
  IN /\ us \in Seq(Trade) /\ Len(us) = n + 1 /\ us[n + 1] = t
     /\ DOMAIN us = DOMAIN ts \cup {n + 1} /\ n + 1 \notin DOMAIN ts
     /\ \A k \in DOMAIN ts : us[k] = ts[k]
     /\ \A S \in SUBSET DOMAIN ts :
          /\ PnlSum(us, S) = PnlSum(ts, S)
          /\ PnlSum(us, S \cup {n + 1}) = PnlSum(ts, S) + t.pnl
          /\ Losers(us, S) = Losers(ts, S)
          /\ Losers(us, S \cup {n + 1}) =
               Losers(ts, S) \cup (IF t.pnl < 0 THEN {n + 1} ELSE {})

(* One trade more: what the list of trades is made of then.                    *)
LEMMA OneMore ==
  ASSUME NEW ts \in Seq(Trade), NEW t \in Trade
  PROVE  Extended(ts, t, Append(ts, t))
<1> DEFINE us == Append(ts, t)
           n == Len(ts)
<1>1. n \in Nat /\ DOMAIN ts = 1..n
  OBVIOUS
<1>2. /\ us \in Seq(Trade) /\ Len(us) = n + 1 /\ us[n + 1] = t
      /\ \A k \in 1..n : us[k] = ts[k]
  OBVIOUS
<1> HIDE DEF us, n
<1>3. DOMAIN us = DOMAIN ts \cup {n + 1} /\ n + 1 \notin DOMAIN ts
  <2>1. DOMAIN us = 1..(n + 1)
    BY <1>2
  <2> QED BY <1>1, <2>1
<1>4. ASSUME NEW S \in SUBSET DOMAIN ts
      PROVE  /\ PnlSum(us, S) = PnlSum(ts, S)
             /\ PnlSum(us, S \cup {n + 1}) = PnlSum(ts, S) + t.pnl
             /\ Losers(us, S) = Losers(ts, S)
             /\ Losers(us, S \cup {n + 1}) =
                  Losers(ts, S) \cup (IF t.pnl < 0 THEN {n + 1} ELSE {})
  <2>1. \A k \in S : us[k] = ts[k]
    BY <1>1, <1>2
  <2>2. IsFiniteSet(S) /\ (\A k \in S : us[k].pnl = ts[k].pnl) /\ \A k \in S : us[k].pnl \in Int
    BY <2>1, SetsOfTrades
  <2>3. PnlSum(us, S) = PnlSum(ts, S)
    BY <2>2, PnlEqual
  <2>4. n + 1 \notin S /\ us[n + 1].pnl \in Int /\ us[n + 1].pnl = t.pnl
    BY <1>2, <1>3, TradesAre
  <2>5. PnlSum(us, S \cup {n + 1}) = PnlSum(us, S) + us[n + 1].pnl
    BY <2>2, <2>4, PnlWith
  <2>6. Losers(us, S) = Losers(ts, S)
    BY <2>1 DEF Losers
  <2>7. Losers(us, S \cup {n + 1}) = Losers(ts, S) \cup (IF t.pnl < 0 THEN {n + 1} ELSE {})
    BY <1>2, <2>1 DEF Losers
  <2> QED BY <2>3, <2>4, <2>5, <2>6, <2>7
<1> HIDE DEF us
<1>5. Extended(ts, t, us)
  <2> DEFINE Sums(S) == /\ PnlSum(us, S) = PnlSum(ts, S)
                        /\ PnlSum(us, S \cup {n + 1}) = PnlSum(ts, S) + t.pnl
                        /\ Losers(us, S) = Losers(ts, S)
                        /\ Losers(us, S \cup {n + 1}) =
                             Losers(ts, S) \cup (IF t.pnl < 0 THEN {n + 1} ELSE {})
  <2>1. \A S \in SUBSET DOMAIN ts : Sums(S)
    BY <1>4
  <2>2. \A k \in DOMAIN ts : us[k] = ts[k]
    BY <1>1, <1>2
  <2> HIDE DEF Sums
  <2>3. Extended(ts, t, us) <=> 
          /\ us \in Seq(Trade) /\ Len(us) = n + 1 /\ us[n + 1] = t
          /\ DOMAIN us = DOMAIN ts \cup {n + 1} /\ n + 1 \notin DOMAIN ts
          /\ \A k \in DOMAIN ts : us[k] = ts[k]
          /\ \A S \in SUBSET DOMAIN ts : Sums(S)
    BY Zenon DEF Extended, n, Sums
  <2> QED BY <1>2, <1>3, <2>1, <2>2, <2>3
<1> QED BY <1>5 DEF us

-----------------------------------------------------------------------------
(* What the steps do to the account, field by field.                           *)

SameMoney(s, u) ==
  u.equity = s.equity /\ u.equity_high = s.equity_high /\ u.drawdown = s.drawdown
SameLately(s, u) == u.streak = s.streak /\ u.last_exit = s.last_exit
SameDaily(s, u) ==
  /\ u.day_pnl = s.day_pnl /\ u.week_pnl = s.week_pnl
  /\ u.losses_today = s.losses_today /\ u.trades_today = s.trades_today

(* The rollovers zero the sums of the day and of the week, and nothing else.   *)
LEMMA RollsTo ==
  ASSUME NEW s, IsAccount(s), NEW was, NEW ts
  PROVE  LET u == Rolled(s, was, ts)
         IN /\ IsAccount(u)
            /\ SameMoney(s, u) /\ SameLately(s, u) /\ u.open_positions = s.open_positions
            /\ u.day_pnl = IF Day(ts) # Day(was) THEN 0 ELSE s.day_pnl
            /\ u.losses_today = IF Day(ts) # Day(was) THEN 0 ELSE s.losses_today
            /\ u.trades_today = IF Day(ts) # Day(was) THEN 0 ELSE s.trades_today
            /\ u.week_pnl = IF Week(ts) # Week(was) THEN 0 ELSE s.week_pnl
<1>1. ASSUME NEW u, IsAccount(u)
      PROVE  /\ IsAccount(roll_day(u)) /\ SameMoney(u, roll_day(u)) /\ SameLately(u, roll_day(u))
             /\ roll_day(u).open_positions = u.open_positions
             /\ roll_day(u).day_pnl = 0 /\ roll_day(u).losses_today = 0
             /\ roll_day(u).trades_today = 0 /\ roll_day(u).week_pnl = u.week_pnl
  BY <1>1, AccountFields DEF roll_day, IsAccount, SameMoney, SameLately
<1>2. ASSUME NEW u, IsAccount(u)
      PROVE  /\ IsAccount(roll_week(u)) /\ SameMoney(u, roll_week(u)) /\ SameLately(u, roll_week(u))
             /\ roll_week(u).open_positions = u.open_positions
             /\ roll_week(u).day_pnl = u.day_pnl /\ roll_week(u).losses_today = u.losses_today
             /\ roll_week(u).trades_today = u.trades_today /\ roll_week(u).week_pnl = 0
  BY <1>2, AccountFields DEF roll_week, IsAccount, SameMoney, SameLately
<1> DEFINE d == IF Day(ts) # Day(was) THEN roll_day(s) ELSE s
<1>3. /\ IsAccount(d) /\ SameMoney(s, d) /\ SameLately(s, d)
      /\ d.open_positions = s.open_positions
      /\ d.day_pnl = IF Day(ts) # Day(was) THEN 0 ELSE s.day_pnl
      /\ d.losses_today = IF Day(ts) # Day(was) THEN 0 ELSE s.losses_today
      /\ d.trades_today = IF Day(ts) # Day(was) THEN 0 ELSE s.trades_today
      /\ d.week_pnl = s.week_pnl
  BY <1>1 DEF SameMoney, SameLately
<1>4. Rolled(s, was, ts) = IF Week(ts) # Week(was) THEN roll_week(d) ELSE d
  BY DEF Rolled
<1> HIDE DEF d
<1> QED BY <1>2, <1>3, <1>4 DEF SameMoney, SameLately

ClosedTo(s, pnl, sold, u) ==
  /\ u.equity = s.equity + pnl
  /\ u.equity_high = Max({s.equity_high, s.equity + pnl})
  /\ u.drawdown = u.equity_high - u.equity
  /\ u.streak = (IF pnl < 0 THEN s.streak + 1 ELSE 0)
  /\ u.last_exit = [sold |-> sold, pnl |-> pnl]
  /\ u.day_pnl = s.day_pnl + pnl /\ u.week_pnl = s.week_pnl + pnl
  /\ u.losses_today = (IF pnl < 0 THEN s.losses_today + 1 ELSE s.losses_today)
  /\ u.trades_today = s.trades_today /\ u.open_positions = 0

(* on_trade_closed, field by field.                                            *)
LEMMA ClosesTo ==
  ASSUME NEW s, IsAccount(s), NEW pnl, NEW sold
  PROVE  ClosedTo(s, pnl, sold, update_after_close(s, pnl, sold))
<1> DEFINE equity == s.equity + pnl
           high == Max({s.equity_high, equity})
           exit == [sold |-> sold, pnl |-> pnl]
           streak == IF pnl < 0 THEN s.streak + 1 ELSE 0
           lost == IF pnl < 0 THEN s.losses_today + 1 ELSE s.losses_today
           fall == high - equity
           day == s.day_pnl + pnl
           week == s.week_pnl + pnl
           u == [s EXCEPT !.equity = equity, !.equity_high = high, !.drawdown = fall,
                          !.day_pnl = day, !.week_pnl = week, !.open_positions = 0,
                          !.losses_today = lost, !.streak = streak,
                          !.since_exit = 0, !.last_exit = exit]
<1>1. update_after_close(s, pnl, sold) = u
  BY AccountFields DEF update_after_close, IsAccount
<1> HIDE DEF equity, high, exit, streak, lost, fall, day, week
<1>2. /\ u.equity = equity /\ u.equity_high = high /\ u.drawdown = fall
      /\ u.streak = streak /\ u.last_exit = exit /\ u.day_pnl = day /\ u.week_pnl = week
      /\ u.losses_today = lost /\ u.trades_today = s.trades_today /\ u.open_positions = 0
  BY AccountFields DEF IsAccount
<1> HIDE DEF u
<1>3. u.drawdown = u.equity_high - u.equity
  BY <1>2 DEF fall
<1>4. ClosedTo(s, pnl, sold, u)
  BY <1>2, <1>3 DEF ClosedTo, equity, high, exit, streak, lost, day, week
<1> QED BY <1>1, <1>4

(* The counters of bars, and nothing else.                                     *)
LEMMA AgesTo ==
  ASSUME IsAccount(state)
  PROVE  /\ IsAccount(Aged)
         /\ SameMoney(state, Aged) /\ SameLately(state, Aged) /\ SameDaily(state, Aged)
         /\ Aged.open_positions = state.open_positions
         /\ Aged.is_weekend = is_weekend(idx[i])
         /\ Aged.since_exit = BarsSince(last_exit) /\ Aged.since_entry = BarsSince(last_entry)
<1> DEFINE w == is_weekend(idx[i])
           x == BarsSince(last_exit)
           e == BarsSince(last_entry)
<1>1. Aged = [state EXCEPT !.is_weekend = w, !.since_exit = x, !.since_entry = e]
  BY DEF Aged
<1> HIDE DEF w, x, e
<1>2. /\ SameMoney(state, Aged) /\ SameLately(state, Aged) /\ SameDaily(state, Aged)
      /\ Aged.open_positions = state.open_positions
      /\ Aged.is_weekend = w /\ Aged.since_exit = x /\ Aged.since_entry = e
  BY <1>1, AccountFields DEF IsAccount, SameMoney, SameLately, SameDaily
<1> QED BY <1>2, Ages DEF w, x, e

EnteredTo(s, u) ==
  /\ SameMoney(s, u) /\ SameLately(s, u)
  /\ u.day_pnl = s.day_pnl /\ u.week_pnl = s.week_pnl
  /\ u.losses_today = s.losses_today /\ u.trades_today = s.trades_today + 1
  /\ u.open_positions = 1

(* on_entry, field by field.                                                   *)
LEMMA EntersTo ==
  ASSUME NEW s, IsAccount(s)
  PROVE  EnteredTo(s, [s EXCEPT !.open_positions = 1, !.trades_today = @ + 1, !.since_entry = 0])
<1> DEFINE today == s.trades_today + 1
           u == [s EXCEPT !.open_positions = 1, !.trades_today = today, !.since_entry = 0]
<1>1. [s EXCEPT !.open_positions = 1, !.trades_today = @ + 1, !.since_entry = 0] = u
  BY AccountFields DEF IsAccount
<1> HIDE DEF today
<1>2. /\ SameMoney(s, u) /\ SameLately(s, u)
      /\ u.day_pnl = s.day_pnl /\ u.week_pnl = s.week_pnl
      /\ u.losses_today = s.losses_today /\ u.trades_today = today
      /\ u.open_positions = 1
  BY AccountFields DEF IsAccount, SameMoney, SameLately
<1> HIDE DEF u
<1>3. EnteredTo(s, u)
  BY <1>2 DEF EnteredTo, today
<1> QED BY <1>1, <1>3

-----------------------------------------------------------------------------
(* A rollover, and a close.                                                    *)

(* A rolled-over account is the one of the bar it was rolled over to.          *)
LEMMA RollKeepsDaily ==
  ASSUME NEW ts \in Seq(Trade), NEW es, NEW s, IsAccount(s),
         NEW now \in Nat, NEW later \in Nat, now <= later,
         Elapsed(now, ts, es), Daily(s, now, ts, es)
  PROVE  Daily(Rolled(s, now, later), later, ts, es)
<1> DEFINE u == Rolled(s, now, later)
<1>1. /\ u.day_pnl = IF Day(later) # Day(now) THEN 0 ELSE s.day_pnl
      /\ u.losses_today = IF Day(later) # Day(now) THEN 0 ELSE s.losses_today
      /\ u.trades_today = IF Day(later) # Day(now) THEN 0 ELSE s.trades_today
      /\ u.week_pnl = IF Week(later) # Week(now) THEN 0 ELSE s.week_pnl
  BY RollsTo
<1> HIDE DEF u
<1>2. /\ Day(now) \in Nat /\ Day(later) \in Nat /\ Day(now) <= Day(later)
      /\ Week(now) \in Nat /\ Week(later) \in Nat /\ Week(now) <= Week(later)
  BY LaterDays
<1>3. ASSUME NEW c \in Nat, c <= now
      PROVE  /\ Day(c) \in Nat /\ Day(c) <= Day(now) /\ Week(c) \in Nat /\ Week(c) <= Week(now)
  BY <1>3, LaterDays
<1>4. \A k \in DOMAIN ts : ts[k].closed_at \in Nat /\ ts[k].closed_at <= now
  BY TradesAre DEF Elapsed
<1>5. \A e \in es : e - 1 \in Nat /\ e - 1 <= now
  BY DEF Elapsed
<1>6. /\ u.day_pnl = PnlSum(ts, OnDay(ts, Day(later)))
      /\ u.losses_today = Cardinality(Losers(ts, OnDay(ts, Day(later))))
      /\ u.trades_today = Cardinality(DecidedOn(es, Day(later)))
  <2>1. CASE Day(later) = Day(now)
    BY <1>1, <2>1 DEF Daily
  <2>2. CASE Day(later) # Day(now)
    <3>1. Day(now) < Day(later)
      BY <1>2, <2>2
    <3>2. OnDay(ts, Day(later)) = {}
      BY <1>2, <1>3, <1>4, <3>1 DEF OnDay
    <3>3. Losers(ts, OnDay(ts, Day(later))) = {}
      BY <3>2 DEF Losers
    <3>4. DecidedOn(es, Day(later)) = {}
      BY <1>2, <1>3, <1>5, <3>1 DEF DecidedOn
    <3>5. Cardinality({}) = 0
      BY FS_EmptySet
    <3> QED BY <1>1, <2>2, <3>2, <3>3, <3>4, <3>5, PnlEmpty
  <2> QED BY <2>1, <2>2
<1>7. u.week_pnl = PnlSum(ts, InTheWeek(ts, Week(later)))
  <2>1. CASE Week(later) = Week(now)
    BY <1>1, <2>1 DEF Daily
  <2>2. CASE Week(later) # Week(now)
    <3>1. Week(now) < Week(later)
      BY <1>2, <2>2
    <3>2. InTheWeek(ts, Week(later)) = {}
      BY <1>2, <1>3, <1>4, <3>1 DEF InTheWeek
    <3> QED BY <1>1, <2>2, <3>2, PnlEmpty
  <2> QED BY <2>1, <2>2
<1>8. Daily(u, later, ts, es)
  BY <1>6, <1>7 DEF Daily
<1> QED BY <1>8 DEF u

(* The equities after each trade are a finite set of numbers.                  *)
LEMMA HighsTyped ==
  ASSUME NEW ts \in Seq(Trade)
  PROVE  Highs(ts) \in SUBSET Int /\ PnlSum(ts, 1..Len(ts)) \in Highs(ts)
<1>1. \A k \in 0..Len(ts) : 1..k \in SUBSET DOMAIN ts
  BY TradesAre
<1>2. \A k \in 0..Len(ts) : PnlSum(ts, 1..k) \in Int
  BY <1>1, SetsOfTrades
<1>3. Len(ts) \in 0..Len(ts)
  BY TradesAre
<1> QED BY <1>2, <1>3 DEF Highs

(* A close moves the equity, its high and the drawdown with the list.          *)
LEMMA CloseKeepsMoney ==
  ASSUME NEW ts \in Seq(Trade), NEW t \in Trade, NEW s, IsAccount(s), Money(s, ts)
  PROVE  Money(update_after_close(s, t.pnl, t.sold), Append(ts, t))
<1> DEFINE u == update_after_close(s, t.pnl, t.sold)
           us == Append(ts, t)
           n == Len(ts)
           now == s.equity + t.pnl
<1>0. ClosedTo(s, t.pnl, t.sold, u) /\ Extended(ts, t, us)
  BY ClosesTo, OneMore
<1> HIDE DEF u, us, n
<1>1. /\ u.equity = now /\ u.equity_high = Max({s.equity_high, now})
      /\ u.drawdown = u.equity_high - u.equity
  BY <1>0 DEF ClosedTo
<1>2. /\ us \in Seq(Trade) /\ Len(us) = n + 1 /\ us[n + 1] = t
      /\ \A S \in SUBSET DOMAIN ts :
           /\ PnlSum(us, S) = PnlSum(ts, S)
           /\ PnlSum(us, S \cup {n + 1}) = PnlSum(ts, S) + t.pnl
  BY <1>0 DEF Extended, n
<1>3. n \in Nat /\ DOMAIN ts = 1..n /\ t.pnl \in Int
  <2>1. t.pnl \in Outcomes /\ \A p \in Outcomes : p \in Int
    BY BacktestAssumption DEF Trade
  <2> QED BY <2>1, TradesAre DEF n
<1> HIDE DEF u, us, n
<1>4. PnlSum(us, 1..(n + 1)) = now
  <2>1. 1..(n + 1) = (1..n) \cup {n + 1} /\ 1..n \in SUBSET DOMAIN ts
    BY <1>3
  <2>2. PnlSum(us, (1..n) \cup {n + 1}) = PnlSum(ts, 1..n) + t.pnl
    BY <1>2, <2>1
  <2> QED BY <2>1, <2>2 DEF Money, n
<1>5. Highs(us) = Highs(ts) \cup {now}
  <2>1. ASSUME NEW k \in 0..n PROVE PnlSum(us, 1..k) = PnlSum(ts, 1..k)
    <3>1. 1..k \in SUBSET DOMAIN ts
      BY <1>3
    <3> QED BY <1>2, <3>1
  <2>2. 0..(n + 1) = (0..n) \cup {n + 1}
    BY <1>3
  <2>3. Highs(us) = {PnlSum(us, 1..k) : k \in 0..n} \cup {PnlSum(us, 1..(n + 1))}
    BY <1>2, <2>2 DEF Highs
  <2>4. {PnlSum(us, 1..k) : k \in 0..n} = Highs(ts)
    BY <2>1 DEF Highs, n
  <2> QED BY <1>4, <2>3, <2>4
<1>6. /\ Highs(ts) \in SUBSET Int /\ s.equity \in Int /\ s.equity_high \in Int
      /\ s.equity_high \in Highs(ts) /\ \A h \in Highs(ts) : h <= s.equity_high
  BY HighsTyped DEF Money
<1>7. now \in Int
  BY <1>3, <1>6
<1> HIDE DEF now
<1>8. u.equity_high = IF s.equity_high >= now THEN s.equity_high ELSE now
  BY <1>1, <1>6, <1>7, MaxOfTwo
<1>9. u.equity_high \in Highs(us) /\ \A h \in Highs(us) : h <= u.equity_high
  BY <1>5, <1>6, <1>7, <1>8
<1>10. Money(u, us)
  BY <1>1, <1>2, <1>4, <1>9 DEF Money
<1> QED BY <1>10 DEF u, us

(* A close moves the streak and the last exit with the list.                   *)
LEMMA CloseKeepsLately ==
  ASSUME NEW ts \in Seq(Trade), NEW t \in Trade, NEW s, IsAccount(s), Lately(s, ts)
  PROVE  Lately(update_after_close(s, t.pnl, t.sold), Append(ts, t))
<1> DEFINE u == update_after_close(s, t.pnl, t.sold)
           us == Append(ts, t)
           n == Len(ts)
<1>0. ClosedTo(s, t.pnl, t.sold, u) /\ Extended(ts, t, us)
  BY ClosesTo, OneMore
<1> HIDE DEF u, us, n
<1>1. /\ u.streak = (IF t.pnl < 0 THEN s.streak + 1 ELSE 0)
      /\ u.last_exit = [sold |-> t.sold, pnl |-> t.pnl]
  BY <1>0 DEF ClosedTo
<1>2. /\ us \in Seq(Trade) /\ Len(us) = n + 1 /\ us[n + 1] = t
      /\ DOMAIN us = DOMAIN ts \cup {n + 1} /\ n + 1 \notin DOMAIN ts
      /\ \A k \in DOMAIN ts : us[k] = ts[k]
  BY <1>0 DEF Extended, n
<1>3. n \in Nat /\ DOMAIN ts = 1..n
  BY TradesAre DEF n
<1>4. Losing(ts) = {k \in DOMAIN ts : LostFrom(ts, k, n)}
  BY DEF Losing, n
<1>5. Losing(us) = {k \in DOMAIN us : LostFrom(us, k, n + 1)}
  BY <1>2 DEF Losing
<1> HIDE DEF u, us, n
<1>6. u.streak = Cardinality(Losing(us))
  <2>1. CASE t.pnl < 0
    <3>1. ASSUME NEW k \in DOMAIN ts
          PROVE  LostFrom(us, k, n + 1) <=> LostFrom(ts, k, n)
      <4>1. ASSUME LostFrom(us, k, n + 1), NEW m \in k..n
            PROVE  m >= 1 /\ ts[m].pnl < 0
        <5>1. m \in k..(n + 1) /\ m \in DOMAIN ts
          BY <1>3
        <5> QED BY <1>2, <4>1, <5>1 DEF LostFrom
      <4>2. ASSUME LostFrom(ts, k, n), NEW m \in k..(n + 1)
            PROVE  m >= 1 /\ us[m].pnl < 0
        <5>1. CASE m = n + 1
          BY <1>2, <1>3, <2>1, <5>1
        <5>2. CASE m # n + 1
          <6>1. m \in k..n /\ m \in DOMAIN ts
            BY <1>3, <5>2
          <6> QED BY <1>2, <4>2, <6>1 DEF LostFrom
        <5> QED BY <5>1, <5>2
      <4> QED BY <4>1, <4>2 DEF LostFrom
    <3>2. LostFrom(us, n + 1, n + 1)
      BY <1>2, <1>3, <2>1 DEF LostFrom
    <3>3. Losing(us) = Losing(ts) \cup {n + 1} /\ n + 1 \notin Losing(ts)
      BY <1>2, <1>4, <1>5, <3>1, <3>2
    <3>4. IsFiniteSet(Losing(ts)) /\ Cardinality(Losing(ts)) \in Nat
      <4>1. Losing(ts) \in SUBSET DOMAIN ts
        BY DEF Losing
      <4> QED BY <4>1, SetsOfTrades
    <3>5. Cardinality(Losing(us)) = Cardinality(Losing(ts)) + 1
      BY <3>3, <3>4, FS_AddElement
    <3> QED BY <1>1, <2>1, <3>5 DEF Lately
  <2>2. CASE ~(t.pnl < 0)
    <3>1. Losing(us) = {}
      <4> SUFFICES ASSUME NEW k \in DOMAIN us, LostFrom(us, k, n + 1) PROVE FALSE
        BY <1>5
      <4>1. n + 1 \in k..(n + 1)
        BY <1>2, <1>3
      <4> QED BY <1>2, <2>2, <4>1 DEF LostFrom
    <3>2. Cardinality({}) = 0
      BY FS_EmptySet
    <3> QED BY <1>1, <2>2, <3>1, <3>2
  <2> QED BY <2>1, <2>2
<1>7. u.last_exit = LastOf(us)
  BY <1>1, <1>2, <1>3 DEF LastOf
<1>8. Lately(u, us)
  BY <1>6, <1>7 DEF Lately
<1> QED BY <1>8 DEF u, us

(* A close moves the sums of its day and of its week.                          *)
LEMMA CloseKeepsDaily ==
  ASSUME NEW ts \in Seq(Trade), NEW t \in Trade, NEW es, NEW s, IsAccount(s),
         Daily(s, t.closed_at, ts, es)
  PROVE  Daily(update_after_close(s, t.pnl, t.sold), t.closed_at, Append(ts, t), es)
<1> DEFINE u == update_after_close(s, t.pnl, t.sold)
           us == Append(ts, t)
           n == Len(ts)
           day == Day(t.closed_at)
           week == Week(t.closed_at)
           A == OnDay(ts, day)
           B == InTheWeek(ts, week)
<1>0. ClosedTo(s, t.pnl, t.sold, u) /\ Extended(ts, t, us)
  BY ClosesTo, OneMore
<1> HIDE DEF u, us, n
<1>1. /\ u.day_pnl = s.day_pnl + t.pnl /\ u.week_pnl = s.week_pnl + t.pnl
      /\ u.losses_today = IF t.pnl < 0 THEN s.losses_today + 1 ELSE s.losses_today
      /\ u.trades_today = s.trades_today
  BY <1>0 DEF ClosedTo
<1>2. /\ us \in Seq(Trade) /\ Len(us) = n + 1 /\ us[n + 1] = t
      /\ DOMAIN us = DOMAIN ts \cup {n + 1} /\ n + 1 \notin DOMAIN ts
      /\ \A k \in DOMAIN ts : us[k] = ts[k]
      /\ \A S \in SUBSET DOMAIN ts :
           /\ PnlSum(us, S) = PnlSum(ts, S)
           /\ PnlSum(us, S \cup {n + 1}) = PnlSum(ts, S) + t.pnl
           /\ Losers(us, S) = Losers(ts, S)
           /\ Losers(us, S \cup {n + 1}) =
                Losers(ts, S) \cup (IF t.pnl < 0 THEN {n + 1} ELSE {})
  BY <1>0 DEF Extended, n
<1>3. A \in SUBSET DOMAIN ts /\ B \in SUBSET DOMAIN ts
  BY DEF OnDay, InTheWeek
<1>4. OnDay(us, day) = A \cup {n + 1} /\ InTheWeek(us, week) = B \cup {n + 1}
  BY <1>2 DEF OnDay, InTheWeek
<1> HIDE DEF u, us, n, A, B
<1>5. u.day_pnl = PnlSum(us, OnDay(us, day)) /\ u.week_pnl = PnlSum(us, InTheWeek(us, week))
  <2>1. s.day_pnl = PnlSum(ts, A) /\ s.week_pnl = PnlSum(ts, B)
    BY DEF Daily, A, B
  <2> QED BY <1>1, <1>2, <1>3, <1>4, <2>1
<1>6. u.losses_today = Cardinality(Losers(us, OnDay(us, day)))
  <2> DEFINE L == Losers(ts, A)
  <2>1. L \in SUBSET DOMAIN ts /\ n + 1 \notin L
    BY <1>2, <1>3 DEF Losers
  <2>2. Losers(us, OnDay(us, day)) = L \cup (IF t.pnl < 0 THEN {n + 1} ELSE {})
    BY <1>2, <1>3, <1>4
  <2>3. s.losses_today = Cardinality(L)
    BY DEF Daily, A
  <2> HIDE DEF L
  <2>4. IsFiniteSet(L) /\ Cardinality(L \cup {n + 1}) = Cardinality(L) + 1
    <3>1. IsFiniteSet(L)
      BY <2>1, SetsOfTrades
    <3> QED BY <2>1, <3>1, FS_AddElement
  <2>5. CASE t.pnl < 0
    BY <1>1, <2>2, <2>3, <2>4, <2>5
  <2>6. CASE ~(t.pnl < 0)
    BY <1>1, <2>2, <2>3, <2>6
  <2> QED BY <2>5, <2>6
<1>7. u.trades_today = Cardinality(DecidedOn(es, day))
  BY <1>1 DEF Daily
<1>8. Daily(u, t.closed_at, us, es)
  BY <1>5, <1>6, <1>7 DEF Daily
<1> QED BY <1>8 DEF u, us

-----------------------------------------------------------------------------
(* The account the loop carries is that of its trades, as of the bar it was    *)
(* last rolled over to.                                                        *)

Now == IF phase = "enter" \/ i = first_eval THEN idx[i] ELSE idx[i - 1]
Ledger ==
  /\ Money(state, trades)
  /\ phase # "done" =>
       /\ Lately(state, trades)
       /\ Daily(state, Now, trades, Entries)
       /\ state.open_positions = IF Holding THEN 1 ELSE 0
       /\ Elapsed(Now, trades, Entries)
       /\ phase = "enter" => \A e \in Entries : e <= idx[i]
       /\ phase = "manage" /\ i = first_eval => trades = <<>> /\ Entries = {}

(* What does not touch the fields keeps each of the three.                     *)
LEMMA MoneyStays ==
  ASSUME NEW s, NEW u, NEW ts, SameMoney(s, u), Money(s, ts)
  PROVE  Money(u, ts)
BY DEF SameMoney, Money

LEMMA LatelyStays ==
  ASSUME NEW s, NEW u, NEW ts, SameLately(s, u), Lately(s, ts)
  PROVE  Lately(u, ts)
BY DEF SameLately, Lately

LEMMA DailyStays ==
  ASSUME NEW s, NEW u, NEW now, NEW ts, NEW es, SameDaily(s, u), Daily(s, now, ts, es)
  PROVE  Daily(u, now, ts, es)
BY DEF SameDaily, Daily

(* A function's values are no more than its arguments.                         *)
LEMMA ValuesFinite ==
  ASSUME NEW S, IsFiniteSet(S), NEW f, DOMAIN f = S, f = [x \in S |-> f[x]]
  PROVE  LET T == {f[x] : x \in S}
         IN IsFiniteSet(T) /\ Cardinality(T) <= Cardinality(S)
<1> DEFINE T == {f[x] : x \in S}
<1>1. f \in [S -> T]
  OBVIOUS
<1>2. \A t \in T : \E x \in S : f[x] = t
  OBVIOUS
<1> HIDE DEF T
<1>3. f \in Surjection(S, T)
  BY <1>1, <1>2 DEF Surjection
<1>4. IsFiniteSet(T) /\ Cardinality(T) <= Cardinality(S)
  BY <1>3, FS_Surjection
<1> QED BY <1>4 DEF T

(* The entries are finitely many, and a close only passes one on.              *)
LEMMA EntriesFinite ==
  ASSUME trades \in Seq(Trade)
  PROVE  IsFiniteSet(Entries)
<1> DEFINE T == {trades[k].opened_at : k \in DOMAIN trades}
           P == IF Holding THEN {position.opened_at} ELSE {}
<1>1. IsFiniteSet(T)
  <2>1. IsFiniteSet(DOMAIN trades)
    BY TradesAre
  <2> DEFINE f == [k \in DOMAIN trades |-> trades[k].opened_at]
  <2>2. DOMAIN f = DOMAIN trades /\ f = [k \in DOMAIN trades |-> f[k]]
    OBVIOUS
  <2>3. T = {f[k] : k \in DOMAIN trades}
    OBVIOUS
  <2> HIDE DEF T, f
  <2> QED BY <2>1, <2>2, <2>3, ValuesFinite
<1>2. IsFiniteSet(P)
  BY FS_EmptySet, FS_Singleton
<1>3. Entries = T \cup P
  BY DEF Entries, ClosedTrades
<1> HIDE DEF T, P
<1> QED BY <1>1, <1>2, <1>3, FS_Union

(* The times of the entries are those of the trades and of what is open.       *)
LEMMA EntriesPass ==
  ASSUME trades \in Seq(Trade), NEW t \in Trade, t.opened_at = position.opened_at,
         Holding, trades' = Append(trades, t), position' = NoPosition
  PROVE  Entries' = Entries
<1> DEFINE n == Len(trades)
<1>1. n \in Nat /\ DOMAIN trades = 1..n /\ DOMAIN trades' = 1..(n + 1)
      /\ trades'[n + 1] = t /\ \A k \in 1..n : trades'[k] = trades[k]
  OBVIOUS
<1>2. ~Holding'
  BY DEF Holding
<1> HIDE DEF n
<1>3. {trades'[k].opened_at : k \in DOMAIN trades'} =
        {trades[k].opened_at : k \in DOMAIN trades} \cup {position.opened_at}
  <2>1. 1..(n + 1) = (1..n) \cup {n + 1}
    BY <1>1
  <2> QED BY <1>1, <2>1
<1>4. Entries = {trades[k].opened_at : k \in DOMAIN trades} \cup {position.opened_at}
  BY DEF Entries, ClosedTrades
<1>5. Entries' = {trades'[k].opened_at : k \in DOMAIN trades'}
  BY <1>2 DEF Entries, ClosedTrades
<1> QED BY <1>3, <1>4, <1>5

(* Before the first bar the account and the books are empty.                   *)
LEMMA InitLedger ==
  Init => Ledger
<1> SUFFICES ASSUME Init PROVE Ledger
  OBVIOUS
<1>1. trades = <<>> /\ state = empty_state /\ ~Holding /\ Len(trades) = 0
      /\ DOMAIN trades = {} /\ trades \in Seq(Trade)
  BY DEF Init, Holding
<1>2. /\ state.equity = 0 /\ state.equity_high = 0 /\ state.drawdown = 0
      /\ state.day_pnl = 0 /\ state.week_pnl = 0 /\ state.losses_today = 0
      /\ state.trades_today = 0 /\ state.streak = 0 /\ state.last_exit = NoExit
      /\ state.open_positions = 0
  BY <1>1 DEF empty_state
<1>3. Entries = {}
  BY <1>1 DEF Entries, ClosedTrades
<1>4. Cardinality({}) = 0
  BY FS_EmptySet
<1>5. Money(state, trades)
  <2>1. 1..Len(trades) = {} /\ 0..Len(trades) = {0} /\ 1..0 = {}
    BY <1>1
  <2>2. Highs(trades) = {0}
    BY <2>1, PnlEmpty DEF Highs
  <2>3. PnlSum(trades, 1..Len(trades)) = 0
    BY <2>1, PnlEmpty
  <2>4. 0 <= 0 /\ 0 - 0 = 0
    OBVIOUS
  <2>5. state.equity_high \in Highs(trades) /\ \A h \in Highs(trades) : h <= state.equity_high
    BY <1>2, <2>2, <2>4
  <2> QED BY <1>2, <2>3, <2>4, <2>5 DEF Money
<1>6. Lately(state, trades)
  <2>1. Losing(trades) = {}
    BY <1>1 DEF Losing
  <2> QED BY <1>1, <1>2, <1>4, <2>1 DEF Lately, LastOf
<1>7. Daily(state, Now, trades, Entries)
  <2>1. /\ OnDay(trades, Day(Now)) = {} /\ InTheWeek(trades, Week(Now)) = {}
        /\ DecidedOn(Entries, Day(Now)) = {}
    BY <1>1, <1>3 DEF OnDay, InTheWeek, DecidedOn
  <2>2. Losers(trades, {}) = {}
    BY DEF Losers
  <2> QED BY <1>2, <1>4, <2>1, <2>2, PnlEmpty DEF Daily
<1>8. Elapsed(Now, trades, Entries)
  BY <1>1, <1>3 DEF Elapsed
<1>9. \A e \in Entries : e <= idx[i]
  BY <1>3
<1> QED BY <1>1, <1>2, <1>3, <1>5, <1>6, <1>7, <1>8, <1>9 DEF Ledger

-----------------------------------------------------------------------------
(* Every step keeps the account at its trades.                                 *)

ClosesWith(k, s, t) ==
  /\ trades' = Append(trades, t) /\ position' = NoPosition
  /\ state' = update_after_close(s, t.pnl, t.sold)
  /\ curve' = Append(curve, state'.equity)
  /\ weeks' = [weeks EXCEPT ![Week(idx[k])] = [pnl |-> @.pnl + t.pnl, traded |-> TRUE]]
  /\ t.opened_at = position.opened_at /\ t.closed_at = idx[k]

(* The record a close appends, and the account it leaves.                      *)
LEMMA TradeClosed ==
  ASSUME Frame, Walk, Open, phase # "done", Holding,
         NEW k \in first_eval..last_eval, NEW s,
         NEW sold \in ExitReasons, NEW pnl \in PnlOf(sold), ClosedAt(k, s, sold, pnl)
  PROVE  \E t \in Trade : ClosesWith(k, s, t)
<1> DEFINE o == position.opened_index
           bars == Max({1, k - o})
           t == [opened_at |-> position.opened_at, closed_at |-> idx[k], pnl |-> pnl,
                 sold |-> sold, bars_held |-> bars]
<1>1. /\ trades' = Append(trades, t) /\ position' = NoPosition
      /\ state' = update_after_close(s, pnl, sold) /\ curve' = Append(curve, state'.equity)
      /\ weeks' = [weeks EXCEPT ![Week(idx[k])] = [pnl |-> @.pnl + pnl, traded |-> TRUE]]
  BY DEF ClosedAt
<1>2. o \in Int /\ position.opened_at \in Nat /\ idx[k] \in Calendar /\ k \in Int
  BY HoldingBars, Evals
<1>3. pnl \in Outcomes
  BY SoldFor
<1>4. bars \in Nat
  <2>1. k - o \in Int
    BY <1>2
  <2>2. bars = IF 1 >= k - o THEN 1 ELSE k - o
    BY <2>1, MaxOfTwo
  <2> HIDE DEF bars
  <2> QED BY <2>1, <2>2
<1> HIDE DEF bars, o
<1>5. t \in Trade
  BY <1>2, <1>3, <1>4 DEF Trade
<1>6. t.opened_at = position.opened_at /\ t.closed_at = idx[k] /\ t.pnl = pnl /\ t.sold = sold
  OBVIOUS
<1> HIDE DEF t
<1>7. ClosesWith(k, s, t)
  BY <1>1, <1>6 DEF ClosesWith
<1> QED BY <1>5, <1>7

(* The bars before and after.                                                  *)
LEMMA Nows ==
  ASSUME Frame, Walk, phase # "done"
  PROVE  /\ Now \in Nat
         /\ phase = "enter" => Now = idx[i]
         /\ phase = "manage" => /\ idx[i] \in Nat
                                /\ Now = idx[IF i = first_eval THEN i ELSE i - 1]
                                /\ Now <= idx[i]
                                /\ i # first_eval => Now < idx[i]
         /\ phase = "end" => Now = idx[last_eval]
<1>1. /\ first_eval \in Nat /\ first_eval >= 1 /\ last_eval \in 1..Size
      /\ \A k \in first_eval..last_eval : k \in 1..Size /\ idx[k] \in Nat
  BY Evals
<1>2. i \in Int /\ DOMAIN idx = 1..Size /\ Rising(idx) /\ Size \in Nat
  BY DEF Frame, Walk
<1>3. CASE phase \in {"manage", "enter"}
  <2>1. i \in first_eval..last_eval
    BY <1>3 DEF Walk
  <2>2. CASE i = first_eval
    BY <1>1, <1>3, <2>1, <2>2 DEF Now
  <2>3. CASE i # first_eval
    <3>1. i - 1 \in first_eval..last_eval
      BY <1>1, <1>2, <2>1, <2>3
    <3>2. i - 1 \in 1..Size /\ i \in 1..Size /\ idx[i - 1] \in Nat /\ idx[i] \in Nat
      BY <1>1, <2>1, <3>1
    <3>3. idx[i - 1] < idx[i]
      BY <1>2, <3>2 DEF Rising
    <3> QED BY <1>3, <2>3, <3>2, <3>3 DEF Now
  <2> QED BY <2>2, <2>3
<1>4. CASE phase = "end"
  <2>1. i = last_eval + 1 /\ first_eval <= last_eval
    BY <1>4 DEF Walk
  <2>2. i # first_eval /\ i - 1 = last_eval /\ last_eval \in first_eval..last_eval
    BY <1>1, <1>2, <2>1
  <2> QED BY <1>1, <1>4, <2>2 DEF Now
<1> QED BY <1>3, <1>4 DEF Walk

(* What is known to have happened by a bar has by a later one.                 *)
LEMMA ElapsedOn ==
  ASSUME NEW ts \in Seq(Trade), NEW es, NEW now \in Nat, NEW later \in Nat, now <= later,
         Elapsed(now, ts, es)
  PROVE  Elapsed(later, ts, es)
<1>1. \A k \in DOMAIN ts : ts[k].closed_at \in Nat /\ ts[k].closed_at <= now
  BY TradesAre DEF Elapsed
<1>2. \A e \in es : e \in Nat /\ e >= 1 /\ e - 1 <= now
  BY DEF Elapsed
<1> QED BY <1>1, <1>2 DEF Elapsed

(* And a trade closed now has happened by now.                                 *)
LEMMA ElapsedWith ==
  ASSUME NEW ts \in Seq(Trade), NEW t \in Trade, NEW es, Elapsed(t.closed_at, ts, es)
  PROVE  Elapsed(t.closed_at, Append(ts, t), es)
<1> DEFINE us == Append(ts, t)
           n == Len(ts)
<1>1. Extended(ts, t, us)
  BY OneMore
<1> HIDE DEF us
<1>2. DOMAIN us = DOMAIN ts \cup {n + 1} /\ us[n + 1] = t /\ \A k \in DOMAIN ts : us[k] = ts[k]
  BY <1>1 DEF Extended
<1>3. t.closed_at \in Nat
  BY BacktestAssumption DEF Trade, Calendar
<1>4. t.closed_at <= t.closed_at
  BY <1>3
<1>5. Elapsed(t.closed_at, us, es)
  BY <1>2, <1>4 DEF Elapsed
<1> QED BY <1>5 DEF us

(* Each action keeps the ledger; a close and a roll of the day, first.         *)
LEMMA ManageLedger ==
  IInv /\ Ledger /\ Manage => Ledger'
<1> SUFFICES ASSUME IInv, Ledger, Manage PROVE Ledger'
  OBVIOUS
<1> DEFINE was == idx[IF i = first_eval THEN i ELSE i - 1]
           s == Rolled(state, was, idx[i])
           held == i - position.opened_index
<1>1. /\ Frame /\ Walk /\ Books /\ Open
      /\ phase = "manage" /\ phase' = "enter" /\ phase # "done" /\ idx' = idx /\ i' = i
  BY DEF IInv, Manage
<1>2. /\ Money(state, trades) /\ Lately(state, trades)
      /\ Daily(state, Now, trades, Entries) /\ Elapsed(Now, trades, Entries)
      /\ state.open_positions = IF Holding THEN 1 ELSE 0
      /\ i = first_eval => Entries = {}
  BY <1>1 DEF Ledger
<1>3. /\ was = Now /\ Now \in Nat /\ idx[i] \in Nat /\ Now <= idx[i]
      /\ i # first_eval => Now < idx[i]
  BY <1>1, Nows
<1>4. IsAccount(state) /\ trades \in Seq(Trade)
  BY <1>1 DEF Books
<1>5. i \in first_eval..last_eval
  BY <1>1 DEF Walk
<1> HIDE DEF was
<1>6. /\ IsAccount(s) /\ SameMoney(state, s) /\ SameLately(state, s)
      /\ s.open_positions = state.open_positions
  BY <1>4, RollsTo
<1>7. Daily(s, idx[i], trades, Entries)
  BY <1>2, <1>3, <1>4, RollKeepsDaily
<1> HIDE DEF s
<1>8. Money(s, trades) /\ Lately(s, trades)
  BY <1>2, <1>6, MoneyStays, LatelyStays
<1>9. Elapsed(idx[i], trades, Entries)
  BY <1>2, <1>3, <1>4, ElapsedOn
<1>10. \A e \in Entries : e <= idx[i]
  <2> SUFFICES ASSUME NEW e \in Entries PROVE e <= idx[i]
    OBVIOUS
  <2>1. e \in Nat /\ e - 1 <= Now /\ Now < idx[i]
    BY <1>2, <1>3 DEF Elapsed
  <2> QED BY <1>3, <2>1
<1>11. Now' = idx[i]
  BY <1>1 DEF Now
<1>12. ASSUME state' = s, trades' = trades, position' = position
       PROVE  Ledger'
  <2>1. (Holding' <=> Holding) /\ Entries' = Entries
    BY <1>12 DEF Holding, Entries, ClosedTrades
  <2> QED BY <1>1, <1>2, <1>6, <1>7, <1>8, <1>9, <1>10, <1>11, <1>12, <2>1 DEF Ledger
<1>13. ASSUME Holding, NEW sold \in MayExit(held) \ {"none"}, NEW pnl \in PnlOf(sold),
              ClosedAt(i, s, sold, pnl)
       PROVE  Ledger'
  <2>1. sold \in ExitReasons
    BY DEF MayExit, ExitReasons
  <2>0. PICK t \in Trade : ClosesWith(i, s, t)
    BY <1>1, <1>5, <1>13, <2>1, TradeClosed
  <2>2. /\ trades' = Append(trades, t) /\ position' = NoPosition
        /\ state' = update_after_close(s, t.pnl, t.sold)
        /\ t.opened_at = position.opened_at /\ t.closed_at = idx[i]
    BY <2>0 DEF ClosesWith
  <2>3. Entries' = Entries
    BY <1>4, <1>13, <2>2, EntriesPass
  <2>4. ~Holding'
    BY <2>2 DEF Holding
  <2>5. Money(state', trades') /\ Lately(state', trades')
    BY <1>4, <1>6, <1>8, <2>2, CloseKeepsMoney, CloseKeepsLately
  <2>6. Daily(state', idx[i], trades', Entries)
    BY <1>4, <1>6, <1>7, <2>2, CloseKeepsDaily
  <2>7. Elapsed(idx[i], trades', Entries)
    BY <1>4, <1>9, <2>2, ElapsedWith
  <2>8. state'.open_positions = 0
    <3>1. ClosedTo(s, t.pnl, t.sold, state')
      BY <1>6, <2>2, ClosesTo
    <3> QED BY <3>1 DEF ClosedTo
  <2> QED BY <1>1, <1>10, <1>11, <2>3, <2>4, <2>5, <2>6, <2>7, <2>8 DEF Ledger
<1>14. \/ state' = s /\ trades' = trades /\ position' = position
       \/ /\ Holding
          /\ \E sold \in MayExit(held) \ {"none"} : \E pnl \in PnlOf(sold) :
               ClosedAt(i, s, sold, pnl)
  BY DEF Manage, s, was
<1> HIDE DEF held
<1> QED BY <1>12, <1>13, <1>14

(* The rest of the bar.                                                        *)
LEMMA NextNow ==
  ASSUME IInv, phase = "enter", NextBar, idx' = idx, window' = window
  PROVE  /\ Now' = idx[i] /\ idx[i] \in Nat /\ i \in first_eval..last_eval
         /\ phase' \in {"manage", "end"} /\ i' # first_eval'
<1>1. Frame /\ Walk
  BY DEF IInv
<1>2. /\ i' = i + 1 /\ i \in first_eval..last_eval /\ phase' \in {"manage", "end"}
      /\ first_eval' = first_eval
  BY <1>1, NextBarWalks
<1>3. first_eval \in Nat /\ last_eval \in Nat /\ idx[i] \in Nat
  BY <1>1, <1>2, Evals DEF Frame
<1>4. i' # first_eval' /\ i' - 1 = i
  BY <1>2, <1>3
<1> QED BY <1>2, <1>3, <1>4 DEF Now

LEMMA StayOutLedger ==
  IInv /\ Ledger /\ StayOut => Ledger'
<1> SUFFICES ASSUME IInv, Ledger, StayOut PROVE Ledger'
  OBVIOUS
<1>1. /\ phase = "enter" /\ state' = Aged /\ NextBar /\ phase # "done"
      /\ UNCHANGED <<idx, window, position, trades>> /\ Frame /\ Walk /\ IsAccount(state)
  BY DEF IInv, StayOut, Books
<1>2. Now = idx[i]
  BY <1>1 DEF Now
<1>3. /\ Now' = idx[i] /\ phase' \in {"manage", "end"} /\ i' # first_eval'
  BY <1>1, NextNow
<1>4. /\ Money(state, trades) /\ Lately(state, trades)
      /\ Daily(state, Now, trades, Entries) /\ Elapsed(Now, trades, Entries)
      /\ state.open_positions = IF Holding THEN 1 ELSE 0
  BY <1>1 DEF Ledger
<1>5. /\ SameMoney(state, Aged) /\ SameLately(state, Aged) /\ SameDaily(state, Aged)
      /\ Aged.open_positions = state.open_positions
  BY <1>1, AgesTo
<1>6. Money(Aged, trades) /\ Lately(Aged, trades) /\ Daily(Aged, Now, trades, Entries)
  BY <1>4, <1>5, MoneyStays, LatelyStays, DailyStays
<1>7. (Holding' <=> Holding) /\ Entries' = Entries
  BY <1>1 DEF Holding, Entries, ClosedTrades
<1> QED BY <1>1, <1>2, <1>3, <1>4, <1>5, <1>6, <1>7 DEF Ledger

LEMMA EnterLedger ==
  IInv /\ Ledger /\ Enter => Ledger'
<1> SUFFICES ASSUME IInv, Ledger, Enter PROVE Ledger'
  OBVIOUS
<1> DEFINE e == idx[i] + 1
           day == Day(idx[i])
<1>1. /\ phase = "enter" /\ phase # "done" /\ ~Holding /\ NextBar
      /\ position' = [opened_at |-> e, opened_index |-> i + 1]
      /\ state' = [Aged EXCEPT !.open_positions = 1, !.trades_today = @ + 1, !.since_entry = 0]
      /\ UNCHANGED <<idx, window, trades>> /\ Frame /\ Walk
      /\ IsAccount(state) /\ trades \in Seq(Trade)
  BY DEF IInv, Enter, Books
<1>2. Now = idx[i]
  BY <1>1 DEF Now
<1>3. Now' = idx[i] /\ idx[i] \in Nat /\ phase' \in {"manage", "end"} /\ i' # first_eval'
  BY <1>1, NextNow
<1>4. /\ Money(state, trades) /\ Lately(state, trades)
      /\ Daily(state, idx[i], trades, Entries) /\ Elapsed(idx[i], trades, Entries)
      /\ \A f \in Entries : f <= idx[i]
  BY <1>1, <1>2 DEF Ledger
<1>5. /\ IsAccount(Aged)
      /\ SameMoney(state, Aged) /\ SameLately(state, Aged) /\ SameDaily(state, Aged)
  BY <1>1, AgesTo
<1>6. Money(Aged, trades) /\ Lately(Aged, trades) /\ Daily(Aged, idx[i], trades, Entries)
  BY <1>4, <1>5, MoneyStays, LatelyStays, DailyStays
<1>7. /\ SameMoney(Aged, state') /\ SameLately(Aged, state')
      /\ state'.day_pnl = Aged.day_pnl /\ state'.week_pnl = Aged.week_pnl
      /\ state'.losses_today = Aged.losses_today
      /\ state'.trades_today = Aged.trades_today + 1
      /\ state'.open_positions = 1
  <2>1. EnteredTo(Aged, state')
    BY <1>1, <1>5, EntersTo
  <2> QED BY <2>1 DEF EnteredTo
<1>8. Money(state', trades) /\ Lately(state', trades)
  BY <1>6, <1>7, MoneyStays, LatelyStays
<1>9. Holding' /\ Entries' = Entries \cup {e}
  <2>1. position'.opened_at = e /\ e # 0
    BY <1>1, <1>3
  <2>2. Holding'
    BY <2>1 DEF Holding, NoPosition
  <2>3. Entries' = {trades[k].opened_at : k \in DOMAIN trades} \cup {e}
    BY <1>1, <2>1, <2>2 DEF Entries, ClosedTrades
  <2>4. Entries = {trades[k].opened_at : k \in DOMAIN trades}
    BY <1>1 DEF Entries, ClosedTrades
  <2> QED BY <2>2, <2>3, <2>4
<1>10. e \in Nat /\ e >= 1 /\ e - 1 = idx[i] /\ e \notin Entries
  <2>1. e \in Nat /\ e >= 1 /\ e - 1 = idx[i] /\ ~(e <= idx[i])
    BY <1>3
  <2> HIDE DEF e
  <2> QED BY <1>4, <2>1
<1> HIDE DEF e
<1>11. Elapsed(idx[i], trades, Entries \cup {e})
  BY <1>3, <1>4, <1>10 DEF Elapsed
<1>12. Cardinality(DecidedOn(Entries \cup {e}, day)) = Cardinality(DecidedOn(Entries, day)) + 1
  <2> DEFINE D == DecidedOn(Entries, day)
  <2>1. DecidedOn(Entries \cup {e}, day) = D \cup {e} /\ e \notin D
    BY <1>10 DEF DecidedOn
  <2>2. IsFiniteSet(D)
    <3>1. IsFiniteSet(Entries)
      BY <1>1, EntriesFinite
    <3>2. D \subseteq Entries
      BY DEF DecidedOn
    <3> QED BY <3>1, <3>2, FS_Subset
  <2> HIDE DEF D
  <2>3. Cardinality(D \cup {e}) = Cardinality(D) + 1
    BY <2>1, <2>2, FS_AddElement
  <2> QED BY <2>1, <2>3 DEF D
<1>13. Daily(state', idx[i], trades, Entries \cup {e})
  BY <1>6, <1>7, <1>12 DEF Daily
<1> QED BY <1>1, <1>3, <1>7, <1>8, <1>9, <1>11, <1>13 DEF Ledger

LEMMA FinishLedger ==
  IInv /\ Ledger /\ Finish => Ledger'
<1> SUFFICES ASSUME IInv, Ledger, Finish PROVE Ledger'
  OBVIOUS
<1>1. /\ Frame /\ Walk /\ Books /\ Open /\ phase = "end" /\ phase # "done" /\ phase' = "done"
      /\ IsAccount(state) /\ trades \in Seq(Trade) /\ Money(state, trades)
  BY DEF IInv, Finish, Ledger, Books
<1>2. CASE UNCHANGED <<trades, state>>
  BY <1>1, <1>2 DEF Ledger
<1>3. ASSUME Holding, NEW pnl \in PnlOf("reconciled"),
             ClosedAt(last_eval, state, "reconciled", pnl)
      PROVE  Ledger'
  <2>1. last_eval \in first_eval..last_eval
    <3>1. first_eval \in Nat /\ last_eval \in 1..Size /\ Size \in Nat
      BY <1>1, Evals DEF Frame
    <3>2. first_eval <= last_eval
      BY <1>1 DEF Walk
    <3> QED BY <3>1, <3>2
  <2>2. "reconciled" \in ExitReasons
    BY DEF ExitReasons
  <2>0. PICK t \in Trade : ClosesWith(last_eval, state, t)
    BY <1>1, <1>3, <2>1, <2>2, TradeClosed
  <2>3. /\ trades' = Append(trades, t)
        /\ state' = update_after_close(state, t.pnl, t.sold)
    BY <2>0 DEF ClosesWith
  <2>4. Money(state', trades')
    BY <1>1, <2>3, CloseKeepsMoney
  <2> QED BY <1>1, <2>4 DEF Ledger
<1>4. \/ UNCHANGED <<trades, state>>
      \/ Holding /\ \E pnl \in PnlOf("reconciled") : ClosedAt(last_eval, state, "reconciled", pnl)
  BY DEF Finish
<1> QED BY <1>2, <1>3, <1>4

(* On every bar, the account the loop carries is that of its trades so far.    *)
THEOREM BacktestLedger ==
  Spec => []Ledger
<1>1. Ledger /\ UNCHANGED vars => Ledger'
  BY DEF Ledger, vars, Now, first_eval, Entries, ClosedTrades, Holding
<1>2. IInv /\ Ledger /\ [Next]_vars => Ledger'
  BY <1>1, ManageLedger, StayOutLedger, EnterLedger, FinishLedger DEF Next
<1> QED BY BacktestInvariant, InitLedger, <1>2, PTL DEF Spec

-----------------------------------------------------------------------------
(* What would be derived from the trades, read off the same sums.              *)

(* The losing streak, as the property names it and as the ledger does.         *)
LEMMA LosingDerived ==
  ASSUME trades \in Seq(Trade)
  PROVE  {k \in ClosedTrades : LossesIn(k..Len(trades)) = Len(trades) - k + 1} = Losing(trades)
<1> DEFINE n == Len(trades)
<1>1. n \in Nat /\ DOMAIN trades = 1..n
  BY TradesAre
<1> HIDE DEF n
<1>2. ASSUME NEW k \in 1..n
      PROVE  LossesIn(k..n) = n - k + 1 <=> LostFrom(trades, k, n)
  <2> DEFINE L == {m \in k..n : trades[m].pnl < 0}
  <2>1. IsFiniteSet(k..n) /\ Cardinality(k..n) = n - k + 1
    <3>1. k \in Int /\ n \in Int /\ ~(k > n)
      BY <1>1
    <3>2. IsFiniteSet(k..n)
      BY <3>1, FS_Interval
    <3>3. Cardinality(k..n) = IF k > n THEN 0 ELSE n - k + 1
      BY <3>1, FS_Interval
    <3> QED BY <3>1, <3>2, <3>3
  <2>2. L \subseteq k..n
    OBVIOUS
  <2>3. Cardinality(L) = Cardinality(k..n) <=> L = k..n
    <3> HIDE DEF L
    <3> QED BY <2>1, <2>2, FS_Subset
  <2>4. LossesIn(k..n) = Cardinality(L)
    BY DEF LossesIn
  <2>5. L = k..n <=> \A m \in k..n : trades[m].pnl < 0
    OBVIOUS
  <2>6. (\A m \in k..n : trades[m].pnl < 0) <=> LostFrom(trades, k, n)
    <3>1. \A m \in k..n : m >= 1
      BY <1>1
    <3> QED BY <3>1 DEF LostFrom
  <2> HIDE DEF L
  <2> QED BY <2>1, <2>3, <2>4, <2>5, <2>6
<1> QED BY <1>1, <1>2 DEF ClosedTrades, Losing, n

(* The entries of a day, and those its rollover forgets.                       *)
LEMMA EntriesOfDay ==
  ASSUME trades \in Seq(Trade), NEW now \in Nat, Elapsed(now, trades, Entries),
         \A e \in Entries : e <= now
  PROVE  Cardinality(DecidedOn(Entries, Day(now)))
           = Cardinality({ts \in Entries : Day(ts) = Day(now)}) - Cardinality(Forgotten(Day(now)))
<1> DEFINE day == Day(now)
           A == {ts \in Entries : Day(ts) = day}
           D == DecidedOn(Entries, day)
           F == Forgotten(day)
<1>1. A = D \cup F
  <2>1. ASSUME NEW e \in Entries, Day(e - 1) = day PROVE Day(e) = day
    <3>1. e \in Nat /\ e - 1 \in Nat /\ e - 1 <= e /\ e <= now
      BY DEF Elapsed
    <3>2. Day(e) \in Nat /\ Day(e - 1) \in Nat /\ day \in Nat
          /\ Day(e - 1) <= Day(e) /\ Day(e) <= day
      BY <3>1, LaterDays
    <3> HIDE DEF day
    <3> QED BY <2>1, <3>2
  <2> HIDE DEF day
  <2> QED BY <2>1 DEF DecidedOn, Forgotten
<1>2. D \cap F = {}
  BY DEF DecidedOn, Forgotten
<1>3. IsFiniteSet(D) /\ IsFiniteSet(F)
  <2>1. IsFiniteSet(Entries)
    BY EntriesFinite
  <2>2. D \subseteq Entries /\ F \subseteq Entries
    BY DEF DecidedOn, Forgotten
  <2> HIDE DEF D, F
  <2> QED BY <2>1, <2>2, FS_Subset
<1> HIDE DEF A, D, F
<1>4. Cardinality(D \cup F) = Cardinality(D) + Cardinality(F) - Cardinality(D \cap F)
  BY <1>3, FS_Union
<1>5. Cardinality(D) \in Nat /\ Cardinality(F) \in Nat
  BY <1>3, FS_CardinalityType
<1>6. Cardinality({}) = 0
  BY FS_EmptySet
<1>7. Cardinality(A) = Cardinality(D) + Cardinality(F)
  <2>1. Cardinality(D \cap F) = 0
    BY <1>2, <1>6
  <2>2. Cardinality(D \cup F) = Cardinality(D) + Cardinality(F)
    BY <1>4, <1>5, <2>1
  <2> QED BY <1>1, <2>2
<1>8. Cardinality(D) = Cardinality(A) - Cardinality(F)
  BY <1>5, <1>7
<1> QED BY <1>8, Zenon DEF A, D, F, day

(* The sums over the closed trades, likewise.                                  *)
LEMMA SumsDerived ==
  /\ \A S : Pnl(S) = PnlSum(trades, S)
  /\ \A S : LossesIn(S) = Cardinality(Losers(trades, S))
  /\ {EquityAfter(k) : k \in 0..Len(trades)} = Highs(trades)
<1>1. \A S : Pnl(S) = PnlSum(trades, S)
  BY DEF Pnl, PnlSum
<1>2. \A k \in 0..Len(trades) : EquityAfter(k) = PnlSum(trades, 1..k)
  BY <1>1 DEF EquityAfter
<1>3. \A S : LossesIn(S) = Cardinality(Losers(trades, S))
  BY DEF LossesIn, Losers
<1> QED BY <1>1, <1>2, <1>3 DEF Highs

(* The account the trades give, field by field.                                *)
LEMMA DerivedFields ==
  ASSUME NEW now
  PROVE  LET d == Derived(now)
             n == Len(trades)
             today == OnDay(trades, Day(now))
         IN /\ d.equity = EquityAfter(n)
            /\ d.equity_high = Max(Highs(trades))
            /\ d.drawdown = Max(Highs(trades)) - EquityAfter(n)
            /\ d.day_pnl = Pnl(today)
            /\ d.week_pnl = Pnl(InTheWeek(trades, Week(now)))
            /\ d.trades_today = Cardinality({ts \in Entries : Day(ts) = Day(now)})
            /\ d.losses_today = LossesIn(today)
            /\ d.streak = Cardinality({k \in ClosedTrades : LossesIn(k..n) = n - k + 1})
            /\ d.last_exit = LastOf(trades)
            /\ d.since_exit = (IF n = 0 THEN Never ELSE now - trades[n].closed_at)
            /\ d.since_entry = (IF Entries = {} THEN Never ELSE now - Max(Entries))
            /\ d.open_positions = (IF Holding THEN 1 ELSE 0)
            /\ d.is_weekend = is_weekend(now)
<1> DEFINE n == Len(trades)
           today == {k \in ClosedTrades : Day(trades[k].closed_at) = Day(now)}
           week == {k \in ClosedTrades : Week(trades[k].closed_at) = Week(now)}
           high == Max({EquityAfter(k) : k \in 0..n})
           v1 == EquityAfter(n)
           v3 == high - EquityAfter(n)
           v4 == Pnl(today)
           v5 == Pnl(week)
           v6 == Cardinality({ts \in Entries : Day(ts) = Day(now)})
           v7 == LossesIn(today)
           v8 == Cardinality({k \in ClosedTrades : LossesIn(k..n) = n - k + 1})
           v9 == IF n = 0 THEN NoExit ELSE [sold |-> trades[n].sold, pnl |-> trades[n].pnl]
           v10 == IF n = 0 THEN Never ELSE now - trades[n].closed_at
           v11 == IF Entries = {} THEN Never ELSE now - Max(Entries)
           v12 == IF Holding THEN 1 ELSE 0
           v13 == is_weekend(now)
           d == [equity |-> v1, equity_high |-> high, drawdown |-> v3, day_pnl |-> v4,
                 week_pnl |-> v5, trades_today |-> v6, losses_today |-> v7, streak |-> v8,
                 last_exit |-> v9, since_exit |-> v10, since_entry |-> v11,
                 open_positions |-> v12, is_weekend |-> v13]
<1>1. Derived(now) = d
  BY DEF Derived
<1>2. today = OnDay(trades, Day(now)) /\ week = InTheWeek(trades, Week(now))
      /\ high = Max(Highs(trades)) /\ v9 = LastOf(trades)
  BY SumsDerived DEF OnDay, InTheWeek, ClosedTrades, LastOf
<1> HIDE DEF today, week, high, v1, v3, v4, v5, v6, v7, v8, v9, v10, v11, v12, v13
<1>3. /\ d.equity = v1 /\ d.equity_high = high /\ d.drawdown = v3 /\ d.day_pnl = v4
      /\ d.week_pnl = v5 /\ d.trades_today = v6 /\ d.losses_today = v7 /\ d.streak = v8
      /\ d.last_exit = v9 /\ d.since_exit = v10 /\ d.since_entry = v11
      /\ d.open_positions = v12 /\ d.is_weekend = v13
  OBVIOUS
<1> HIDE DEF d
<1> QED BY <1>1, <1>2, <1>3 DEF v1, v3, v4, v5, v6, v7, v8, v10, v11, v12, v13

(* The account the loop carries is, on every bar, the one build_from_db would   *)
(* derive from the trades, but for the entries a rollover forgets.             *)
THEOREM AccountDerived ==
  Spec => []StateIsDerived
<1>1. IInv /\ Ledger => StateIsDerived
  <2> SUFFICES ASSUME IInv, Ledger, phase = "enter"
               PROVE  LET d == Derived(idx[i])
                      IN /\ \A f \in {"equity", "equity_high", "drawdown", "day_pnl", "week_pnl",
                                       "losses_today", "streak", "last_exit", "open_positions"} :
                              state[f] = d[f]
                         /\ state.trades_today
                              = d.trades_today - Cardinality(Forgotten(Day(idx[i])))
    BY DEF StateIsDerived
  <2> DEFINE d == Derived(idx[i])
             n == Len(trades)
             today == OnDay(trades, Day(idx[i]))
  <2>1. Now = idx[i] /\ Now \in Nat /\ trades \in Seq(Trade)
    BY Nows DEF IInv, Books
  <2>2. /\ Money(state, trades) /\ Lately(state, trades)
        /\ Daily(state, idx[i], trades, Entries) /\ Elapsed(idx[i], trades, Entries)
        /\ state.open_positions = (IF Holding THEN 1 ELSE 0)
        /\ \A e \in Entries : e <= idx[i]
    BY <2>1 DEF Ledger
  <2>3. /\ d.equity = EquityAfter(n) /\ d.equity_high = Max(Highs(trades))
        /\ d.drawdown = Max(Highs(trades)) - EquityAfter(n)
        /\ d.day_pnl = Pnl(today) /\ d.week_pnl = Pnl(InTheWeek(trades, Week(idx[i])))
        /\ d.trades_today = Cardinality({ts \in Entries : Day(ts) = Day(idx[i])})
        /\ d.losses_today = LossesIn(today)
        /\ d.streak = Cardinality({k \in ClosedTrades : LossesIn(k..n) = n - k + 1})
        /\ d.last_exit = LastOf(trades) /\ d.open_positions = (IF Holding THEN 1 ELSE 0)
    BY DerivedFields
  <2>4. Max(Highs(trades)) = state.equity_high
    BY <2>1, <2>2, HighsTyped, MaxIs DEF Money
  <2> HIDE DEF d
  <2>5. /\ d.equity = state.equity /\ d.equity_high = state.equity_high
        /\ d.drawdown = state.drawdown
    BY <2>2, <2>3, <2>4, SumsDerived DEF Money, EquityAfter
  <2>6. /\ d.day_pnl = state.day_pnl /\ d.week_pnl = state.week_pnl
        /\ d.losses_today = state.losses_today
    BY <2>2, <2>3, SumsDerived DEF Daily
  <2>7. d.streak = state.streak /\ d.last_exit = state.last_exit
    BY <2>1, <2>2, <2>3, LosingDerived DEF Lately
  <2>8. state.trades_today = d.trades_today - Cardinality(Forgotten(Day(idx[i])))
    <3>1. state.trades_today = Cardinality(DecidedOn(Entries, Day(idx[i])))
      BY <2>2 DEF Daily
    <3> QED BY <2>1, <2>2, <2>3, <3>1, EntriesOfDay
  <2>9. d.open_positions = state.open_positions
    BY <2>2, <2>3
  <2> QED BY <2>5, <2>6, <2>7, <2>8, <2>9 DEF d
<1> QED BY BacktestInvariant, BacktestLedger, <1>1, PTL

-----------------------------------------------------------------------------
(* The bars of the last exit and of the last entry.                            *)

Counters ==
  phase # "done" =>
    /\ trades = <<>> => last_exit = 0
    /\ Entries = {} => last_entry = 0
    /\ Entries # {} => /\ last_entry - 1 \in first_eval..last_eval /\ last_entry \in Nat
                       /\ last_entry <= i
                       /\ idx[last_entry - 1] + 1 \in Entries
                       /\ \A e \in Entries : e <= idx[last_entry - 1] + 1

(* What holds at the start and each action keep the counters.                  *)
LEMMA InitCounters ==
  Init => Counters
<1> SUFFICES ASSUME Init PROVE Counters
  OBVIOUS
<1>1. last_exit = 0 /\ last_entry = 0 /\ DOMAIN trades = {} /\ ~Holding
  BY DEF Init, Holding
<1>2. Entries = {}
  BY <1>1 DEF Entries, ClosedTrades
<1> QED BY <1>1, <1>2 DEF Counters

LEMMA ManageCounters ==
  IInv /\ Counters /\ Manage => Counters'
<1> SUFFICES ASSUME IInv, Counters, Manage PROVE Counters'
  OBVIOUS
<1> DEFINE s == Rolled(state, idx[IF i = first_eval THEN i ELSE i - 1], idx[i])
           held == i - position.opened_index
<1>1. /\ Frame /\ Walk /\ Books /\ Open /\ trades \in Seq(Trade)
      /\ phase = "manage" /\ phase' = "enter" /\ phase # "done"
      /\ UNCHANGED <<idx, window, i, last_entry>>
  BY DEF IInv, Manage, Books
<1>2. first_eval' = first_eval /\ last_eval' = last_eval /\ i \in first_eval..last_eval
  BY <1>1, SameEvals DEF Walk
<1>3. Entries' = Entries /\ (trades' = <<>> => trades = <<>> /\ last_exit' = last_exit)
  <2>1. CASE UNCHANGED <<position, last_exit, trades>>
    BY <2>1 DEF Entries, ClosedTrades, Holding
  <2>2. ASSUME Holding, NEW sold \in MayExit(held) \ {"none"}, NEW pnl \in PnlOf(sold),
               ClosedAt(i, s, sold, pnl)
        PROVE  Entries' = Entries /\ trades' # <<>>
    <3>1. sold \in ExitReasons
      BY DEF MayExit, ExitReasons
    <3>0. PICK t \in Trade : ClosesWith(i, s, t)
      <4> HIDE DEF s, held
      <4> QED BY <1>1, <1>2, <2>2, <3>1, TradeClosed
    <3>2. /\ trades' = Append(trades, t) /\ position' = NoPosition
          /\ state' = update_after_close(s, t.pnl, t.sold)
          /\ t.opened_at = position.opened_at /\ t.closed_at = idx[i]
      BY <3>0 DEF ClosesWith
    <3> QED BY <1>1, <2>2, <3>2, EntriesPass
  <2>3. \/ UNCHANGED <<position, last_exit, trades>>
        \/ /\ Holding
           /\ \E sold \in MayExit(held) \ {"none"} : \E pnl \in PnlOf(sold) :
                ClosedAt(i, s, sold, pnl)
    BY DEF Manage
  <2> HIDE DEF s, held
  <2> QED BY <2>1, <2>2, <2>3
<1> QED BY <1>1, <1>2, <1>3 DEF Counters

LEMMA StayOutCounters ==
  IInv /\ Counters /\ StayOut => Counters'
<1> SUFFICES ASSUME IInv, Counters, StayOut PROVE Counters'
  OBVIOUS
<1>1. /\ phase = "enter" /\ NextBar /\ phase # "done" /\ Frame /\ Walk
      /\ UNCHANGED <<idx, window, position, last_entry, last_exit, trades>>
  BY DEF IInv, StayOut
<1>2. i' = i + 1 /\ i \in Int /\ first_eval' = first_eval /\ last_eval' = last_eval
  BY <1>1, NextBarWalks DEF Walk
<1>3. Entries' = Entries
  BY <1>1 DEF Entries, ClosedTrades, Holding
<1>4. \A b \in Nat : b <= i => b <= i + 1
  BY <1>2
<1> QED BY <1>1, <1>2, <1>3, <1>4 DEF Counters

LEMMA EnterCounters ==
  IInv /\ Ledger /\ Counters /\ Enter => Counters'
<1> SUFFICES ASSUME IInv, Ledger, Counters, Enter PROVE Counters'
  OBVIOUS
<1> DEFINE e == idx[i] + 1
<1>1. /\ phase = "enter" /\ phase # "done" /\ ~Holding /\ NextBar
      /\ position' = [opened_at |-> e, opened_index |-> i + 1] /\ last_entry' = i + 1
      /\ UNCHANGED <<idx, window, last_exit, trades>> /\ Frame /\ Walk
  BY DEF IInv, Enter
<1>2. /\ i' = i + 1 /\ i \in first_eval..last_eval
      /\ first_eval' = first_eval /\ last_eval' = last_eval
  BY <1>1, NextBarWalks
<1>3. first_eval \in Nat /\ last_eval \in Nat /\ i \in Nat /\ idx[i] \in Nat
  <2>1. first_eval \in Nat /\ last_eval \in Nat /\ idx[i] \in Nat
    BY <1>1, <1>2, Evals DEF Frame
  <2> QED BY <1>2, <2>1
<1>4. Entries' = Entries \cup {e}
  <2>1. position'.opened_at = e /\ e # 0
    BY <1>1, <1>3
  <2>2. Holding'
    BY <2>1 DEF Holding, NoPosition
  <2>3. Entries' = {trades[k].opened_at : k \in DOMAIN trades} \cup {e}
    BY <1>1, <2>1, <2>2 DEF Entries, ClosedTrades
  <2>4. Entries = {trades[k].opened_at : k \in DOMAIN trades}
    BY <1>1 DEF Entries, ClosedTrades
  <2> QED BY <2>3, <2>4
<1>5. \A f \in Entries : f \in Nat /\ f <= idx[i]
  BY <1>1 DEF Ledger, Elapsed
<1>6. /\ (i + 1) - 1 = i /\ i + 1 \in Nat /\ i + 1 <= i + 1
      /\ \A f \in Entries \cup {e} : f <= e
  BY <1>3, <1>5
<1>7. trades = <<>> => last_exit = 0
  BY <1>1 DEF Counters
<1> HIDE DEF e
<1> QED BY <1>1, <1>2, <1>4, <1>6, <1>7 DEF Counters, e

(* The bars of the last exit and of the last entry are those of the trades.    *)
THEOREM BacktestCounters ==
  Spec => []Counters
<1>1. Counters /\ Finish => Counters'
  BY DEF Finish, Counters
<1>2. Counters /\ UNCHANGED vars => Counters'
  BY DEF Counters, vars, first_eval, last_eval, Entries, ClosedTrades, Holding
<1>3. IInv /\ Ledger /\ Counters /\ [Next]_vars => Counters'
  BY <1>1, <1>2, ManageCounters, StayOutCounters, EnterCounters DEF Next
<1> QED BY BacktestInvariant, BacktestLedger, InitCounters, <1>3, PTL DEF Spec

(* Between two bars passes no less time than there are bars.                   *)
LEMMA TimePasses ==
  ASSUME Frame, NEW a \in 1..Size, NEW b \in 1..Size, a <= b
  PROVE  idx[a] \in Nat /\ idx[b] \in Nat /\ b - a <= idx[b] - idx[a]
<1>1. idx[a] \in Nat /\ idx[b] \in Nat /\ Size \in Nat
      /\ idx \in [1..Size -> Int] /\ Rising(idx)
  BY FrameOfInts
<1>2. idx[a] <= idx[b]
  <2>1. a < b => idx[a] < idx[b]
    BY <1>1 DEF Rising
  <2> QED BY <1>1, <2>1
<1> DEFINE T == {ts \in ToSet(idx) : idx[a] <= ts /\ ts < idx[b]}
           R == idx[a]..(idx[b] - 1)
<1>3. Cardinality(T) = b - a
  <2>1. BarsFrom(idx[a], idx[b]) = b - a
    BY <1>1, BarsUpTo
  <2> QED BY <2>1 DEF BarsFrom
<1>4. T \subseteq R
  <2>1. ToSet(idx) \subseteq Int
    BY <1>1 DEF ToSet
  <2> QED BY <1>1, <2>1
<1>5. IsFiniteSet(R) /\ Cardinality(R) = idx[b] - idx[a]
  <2> DEFINE l == idx[a]
             h == idx[b] - 1
  <2>1. l \in Int /\ h \in Int /\ h - l + 1 = idx[b] - idx[a] /\ (l > h => idx[b] - idx[a] = 0)
    BY <1>1, <1>2
  <2> HIDE DEF l, h
  <2>2. IsFiniteSet(l..h)
    BY <2>1, FS_Interval
  <2>3. Cardinality(l..h) = IF l > h THEN 0 ELSE h - l + 1
    BY <2>1, FS_Interval
  <2>4. Cardinality(l..h) = idx[b] - idx[a]
    BY <2>1, <2>3
  <2> QED BY <2>2, <2>4 DEF l, h
<1> HIDE DEF T, R
<1>6. Cardinality(T) <= Cardinality(R)
  BY <1>4, <1>5, FS_Subset
<1> QED BY <1>1, <1>3, <1>5, <1>6

-----------------------------------------------------------------------------
(* The live tick looks one slot later: a bar of the backtest, or less.         *)

(* On a later day or week nothing has happened yet.                            *)
LEMMA NothingYet ==
  ASSUME trades \in Seq(Trade), NEW now \in Nat, NEW later \in Nat, now < later,
         Elapsed(now, trades, Entries), \A e \in Entries : e <= now
  PROVE  /\ Day(later) # Day(now) =>
              /\ OnDay(trades, Day(later)) = {}
              /\ {e \in Entries : Day(e) = Day(later)} = {}
         /\ Week(later) # Week(now) => InTheWeek(trades, Week(later)) = {}
<1>1. /\ Day(now) \in Nat /\ Day(later) \in Nat /\ Day(now) <= Day(later)
      /\ Week(now) \in Nat /\ Week(later) \in Nat /\ Week(now) <= Week(later)
  <2>1. now <= later
    OBVIOUS
  <2> QED BY <2>1, LaterDays
<1>2. ASSUME NEW c \in Nat, c <= now
      PROVE  /\ Day(c) \in Nat /\ Day(c) <= Day(now) /\ Week(c) \in Nat /\ Week(c) <= Week(now)
  BY <1>2, LaterDays
<1>3. \A k \in DOMAIN trades : trades[k].closed_at \in Nat /\ trades[k].closed_at <= now
  BY TradesAre DEF Elapsed
<1>4. \A e \in Entries : e \in Nat /\ e <= now
  BY DEF Elapsed
<1>5. ASSUME Day(later) # Day(now)
      PROVE  /\ OnDay(trades, Day(later)) = {}
             /\ {e \in Entries : Day(e) = Day(later)} = {}
  <2>1. Day(now) < Day(later)
    BY <1>1, <1>5
  <2>2. OnDay(trades, Day(later)) = {}
    BY <1>1, <1>2, <1>3, <2>1 DEF OnDay
  <2>3. {e \in Entries : Day(e) = Day(later)} = {}
    BY <1>1, <1>2, <1>4, <2>1
  <2> QED BY <2>2, <2>3
<1>6. ASSUME Week(later) # Week(now)
      PROVE  InTheWeek(trades, Week(later)) = {}
  <2>1. Week(now) < Week(later)
    BY <1>1, <1>6
  <2> QED BY <1>1, <1>2, <1>3, <2>1 DEF InTheWeek
<1> QED BY <1>5, <1>6

(* What the gates let pass of one account they let pass of another that is no   *)
(* worse: no more lost or traded in its day and week, the same equity and last *)
(* trade, and no less time since.                                              *)
NoWorse(s, u) ==
  /\ u.day_pnl > -max_daily_loss /\ u.week_pnl > -max_weekly_loss
  /\ u.drawdown = s.drawdown
  /\ u.trades_today < max_trades_per_day /\ u.losses_today < max_losses_per_day
  /\ u.streak = s.streak /\ u.last_exit = s.last_exit
  /\ s.since_exit \in Int /\ u.since_exit \in Int /\ s.since_exit <= u.since_exit
  /\ s.since_entry \in Int /\ u.since_entry \in Int /\ s.since_entry <= u.since_entry

(* If an account may enter, one that is no worse may.                          *)
LEMMA NoWorsePasses ==
  ASSUME NEW s, NEW u, NEW flat, Gates(s, flat), NoWorse(s, u)
  PROVE  Gates(u, TRUE)
<1>1. /\ cooldown_after_consecutive_losses_bars \in Int /\ cooldown_after_stop_out_bars \in Int
      /\ reentry_after_loss_same_direction_bars \in Int /\ min_bars_between_entries \in Int
  <2>1. \A n \in {cooldown_after_consecutive_losses_bars, cooldown_after_stop_out_bars,
                  reentry_after_loss_same_direction_bars, min_bars_between_entries} : n \in Int
    BY BacktestAssumption
  <2> QED BY <2>1
<1>2. ASSUME NEW n \in Int, u.since_exit < n PROVE s.since_exit < n
  BY <1>2 DEF NoWorse
<1>3. u.since_entry >= min_bars_between_entries
  BY <1>1 DEF NoWorse, Gates
<1>4. /\ u.day_pnl > -max_daily_loss /\ u.week_pnl > -max_weekly_loss
      /\ u.trades_today < max_trades_per_day /\ u.losses_today < max_losses_per_day
  BY DEF NoWorse
<1>5. u.drawdown < max_drawdown
  BY DEF NoWorse, Gates
<1>6. /\ ~ /\ u.streak >= cooldown_after_consecutive_losses
           /\ u.since_exit < cooldown_after_consecutive_losses_bars
      /\ ~ /\ u.last_exit.sold = "sl"
           /\ u.since_exit < cooldown_after_stop_out_bars
      /\ ~ /\ u.last_exit.pnl < 0
           /\ u.since_exit < reentry_after_loss_same_direction_bars
  BY <1>1, <1>2 DEF NoWorse, Gates
<1> QED BY <1>3, <1>4, <1>5, <1>6, Zenon DEF Gates

(* The counters in bars against the times of the trades and entries.            *)
LEMMA TimesSince ==
  ASSUME IInv, Ledger, Counters, phase = "enter"
  PROVE  LET now == idx[i] + 1
             d == Derived(now)
         IN /\ BarsSince(last_exit) \in Int /\ d.since_exit \in Int
            /\ BarsSince(last_exit) <= d.since_exit
            /\ BarsSince(last_entry) \in Int /\ d.since_entry \in Int
            /\ BarsSince(last_entry) <= d.since_entry
<1> DEFINE now == idx[i] + 1
           d == Derived(now)
           n == Len(trades)
<1>1. /\ Frame /\ Walk /\ Memory /\ trades \in Seq(Trade) /\ phase # "done"
      /\ n \in Nat /\ Never \in Nat
  BY BacktestAssumption DEF IInv, Books, Never
<1>2. first_eval \in Nat /\ first_eval >= 1 /\ i \in 1..Size /\ i \in Nat /\ idx[i] \in Nat
      /\ \A k \in first_eval..last_eval : k \in 1..Size
  <2>1. i \in first_eval..last_eval
    BY <1>1 DEF Walk
  <2> QED BY <1>1, <2>1, Evals
<1>3. /\ d.since_exit = (IF n = 0 THEN Never ELSE now - trades[n].closed_at)
      /\ d.since_entry = (IF Entries = {} THEN Never ELSE now - Max(Entries))
  BY DerivedFields
<1> HIDE DEF d
<1>4. /\ BarsSince(last_exit) \in Int /\ d.since_exit \in Int
      /\ BarsSince(last_exit) <= d.since_exit
  <2>1. CASE n = 0
    <3>1. last_exit = 0
      <4>1. trades = <<>>
        BY <1>1, <2>1
      <4> QED BY <1>1, <4>1 DEF Counters
    <3> QED BY <1>1, <1>3, <2>1, <3>1 DEF BarsSince
  <2>2. CASE n # 0
    <3>1. last_exit \in first_eval..last_eval /\ last_exit <= i
          /\ trades[n].closed_at = idx[last_exit]
      BY <1>1, <2>2 DEF Memory
    <3>2. last_exit \in 1..Size /\ last_exit # 0 /\ last_exit \in Int
      BY <1>2, <3>1
    <3>3. idx[last_exit] \in Nat /\ i - last_exit <= idx[i] - idx[last_exit]
      BY <1>1, <1>2, <3>1, <3>2, TimePasses
    <3>4. BarsSince(last_exit) = i - last_exit /\ d.since_exit = now - idx[last_exit]
      BY <1>3, <2>2, <3>1, <3>2 DEF BarsSince
    <3> QED BY <1>2, <3>2, <3>3, <3>4
  <2> QED BY <2>1, <2>2
<1>5. /\ BarsSince(last_entry) \in Int /\ d.since_entry \in Int
      /\ BarsSince(last_entry) <= d.since_entry
  <2>1. CASE Entries = {}
    <3>1. last_entry = 0
      BY <1>1, <2>1 DEF Counters
    <3> QED BY <1>1, <1>3, <2>1, <3>1 DEF BarsSince
  <2>2. CASE Entries # {}
    <3> DEFINE b == last_entry - 1
               e == idx[b] + 1
    <3>1. /\ b \in first_eval..last_eval /\ last_entry \in Nat /\ last_entry <= i
          /\ e \in Entries /\ \A f \in Entries : f <= e
      BY <1>1, <2>2 DEF Counters
    <3>2. b \in 1..Size /\ b <= i /\ last_entry # 0
      BY <1>2, <3>1
    <3>3. idx[b] \in Nat /\ i - b <= idx[i] - idx[b]
      BY <1>1, <1>2, <3>2, TimePasses
    <3>4. Max(Entries) = e
      <4>1. Entries \in SUBSET Int
        BY <1>1 DEF Ledger, Elapsed
      <4> HIDE DEF e
      <4> QED BY <3>1, <4>1, MaxIs
    <3>5. BarsSince(last_entry) = i - last_entry /\ d.since_entry = now - e
      BY <1>3, <2>2, <3>2, <3>4 DEF BarsSince
    <3> QED BY <1>2, <3>1, <3>3, <3>5
  <2> QED BY <2>1, <2>2
<1> QED BY <1>4, <1>5 DEF d

(* Where the backtest may enter, live would be no worse off.                   *)
LEMMA LiveNoWorse ==
  ASSUME IInv, Ledger, Counters, phase = "enter", Approved(Aged),
         Forgotten(Day(idx[i] + 1)) = {}
  PROVE  NoWorse(Aged, Derived(idx[i] + 1))
<1> DEFINE now == idx[i]
           later == idx[i] + 1
           d == Derived(later)
           n == Len(trades)
           today == OnDay(trades, Day(later))
           entered == {e \in Entries : Day(e) = Day(later)}
<1>1. now = Now /\ now \in Nat /\ later \in Nat /\ now < later /\ trades \in Seq(Trade)
  <2>1. now = Now /\ now \in Nat /\ trades \in Seq(Trade)
    BY Nows DEF IInv, Books
  <2> QED BY <2>1
<1>2. /\ Money(state, trades) /\ Lately(state, trades)
      /\ Daily(state, now, trades, Entries) /\ Elapsed(now, trades, Entries)
      /\ \A e \in Entries : e <= now
  BY <1>1 DEF Ledger
<1>3. /\ SameMoney(state, Aged) /\ SameLately(state, Aged) /\ SameDaily(state, Aged)
      /\ Aged.since_exit = BarsSince(last_exit) /\ Aged.since_entry = BarsSince(last_entry)
  BY AgesTo DEF IInv, Books
<1>4. /\ d.drawdown = Max(Highs(trades)) - EquityAfter(n)
      /\ d.day_pnl = Pnl(today) /\ d.week_pnl = Pnl(InTheWeek(trades, Week(later)))
      /\ d.trades_today = Cardinality(entered) /\ d.losses_today = LossesIn(today)
      /\ d.streak = Cardinality({k \in ClosedTrades : LossesIn(k..n) = n - k + 1})
      /\ d.last_exit = LastOf(trades)
  BY DerivedFields
<1>5. /\ d.since_exit \in Int /\ BarsSince(last_exit) \in Int
      /\ BarsSince(last_exit) <= d.since_exit
      /\ d.since_entry \in Int /\ BarsSince(last_entry) \in Int
      /\ BarsSince(last_entry) <= d.since_entry
  BY TimesSince
<1>6. /\ Aged.day_pnl > -max_daily_loss /\ Aged.week_pnl > -max_weekly_loss
      /\ Aged.trades_today < max_trades_per_day /\ Aged.losses_today < max_losses_per_day
  BY DEF Approved, Gates
<1>7. /\ max_daily_loss \in Nat \ {0} /\ max_weekly_loss \in Nat \ {0}
      /\ max_trades_per_day \in Nat \ {0} /\ max_losses_per_day \in Nat \ {0}
      /\ 0 > -max_daily_loss /\ 0 > -max_weekly_loss
      /\ 0 < max_trades_per_day /\ 0 < max_losses_per_day
  <2>1. \A l \in {max_daily_loss, max_weekly_loss, max_trades_per_day, max_losses_per_day} :
          l \in Nat \ {0}
    BY BacktestAssumption
  <2> QED BY <2>1
<1>8. Cardinality({}) = 0
  BY FS_EmptySet
<1>9. /\ Day(later) # Day(now) => today = {} /\ entered = {}
      /\ Week(later) # Week(now) => InTheWeek(trades, Week(later)) = {}
  BY <1>1, <1>2, NothingYet
<1> HIDE DEF d
<1>10. d.day_pnl > -max_daily_loss /\ d.losses_today < max_losses_per_day
  <2>1. CASE Day(later) = Day(now)
    <3>1. /\ Pnl(today) = state.day_pnl /\ LossesIn(today) = state.losses_today
      BY <1>2, <2>1, SumsDerived DEF Daily
    <3> QED BY <1>3, <1>4, <1>6, <3>1 DEF SameDaily
  <2>2. CASE Day(later) # Day(now)
    <3>1. Pnl({}) = 0 /\ LossesIn({}) = 0
      <4>1. Losers(trades, {}) = {}
        BY DEF Losers
      <4>2. PnlSum(trades, {}) = 0
        BY PnlEmpty
      <4> QED BY <1>8, <4>1, <4>2, SumsDerived
    <3> QED BY <1>4, <1>7, <1>9, <2>2, <3>1
  <2> QED BY <2>1, <2>2
<1>11. d.week_pnl > -max_weekly_loss
  <2>1. CASE Week(later) = Week(now)
    <3>1. Pnl(InTheWeek(trades, Week(later))) = state.week_pnl
      BY <1>2, <2>1, SumsDerived DEF Daily
    <3> QED BY <1>3, <1>4, <1>6, <3>1 DEF SameDaily
  <2>2. CASE Week(later) # Week(now)
    <3>1. Pnl({}) = 0
      BY PnlEmpty, SumsDerived
    <3> QED BY <1>4, <1>7, <1>9, <2>2, <3>1
  <2> QED BY <2>1, <2>2
<1>12. d.trades_today < max_trades_per_day
  <2>1. CASE Day(later) = Day(now)
    <3>1. state.trades_today = Cardinality(DecidedOn(Entries, Day(now)))
      BY <1>2 DEF Daily
    <3>2. Cardinality(DecidedOn(Entries, Day(now)))
            = Cardinality({e \in Entries : Day(e) = Day(now)})
                - Cardinality(Forgotten(Day(now)))
      BY <1>1, <1>2, EntriesOfDay
    <3>3. Cardinality(Forgotten(Day(now))) = 0
      BY <1>8, <2>1
    <3>4. {e \in Entries : Day(e) = Day(now)} = entered
      BY <2>1
    <3>5. Cardinality(entered) \in Nat
      <4>1. IsFiniteSet(Entries) /\ entered \subseteq Entries
        BY <1>1, EntriesFinite
      <4>2. IsFiniteSet(entered)
        BY <4>1, FS_Subset
      <4> QED BY <4>2, FS_CardinalityType
    <3> HIDE DEF entered
    <3>6. state.trades_today = Cardinality(entered)
      <4>1. Cardinality({e \in Entries : Day(e) = Day(now)}) = Cardinality(entered)
        BY <3>4
      <4>2. state.trades_today = Cardinality(entered) - 0
        BY <3>1, <3>2, <3>3, <4>1
      <4> QED BY <3>5, <4>2
    <3> QED BY <1>3, <1>4, <1>6, <3>6 DEF SameDaily
  <2>2. CASE Day(later) # Day(now)
    BY <1>4, <1>7, <1>8, <1>9, <2>2
  <2> QED BY <2>1, <2>2
<1>13. d.drawdown = Aged.drawdown
  <2>1. Max(Highs(trades)) = state.equity_high
    BY <1>1, <1>2, HighsTyped, MaxIs DEF Money
  <2>2. EquityAfter(n) = state.equity
    BY <1>2, SumsDerived DEF Money, EquityAfter
  <2> QED BY <1>2, <1>3, <1>4, <2>1, <2>2 DEF Money, SameMoney
<1>14. d.streak = Aged.streak /\ d.last_exit = Aged.last_exit
  BY <1>1, <1>2, <1>3, <1>4, LosingDerived DEF Lately, SameLately
<1>15. NoWorse(Aged, d)
  BY <1>3, <1>5, <1>10, <1>11, <1>12, <1>13, <1>14 DEF NoWorse
<1> QED BY <1>15 DEF d

-----------------------------------------------------------------------------
(* The kill switch of the live loop.  Each trade was decided on by gates that   *)
(* passed on the trades before it; so no tick in between saw a limit broken,  *)
(* but for that of a week that was over before the next trade.                *)

DayTo(ts, n, now) == {k \in 1..n : Day(ts[k].closed_at) = Day(now)}
WeekTo(ts, n, now) == {k \in 1..n : Week(ts[k].closed_at) = Week(now)}
MayTrade(ts, n, now) ==
  /\ \A k \in 1..n : ts[k].closed_at <= now
  /\ \A k \in 0..n : PnlSum(ts, 1..k) - PnlSum(ts, 1..n) < max_drawdown
  /\ PnlSum(ts, WeekTo(ts, n, now)) > -max_weekly_loss
  /\ PnlSum(ts, DayTo(ts, n, now)) > -max_daily_loss
  /\ Cardinality(Losers(ts, DayTo(ts, n, now))) < max_losses_per_day

Gated ==
  /\ \A k \in DOMAIN trades : MayTrade(trades, k - 1, trades[k].opened_at - 1)
  /\ Holding => MayTrade(trades, Len(trades), position.opened_at - 1)

(* What the gates passed on is not changed by a later trade.                   *)
LEMMA MayTradeOn ==
  ASSUME NEW ts \in Seq(Trade), NEW t \in Trade, NEW n \in 0..Len(ts), NEW now,
         MayTrade(ts, n, now)
  PROVE  MayTrade(Append(ts, t), n, now)
<1> DEFINE us == Append(ts, t)
<1>1. Len(ts) \in Nat /\ DOMAIN ts = 1..Len(ts)
  OBVIOUS
<1>2. Extended(ts, t, us)
  BY OneMore
<1> HIDE DEF us
<1>3. /\ \A k \in DOMAIN ts : us[k] = ts[k]
      /\ \A S \in SUBSET DOMAIN ts : PnlSum(us, S) = PnlSum(ts, S) /\ Losers(us, S) = Losers(ts, S)
  BY <1>2 DEF Extended
<1>4. /\ \A k \in 0..n : 1..k \in SUBSET DOMAIN ts
      /\ n \in 0..n /\ \A k \in 1..n : k \in DOMAIN ts
  BY <1>1
<1>5. DayTo(us, n, now) = DayTo(ts, n, now) /\ WeekTo(us, n, now) = WeekTo(ts, n, now)
  BY <1>3, <1>4 DEF DayTo, WeekTo
<1>6. DayTo(ts, n, now) \in SUBSET DOMAIN ts /\ WeekTo(ts, n, now) \in SUBSET DOMAIN ts
  BY <1>4 DEF DayTo, WeekTo
<1>7. \A k \in 0..n : PnlSum(us, 1..k) = PnlSum(ts, 1..k)
  BY <1>3, <1>4
<1>8. MayTrade(us, n, now)
  BY <1>3, <1>4, <1>5, <1>6, <1>7 DEF MayTrade
<1> QED BY <1>8 DEF us

(* An entry's gates, on the trades so far.                                     *)
LEMMA EntryMayTrade ==
  ASSUME IInv, Ledger, phase = "enter", Approved(Aged)
  PROVE  MayTrade(trades, Len(trades), idx[i])
<1> DEFINE now == idx[i]
           n == Len(trades)
<1>1. now = Now /\ now \in Nat /\ trades \in Seq(Trade) /\ IsAccount(state)
  BY Nows DEF IInv, Books
<1>2. /\ Money(state, trades) /\ Daily(state, now, trades, Entries)
      /\ Elapsed(now, trades, Entries)
  BY <1>1 DEF Ledger
<1>3. SameMoney(state, Aged) /\ SameDaily(state, Aged)
  BY <1>1, AgesTo
<1>4. /\ Aged.day_pnl > -max_daily_loss /\ Aged.week_pnl > -max_weekly_loss
      /\ Aged.drawdown < max_drawdown /\ Aged.losses_today < max_losses_per_day
  BY DEF Approved, Gates
<1>5. /\ state.day_pnl > -max_daily_loss /\ state.week_pnl > -max_weekly_loss
      /\ state.drawdown < max_drawdown /\ state.losses_today < max_losses_per_day
  BY <1>3, <1>4 DEF SameMoney, SameDaily
<1>6. DOMAIN trades = 1..n /\ n \in Nat
  BY <1>1
<1> HIDE DEF now, n
<1>7. DayTo(trades, n, now) = OnDay(trades, Day(now)) /\ WeekTo(trades, n, now) = InTheWeek(trades, Week(now))
  BY <1>6 DEF DayTo, WeekTo, OnDay, InTheWeek
<1>8. ASSUME NEW k \in 0..n PROVE PnlSum(trades, 1..k) - PnlSum(trades, 1..n) < max_drawdown
  <2>1. PnlSum(trades, 1..k) \in Highs(trades) /\ Highs(trades) \in SUBSET Int
        /\ PnlSum(trades, 1..n) \in Highs(trades)
    BY <1>1, HighsTyped DEF Highs, n
  <2>2. /\ PnlSum(trades, 1..k) <= state.equity_high /\ state.equity_high \in Highs(trades)
        /\ state.drawdown = state.equity_high - PnlSum(trades, 1..n)
    BY <1>2, <2>1 DEF Money, n
  <2>3. max_drawdown \in Int
    BY BacktestAssumption
  <2> QED BY <1>5, <2>1, <2>2, <2>3
<1>9. /\ PnlSum(trades, WeekTo(trades, n, now)) > -max_weekly_loss
      /\ PnlSum(trades, DayTo(trades, n, now)) > -max_daily_loss
      /\ Cardinality(Losers(trades, DayTo(trades, n, now))) < max_losses_per_day
  BY <1>2, <1>5, <1>7 DEF Daily
<1>10. \A k \in 1..n : trades[k].closed_at <= now
  BY <1>2, <1>6 DEF Elapsed
<1> QED BY <1>8, <1>9, <1>10 DEF MayTrade, now, n

(* A close passes the decision on what was open to the list.                   *)
LEMMA CloseGated ==
  ASSUME trades \in Seq(Trade), Gated, Holding, NEW t \in Trade,
         trades' = Append(trades, t), position' = NoPosition, t.opened_at = position.opened_at
  PROVE  Gated'
<1> DEFINE n == Len(trades)
<1>1. n \in Nat /\ DOMAIN trades = 1..n /\ DOMAIN trades' = 1..(n + 1)
      /\ trades'[n + 1] = t /\ \A k \in 1..n : trades'[k] = trades[k]
  OBVIOUS
<1>2. ~Holding'
  BY DEF Holding
<1> HIDE DEF n
<1>3. ASSUME NEW k \in 1..(n + 1) PROVE MayTrade(trades', k - 1, trades'[k].opened_at - 1)
  <2>1. CASE k = n + 1
    <3>1. MayTrade(trades, n, t.opened_at - 1) /\ n \in 0..n /\ k - 1 = n
      BY <1>1, <2>1 DEF Gated, n
    <3>2. MayTrade(trades', n, t.opened_at - 1)
      BY <3>1, MayTradeOn DEF n
    <3> QED BY <1>1, <2>1, <3>1, <3>2
  <2>2. CASE k # n + 1
    <3>1. k \in 1..n /\ k - 1 \in 0..n
      BY <1>1, <2>2
    <3>2. MayTrade(trades, k - 1, trades[k].opened_at - 1)
      BY <1>1, <3>1 DEF Gated
    <3>3. MayTrade(trades', k - 1, trades[k].opened_at - 1)
      BY <3>1, <3>2, MayTradeOn DEF n
    <3> QED BY <1>1, <3>1, <3>3
  <2> QED BY <2>1, <2>2
<1> QED BY <1>1, <1>2, <1>3 DEF Gated

LEMMA GatedInit ==
  Init => Gated
<1> SUFFICES ASSUME Init PROVE Gated
  OBVIOUS
<1>1. DOMAIN trades = {} /\ ~Holding
  BY DEF Init, Holding
<1> QED BY <1>1 DEF Gated

LEMMA GatedStep ==
  IInv /\ Ledger /\ Gated /\ [Next]_vars => Gated'
<1> SUFFICES ASSUME IInv, Ledger, Gated, [Next]_vars PROVE Gated'
  OBVIOUS
<1>1. /\ Frame /\ Walk /\ Books /\ Open /\ trades \in Seq(Trade)
  BY DEF IInv, Books
<1>2. CASE UNCHANGED <<trades, position>>
  BY <1>2 DEF Gated, Holding
<1>3. ASSUME phase # "done", Holding, NEW k \in first_eval..last_eval, NEW s,
             NEW sold \in ExitReasons, NEW pnl \in PnlOf(sold), ClosedAt(k, s, sold, pnl)
      PROVE  Gated'
  <2>1. PICK t \in Trade : ClosesWith(k, s, t)
    BY <1>1, <1>3, TradeClosed
  <2> QED BY <1>1, <1>3, <2>1, CloseGated DEF ClosesWith
<1>4. CASE Manage
  <2> DEFINE s == Rolled(state, idx[IF i = first_eval THEN i ELSE i - 1], idx[i])
             held == i - position.opened_index
  <2>1. phase # "done" /\ i \in first_eval..last_eval
    BY <1>1, <1>4 DEF Manage, Walk
  <2>2. \/ UNCHANGED <<trades, position>>
        \/ /\ Holding
           /\ \E sold \in MayExit(held) \ {"none"} : \E pnl \in PnlOf(sold) :
                ClosedAt(i, s, sold, pnl)
    BY <1>4 DEF Manage
  <2> HIDE DEF s
  <2>3. \A sold \in MayExit(held) \ {"none"} : sold \in ExitReasons
    BY DEF MayExit, ExitReasons
  <2> HIDE DEF held
  <2> QED BY <1>2, <1>3, <2>1, <2>2, <2>3
<1>5. CASE Finish
  <2>1. phase # "done" /\ last_eval \in first_eval..last_eval /\ "reconciled" \in ExitReasons
    <3>1. phase = "end" /\ first_eval <= last_eval /\ phase # "done"
      BY <1>1, <1>5 DEF Finish, Walk
    <3>2. first_eval \in Nat /\ last_eval \in 1..Size /\ Size \in Nat
      BY <1>1, <3>1, Evals DEF Frame
    <3> QED BY <3>1, <3>2 DEF ExitReasons
  <2>2. \/ UNCHANGED <<trades, position>>
        \/ Holding /\ \E pnl \in PnlOf("reconciled") : ClosedAt(last_eval, state, "reconciled", pnl)
    BY <1>5 DEF Finish
  <2> QED BY <1>2, <1>3, <2>1, <2>2
<1>6. CASE Enter
  <2>1. /\ phase = "enter" /\ Approved(Aged) /\ trades' = trades
        /\ position'.opened_at = idx[i] + 1
    BY <1>6 DEF Enter
  <2>2. MayTrade(trades, Len(trades), idx[i]) /\ idx[i] \in Nat
    BY <1>1, <2>1, EntryMayTrade, Nows
  <2>3. position'.opened_at - 1 = idx[i]
    BY <2>1, <2>2
  <2> QED BY <2>1, <2>2, <2>3 DEF Gated
<1> QED BY <1>2, <1>4, <1>5, <1>6 DEF Next, vars, StayOut

(* Every trade was decided on by gates that passed on those before it.         *)
THEOREM BacktestGated ==
  Spec => []Gated
BY BacktestInvariant, BacktestLedger, GatedInit, GatedStep, PTL DEF Spec

(* What a tick has seen is the trades up to some one; and after it the backtest  *)
(* decided, on these trades, to trade again.                                   *)
LEMMA SeenThenTraded ==
  ASSUME IInv, Ledger, Gated, phase = "enter", Approved(Aged),
         NEW tick \in Nat, tick <= idx[i] + 1
  PROVE  \E n \in 0..Len(trades), d \in Nat :
           /\ SeenAt(tick) = 1..n /\ Cardinality(SeenAt(tick)) = n
           /\ MayTrade(trades, n, d) /\ d < idx[i] + 1
<1> DEFINE l == Len(trades)
           S == SeenAt(tick)
           at(k) == trades[k].closed_at
<1>1. /\ Frame /\ Past /\ trades \in Seq(Trade) /\ l \in Nat /\ DOMAIN trades = 1..l
      /\ idx[i] \in Nat /\ Now = idx[i]
  BY Nows DEF IInv, Books
<1>2. /\ MayTrade(trades, l, idx[i])
      /\ \A k \in 1..l : MayTrade(trades, k - 1, trades[k].opened_at - 1)
  BY <1>1, EntryMayTrade DEF Gated
<1>3. \A k \in 1..l : at(k) \in Nat /\ at(k) <= idx[i]
  BY <1>1, TradesAre DEF Ledger, Elapsed
<1>4. ASSUME NEW k \in 1..l
      PROVE  /\ trades[k].opened_at - 1 \in Nat /\ trades[k].opened_at - 1 < at(k)
             /\ \A j \in 1..l : j < k => at(j) <= trades[k].opened_at - 1
  <2>1. PICK e \in 1..Size, x \in 1..Size :
          e < x /\ trades[k].opened_at = idx[e] + 1 /\ at(k) = idx[x]
    BY <1>1 DEF Past, DoneRight
  <2>2. idx[e] \in Nat /\ idx[e] < idx[x]
    BY <1>1, <2>1, FrameOfInts DEF Rising
  <2>3. trades[k].opened_at - 1 = idx[e]
    BY <2>1, <2>2
  <2>4. ASSUME NEW j \in 1..l, j < k PROVE at(j) <= trades[k].opened_at - 1
    <3>1. j \in 1..(k - 1)
      BY <2>4
    <3> QED BY <1>2, <3>1 DEF MayTrade
  <2> QED BY <2>1, <2>2, <2>3, <2>4
<1>5. \A j, k \in 1..l : j < k => at(j) < at(k)
  <2> SUFFICES ASSUME NEW j \in 1..l, NEW k \in 1..l, j < k PROVE at(j) < at(k)
    OBVIOUS
  <2> DEFINE o == trades[k].opened_at - 1
  <2>1. o \in Nat /\ at(j) <= o /\ o < at(k) /\ at(j) \in Nat /\ at(k) \in Nat
    BY <1>3, <1>4
  <2> HIDE DEF o
  <2> QED BY <2>1
<1>6. S = {k \in 1..l : at(k) < tick}
  BY <1>1 DEF SeenAt, ClosedTrades
<1> HIDE DEF S, l, at
<1>7. \E n \in 0..l : S = 1..n
  <2>1. CASE S = {}
    <3>1. S = 1..0 /\ 0 \in 0..l
      BY <1>1, <2>1
    <3> QED BY <3>1
  <2>2. CASE S # {}
    <3>1. S \in SUBSET (0..l)
      BY <1>1, <1>6
    <3>2. PICK n \in S : \A y \in S : y <= n
      BY <1>1, <2>2, <3>1, LargestIn
    <3>3. n \in 1..l /\ at(n) < tick
      BY <1>6, <3>2
    <3>4. ASSUME NEW k \in 1..n PROVE k \in S
      <4>1. k \in 1..l /\ (k = n \/ k < n)
        BY <1>1, <3>3
      <4>2. at(k) < tick
        BY <1>3, <1>5, <3>3, <4>1
      <4> QED BY <1>6, <4>1, <4>2
    <3>5. ASSUME NEW k \in S PROVE k \in 1..n
      BY <1>1, <1>6, <3>2, <3>5
    <3>6. S = 1..n /\ n \in 0..l
      <4>1. S = 1..n
        BY <3>4, <3>5
      <4> QED BY <1>1, <3>3, <4>1
    <3> QED BY <3>6
  <2> QED BY <2>1, <2>2
<1>8. PICK n \in 0..l : S = 1..n
  BY <1>7
<1>9. Cardinality(S) = n
  <2>1. n \in Int
    BY <1>1
  <2>2. Cardinality(1..n) = IF 1 > n THEN 0 ELSE n - 1 + 1
    BY <2>1, FS_Interval
  <2> QED BY <1>1, <1>8, <2>2
<1>10. \E d \in Nat : MayTrade(trades, n, d) /\ d < idx[i] + 1
  <2>1. CASE n = l
    BY <1>1, <1>2, <2>1
  <2>2. CASE n # l
    <3> DEFINE k == n + 1
               d == trades[k].opened_at - 1
    <3>1. k \in 1..l /\ k - 1 = n
      BY <1>1, <2>2
    <3>2. d \in Nat /\ d < at(k) /\ at(k) <= idx[i] /\ at(k) \in Nat
      BY <1>3, <1>4, <3>1
    <3>3. MayTrade(trades, n, d)
      BY <1>2, <3>1
    <3> HIDE DEF d
    <3>4. d < idx[i] + 1
      BY <1>1, <3>2
    <3> QED BY <3>2, <3>3, <3>4
  <2> QED BY <2>1, <2>2
<1> QED BY <1>8, <1>9, <1>10 DEF S, l

(* The day and week of what a tick saw lost are those of the next decision, if  *)
(* they are not over.                                                         *)
LEMMA SameLosses ==
  ASSUME trades \in Seq(Trade), NEW n \in 0..Len(trades), NEW tick \in Nat, NEW d \in Nat,
         NEW now \in Nat, \A k \in 1..n : trades[k].closed_at <= d, d < now
  PROVE  /\ Day(tick) = Day(now) =>
              DayTo(trades, n, tick) = {} \/ DayTo(trades, n, tick) = DayTo(trades, n, d)
         /\ Week(tick) = Week(now) =>
              WeekTo(trades, n, tick) = {} \/ WeekTo(trades, n, tick) = WeekTo(trades, n, d)
<1>1. \A k \in 1..n : trades[k].closed_at \in Nat
  BY TradesAre
<1>2. /\ Day(d) \in Nat /\ Day(now) \in Nat /\ Day(d) <= Day(now)
      /\ Week(d) \in Nat /\ Week(now) \in Nat /\ Week(d) <= Week(now)
  <2>1. d <= now
    OBVIOUS
  <2> QED BY <2>1, LaterDays
<1>3. ASSUME NEW k \in 1..n
      PROVE  LET c == trades[k].closed_at
             IN Day(c) \in Nat /\ Day(c) <= Day(d) /\ Week(c) \in Nat /\ Week(c) <= Week(d)
  BY <1>1, LaterDays
<1>4. ASSUME Day(tick) = Day(now), NEW k \in DayTo(trades, n, tick) PROVE Day(d) = Day(tick)
  BY <1>2, <1>3, <1>4 DEF DayTo
<1>5. ASSUME Week(tick) = Week(now), NEW k \in WeekTo(trades, n, tick) PROVE Week(d) = Week(tick)
  BY <1>2, <1>3, <1>5 DEF WeekTo
<1> QED BY <1>4, <1>5 DEF DayTo, WeekTo

(* Of the values up to each, one is greatest.                                  *)
LEMMA GreatestUpTo ==
  ASSUME NEW n \in Nat, NEW c, \A k \in 1..n : c[k] \in Int
  PROVE  \A k \in 1..n : \E m \in 1..k : \A j \in 1..k : c[j] <= c[m]
<1> DEFINE T == {k \in 1..n : ~\E m \in 1..k : \A j \in 1..k : c[j] <= c[m]}
<1> SUFFICES ASSUME T # {} PROVE FALSE
  OBVIOUS
<1>1. PICK k \in T : \A m \in T : k <= m
  <2>1. T \in SUBSET (0..n)
    OBVIOUS
  <2> HIDE DEF T
  <2> QED BY <2>1, LeastIn
<1>2. k \in 1..n /\ ~\E m \in 1..k : \A j \in 1..k : c[j] <= c[m]
  OBVIOUS
<1>3. CASE k = 1
  <2>1. \A j \in 1..k : j = 1
    BY <1>3
  <2>2. c[1] <= c[1] /\ 1 \in 1..k
    BY <1>2, <1>3
  <2> QED BY <1>2, <2>1, <2>2
<1>4. CASE k # 1
  <2>1. k - 1 \in 1..n /\ k - 1 \notin T
    <3>1. k - 1 \in 1..n /\ ~(k <= k - 1)
      BY <1>2, <1>4
    <3> HIDE DEF T
    <3> QED BY <1>1, <3>1
  <2>2. PICK m \in 1..(k - 1) : \A j \in 1..(k - 1) : c[j] <= c[m]
    BY <2>1
  <2>3. m \in 1..n /\ m \in 1..k /\ k \in 1..k /\ c[m] \in Int /\ c[k] \in Int
    BY <1>2, <2>1
  <2>4. \A j \in 1..k : j = k \/ j \in 1..(k - 1)
    BY <1>2
  <2>5. \A j \in 1..k : c[j] \in Int
    BY <1>2
  <2> HIDE DEF T
  <2>6. CASE c[k] <= c[m]
    BY <1>2, <2>2, <2>3, <2>4, <2>6
  <2>7. CASE ~(c[k] <= c[m])
    <3>1. \A j \in 1..k : c[j] <= c[k]
      BY <2>2, <2>3, <2>4, <2>5, <2>7
    <3> QED BY <1>2, <2>3, <3>1
  <2> QED BY <2>6, <2>7
<1> QED BY <1>3, <1>4

(* One of the equities after the first trades is the highest.                  *)
LEMMA HighestEquity ==
  ASSUME NEW n \in Nat, \A k \in 0..n : EquityAfter(k) \in Int
  PROVE  \E k \in 0..n : \A j \in 0..n : EquityAfter(j) <= EquityAfter(k)
<1> DEFINE c == [k \in 1..(n + 1) |-> EquityAfter(k - 1)]
<1>1. \A k \in 1..(n + 1) : c[k] = EquityAfter(k - 1) /\ c[k] \in Int
  OBVIOUS
<1>2. n + 1 \in 1..(n + 1) /\ n + 1 \in Nat
  OBVIOUS
<1> HIDE DEF c
<1>3. \E m \in 1..(n + 1) : \A j \in 1..(n + 1) : c[j] <= c[m]
  BY <1>1, <1>2, GreatestUpTo
<1>4. PICK m \in 1..(n + 1) : \A j \in 1..(n + 1) : c[j] <= c[m]
  BY <1>3
<1>5. m - 1 \in 0..n
  OBVIOUS
<1>6. ASSUME NEW j \in 0..n PROVE EquityAfter(j) <= EquityAfter(m - 1)
  <2>1. j + 1 \in 1..(n + 1) /\ (j + 1) - 1 = j
    OBVIOUS
  <2>2. c[j + 1] = EquityAfter(j) /\ c[m] = EquityAfter(m - 1)
    BY <1>1, <2>1
  <2> QED BY <1>4, <2>1, <2>2
<1> QED BY <1>5, <1>6

(* If the switch may be engaged when the backtest enters, it is for a week that  *)
(* is over.                                                                   *)
LEMMA OnlyAWeekBefore ==
  ASSUME IInv, Ledger, Gated, phase = "enter", Approved(Aged), is_kill_switch(idx[i] + 1)
  PROVE  BadWeekBefore(idx[i] + 1)
<1> DEFINE now == idx[i] + 1
<1>1. /\ Frame /\ trades \in Seq(Trade) /\ idx[i] \in Nat /\ now \in Nat
      /\ Len(trades) \in Nat /\ DOMAIN trades = 1..Len(trades)
  <2>1. Frame /\ trades \in Seq(Trade) /\ idx[i] \in Nat
    BY Nows DEF IInv, Books
  <2> QED BY <2>1
<1>2. PICK tick \in Ticks(now) :
        DeepDrawdown(tick) \/ BadWeek(tick) \/ (BadDay(tick) /\ Day(tick) = Day(now))
  BY DEF is_kill_switch
<1>3. tick \in Nat /\ tick <= now
  BY <1>1 DEF Ticks
<1> HIDE DEF now
<1>4. PICK n \in 0..Len(trades), d \in Nat :
        /\ SeenAt(tick) = 1..n /\ Cardinality(SeenAt(tick)) = n
        /\ MayTrade(trades, n, d) /\ d < now
  BY <1>3, SeenThenTraded DEF now
<1>5. /\ Day(tick) = Day(now) =>
           DayTo(trades, n, tick) = {} \/ DayTo(trades, n, tick) = DayTo(trades, n, d)
      /\ Week(tick) = Week(now) =>
           WeekTo(trades, n, tick) = {} \/ WeekTo(trades, n, tick) = WeekTo(trades, n, d)
  BY <1>1, <1>3, <1>4, SameLosses DEF MayTrade
<1>6. /\ max_drawdown \in Int
      /\ 0 > -max_daily_loss /\ 0 > -max_weekly_loss /\ 0 < max_losses_per_day
      /\ max_daily_loss \in Int /\ max_weekly_loss \in Int /\ max_losses_per_day \in Int
  <2>1. \A l \in {max_daily_loss, max_weekly_loss, max_drawdown, max_losses_per_day} :
          l \in Int /\ l > 0
    BY BacktestAssumption
  <2>2. \A l \in Int : l > 0 => 0 > -l
    OBVIOUS
  <2>3. /\ max_drawdown \in Int /\ max_daily_loss \in Int /\ max_weekly_loss \in Int
        /\ max_losses_per_day \in Int
        /\ max_daily_loss > 0 /\ max_weekly_loss > 0 /\ max_losses_per_day > 0
    BY <2>1
  <2>4. 0 > -max_daily_loss /\ 0 > -max_weekly_loss /\ 0 < max_losses_per_day
    BY <2>2, <2>3
  <2> QED BY <2>3, <2>4
<1>7. PnlSum(trades, {}) = 0 /\ Cardinality(Losers(trades, {})) = 0
  <2>1. Losers(trades, {}) = {}
    BY DEF Losers
  <2>2. Cardinality({}) = 0
    BY FS_EmptySet
  <2> QED BY <2>1, <2>2, PnlEmpty
<1>8. /\ DayTo(trades, n, tick) \in SUBSET DOMAIN trades
      /\ WeekTo(trades, n, tick) \in SUBSET DOMAIN trades
      /\ \A k \in 0..n : 1..k \in SUBSET DOMAIN trades
  BY <1>1, <1>4 DEF DayTo, WeekTo
<1>9. ~DeepDrawdown(tick)
  <2> DEFINE T == {EquityAfter(k) : k \in 0..n}
             h == Max(T)
  <2>1. ASSUME NEW k \in 0..n
        PROVE  /\ EquityAfter(k) = PnlSum(trades, 1..k) /\ EquityAfter(k) \in Int
               /\ EquityAfter(k) - EquityAfter(n) < max_drawdown
    <3>1. EquityAfter(k) = PnlSum(trades, 1..k) /\ EquityAfter(n) = PnlSum(trades, 1..n)
      BY SumsDerived DEF EquityAfter
    <3>2. PnlSum(trades, 1..k) \in Int
      BY <1>1, <1>8, SetsOfTrades
    <3> QED BY <1>4, <3>1, <3>2 DEF MayTrade
  <2>2. \E k \in 0..n : \A j \in 0..n : EquityAfter(j) <= EquityAfter(k)
    <3>1. n \in Nat
      BY <1>1
    <3>2. \A k \in 0..n : EquityAfter(k) \in Int
      BY <2>1
    <3> QED BY <3>1, <3>2, HighestEquity
  <2>3. PICK k \in 0..n : \A j \in 0..n : EquityAfter(j) <= EquityAfter(k)
    BY <2>2
  <2>4. T \in SUBSET Int /\ EquityAfter(k) \in T /\ \A x \in T : x <= EquityAfter(k)
    BY <2>1, <2>3
  <2> HIDE DEF T
  <2>5. h = EquityAfter(k)
    BY <2>4, MaxIs
  <2>6. n \in 0..n /\ EquityAfter(k) - EquityAfter(n) < max_drawdown
        /\ EquityAfter(k) \in Int /\ EquityAfter(n) \in Int
    BY <1>4, <2>1
  <2> HIDE DEF h
  <2>7. ~(h - EquityAfter(n) >= max_drawdown)
    BY <1>6, <2>5, <2>6
  <2> QED BY <1>4, <2>7 DEF DeepDrawdown, h, T
<1>10. ASSUME BadWeek(tick) PROVE Week(tick) < Week(now)
  <2> DEFINE W == WeekTo(trades, n, tick)
  <2>1. PnlSum(trades, W) <= -max_weekly_loss
    <3>1. {k \in SeenAt(tick) : Week(trades[k].closed_at) = Week(tick)} = W
      BY <1>4 DEF WeekTo
    <3> QED BY <1>10, <3>1, SumsDerived DEF BadWeek
  <2>2. PnlSum(trades, W) \in Int
    BY <1>1, <1>8, SetsOfTrades
  <2>3. Week(tick) = Week(now) => PnlSum(trades, W) > -max_weekly_loss
    <3>1. PnlSum(trades, WeekTo(trades, n, d)) > -max_weekly_loss
      BY <1>4 DEF MayTrade
    <3> QED BY <1>5, <1>6, <1>7, <3>1
  <2> HIDE DEF W
  <2>4. Week(tick) # Week(now)
    BY <1>6, <2>1, <2>2, <2>3
  <2>5. Week(tick) <= Week(now) /\ Week(tick) \in Nat /\ Week(now) \in Nat
    BY <1>1, <1>3, LaterDays DEF now
  <2> QED BY <2>4, <2>5
<1>11. ASSUME BadDay(tick), Day(tick) = Day(now) PROVE FALSE
  <2> DEFINE D == DayTo(trades, n, tick)
  <2>1. PnlSum(trades, D) <= -max_daily_loss \/ Cardinality(Losers(trades, D)) >= max_losses_per_day
    <3>1. {k \in SeenAt(tick) : Day(trades[k].closed_at) = Day(tick)} = D
      BY <1>4 DEF DayTo
    <3> QED BY <1>11, <3>1, SumsDerived DEF BadDay
  <2>2. PnlSum(trades, D) \in Int /\ Cardinality(Losers(trades, D)) \in Nat
    <3>1. Losers(trades, D) \in SUBSET DOMAIN trades
      BY <1>8 DEF Losers
    <3> QED BY <1>1, <1>8, <3>1, SetsOfTrades
  <2>3. /\ PnlSum(trades, D) > -max_daily_loss
        /\ Cardinality(Losers(trades, D)) < max_losses_per_day
    BY <1>4, <1>5, <1>6, <1>7, <1>11 DEF MayTrade
  <2> HIDE DEF D
  <2> QED BY <1>6, <2>1, <2>2, <2>3
<1> QED BY <1>2, <1>9, <1>10, <1>11 DEF BadWeekBefore, now

(* Every entry of the backtest is one the live tick's gates let pass, on the    *)
(* account it derives from the same trades.                                    *)
THEOREM EntersLikeLive ==
  Spec => EnterLikeLive
<1>1. IInv /\ Ledger /\ Counters /\ Gated /\ [Next]_vars =>
        [~Holding /\ Holding' =>
           LET now == idx[i] + 1
           IN /\ is_weekend(now) \/ Forgotten(Day(now)) # {} \/ Approved(Derived(now))
              /\ is_kill_switch(now) => BadWeekBefore(now)]_vars
  <2> SUFFICES ASSUME IInv, Ledger, Counters, Gated, Next, ~Holding, Holding'
               PROVE  LET now == idx[i] + 1
                      IN /\ is_weekend(now) \/ Forgotten(Day(now)) # {} \/ Approved(Derived(now))
                         /\ is_kill_switch(now) => BadWeekBefore(now)
    BY DEF vars, Holding
  <2> DEFINE d == Derived(idx[i] + 1)
  <2>1. phase = "enter" /\ Approved(Aged)
    <3>1. Enter
      <4>1. ~Manage
        <5>1. Manage => position' = position \/ Holding
          BY DEF Manage
        <5> QED BY <5>1 DEF Holding
      <4>2. ~StayOut
        BY DEF StayOut, Holding
      <4>3. ~Finish
        BY DEF Finish, ClosedAt, Holding
      <4> QED BY <4>1, <4>2, <4>3 DEF Next
    <3> QED BY <3>1 DEF Enter
  <2>2. ASSUME ~is_weekend(idx[i] + 1), Forgotten(Day(idx[i] + 1)) = {}
        PROVE  Approved(d)
    <3>1. NoWorse(Aged, d)
      BY <2>1, <2>2, LiveNoWorse
    <3>2. /\ d.open_positions = 0 /\ d.is_weekend = is_weekend(idx[i] + 1)
      BY DerivedFields
    <3> HIDE DEF d
    <3>3. Gates(d, TRUE)
      BY <2>1, <3>1, NoWorsePasses DEF Approved
    <3> QED BY <2>2, <3>2, <3>3 DEF Approved
  <2>3. is_kill_switch(idx[i] + 1) => BadWeekBefore(idx[i] + 1)
    BY <2>1, OnlyAWeekBefore
  <2> QED BY <2>2, <2>3
<1> QED BY BacktestInvariant, BacktestLedger, BacktestCounters, BacktestGated, <1>1, PTL
        DEF Spec, EnterLikeLive

-----------------------------------------------------------------------------
(* The curve and the weeks, of the same trades.                                *)

Weeks == {Week(ts) : ts \in Calendar}
TallyOf(ts, c, w) ==
  /\ c \in Seq(Int) /\ Len(c) = Len(ts) + 1
  /\ \A k \in 1..(Len(ts) + 1) : c[k] = PnlSum(ts, 1..(k - 1))
  /\ DOMAIN w = Weeks
  /\ \A x \in Weeks : /\ w[x].pnl = PnlSum(ts, InTheWeek(ts, x))
                      /\ w[x].traded => InTheWeek(ts, x) # {}
  /\ PnlSum(w, Weeks) = PnlSum(ts, 1..Len(ts))
Tally ==
  /\ TallyOf(trades, curve, weeks)
  /\ phase = "done" /\ trades # <<>> =>
       metrics = compute_metrics(trades, state.equity, curve, weeks)

(* A calendar has finitely many weeks.                                         *)
LEMMA WeeksFinite ==
  IsFiniteSet(Weeks)
<1> DEFINE f == [ts \in Calendar |-> Week(ts)]
<1>1. DOMAIN f = Calendar /\ f = [ts \in Calendar |-> f[ts]]
  OBVIOUS
<1>2. Weeks = {f[ts] : ts \in Calendar}
  BY DEF Weeks
<1> HIDE DEF f
<1> QED BY <1>1, <1>2, CalendarCounts, ValuesFinite

(* The tally at the start.                                                     *)
LEMMA InitTally ==
  Init => Tally
<1> SUFFICES ASSUME Init PROVE Tally
  OBVIOUS
<1>1. /\ trades = <<>> /\ curve = <<0>> /\ Len(trades) = 0 /\ DOMAIN trades = {}
      /\ weeks = [w \in Weeks |-> [pnl |-> 0, traded |-> FALSE]]
  BY DEF Init, Weeks
<1>2. \A x : InTheWeek(trades, x) = {}
  BY <1>1 DEF InTheWeek
<1>3. 1..0 = {} /\ 1..Len(trades) = {}
  BY <1>1
<1>4. curve \in Seq(Int) /\ Len(curve) = Len(trades) + 1
      /\ \A k \in 1..(Len(trades) + 1) : curve[k] = PnlSum(trades, 1..(k - 1))
  <2>1. curve \in Seq(Int) /\ Len(curve) = 1 /\ curve[1] = 0
    BY <1>1
  <2>2. \A k \in 1..(Len(trades) + 1) : k = 1 /\ k - 1 = 0
    BY <1>1
  <2> QED BY <1>1, <1>3, <2>1, <2>2, PnlEmpty
<1>5. /\ DOMAIN weeks = Weeks
      /\ \A x \in Weeks : weeks[x].pnl = 0 /\ weeks[x].pnl \in Int /\ ~weeks[x].traded
  BY <1>1
<1>6. PnlSum(weeks, Weeks) = 0
  <2>1. IsFiniteSet(Weeks) /\ {} \in SUBSET Weeks /\ Weeks \ {} = Weeks
    BY WeeksFinite
  <2>2. (\A x \in Weeks : weeks[x].pnl >= 0) /\ (\A x \in Weeks : weeks[x].pnl <= 0)
    BY <1>5
  <2>3. PnlSum(weeks, {}) <= PnlSum(weeks, Weeks)
    BY <1>5, <2>1, <2>2, PnlGrows
  <2>4. PnlSum(weeks, Weeks) <= PnlSum(weeks, {})
    BY <1>5, <2>1, <2>2, PnlShrinks
  <2>5. PnlSum(weeks, {}) = 0 /\ PnlSum(weeks, Weeks) \in Int
    BY <1>5, <2>1, PnlEmpty, PnlType
  <2> QED BY <2>3, <2>4, <2>5
<1>7. TallyOf(trades, curve, weeks)
  <2>1. PnlSum(trades, {}) = 0
    BY PnlEmpty
  <2>2. ASSUME NEW x \in Weeks
        PROVE  weeks[x].pnl = PnlSum(trades, InTheWeek(trades, x)) /\ ~weeks[x].traded
    BY <1>2, <1>5, <2>1
  <2>3. PnlSum(weeks, Weeks) = PnlSum(trades, 1..Len(trades))
    BY <1>3, <1>6, <2>1
  <2> QED BY <1>4, <1>5, <2>2, <2>3 DEF TallyOf
<1> QED BY <1>1, <1>7 DEF Tally

(* A close adds to the curve, and to the week it is in.                        *)
LEMMA CloseKeepsTally ==
  ASSUME NEW ts \in Seq(Trade), NEW t \in Trade, NEW c, NEW w, TallyOf(ts, c, w),
         NEW e, e = PnlSum(ts, 1..Len(ts)) + t.pnl
  PROVE  TallyOf(Append(ts, t), Append(c, e),
                 [w EXCEPT ![Week(t.closed_at)] = [pnl |-> @.pnl + t.pnl, traded |-> TRUE]])
<1> DEFINE us == Append(ts, t)
           n == Len(ts)
           d == Append(c, e)
           x == Week(t.closed_at)
           sum == w[x].pnl + t.pnl
           v == [w EXCEPT ![x] = [pnl |-> sum, traded |-> TRUE]]
<1>1. Extended(ts, t, us)
  BY OneMore
<1>2. n \in Nat /\ DOMAIN ts = 1..n /\ t.pnl \in Int /\ x \in Weeks
  <2>1. t.pnl \in Outcomes /\ t.closed_at \in Calendar /\ \A p \in Outcomes : p \in Int
    BY BacktestAssumption DEF Trade
  <2> QED BY <2>1, TradesAre DEF Weeks, n
<1>3. /\ c \in Seq(Int) /\ Len(c) = n + 1
      /\ \A k \in 1..(n + 1) : c[k] = PnlSum(ts, 1..(k - 1))
      /\ DOMAIN w = Weeks
      /\ \A y \in Weeks : /\ w[y].pnl = PnlSum(ts, InTheWeek(ts, y))
                          /\ w[y].traded => InTheWeek(ts, y) # {}
      /\ PnlSum(w, Weeks) = PnlSum(ts, 1..n)
  BY DEF TallyOf, n
<1>4. v = [w EXCEPT ![Week(t.closed_at)] = [pnl |-> @.pnl + t.pnl, traded |-> TRUE]]
  BY <1>2, <1>3
<1> HIDE DEF us, n, x, sum
<1>5. /\ us \in Seq(Trade) /\ Len(us) = n + 1 /\ us[n + 1] = t
      /\ DOMAIN us = DOMAIN ts \cup {n + 1} /\ n + 1 \notin DOMAIN ts
      /\ \A k \in DOMAIN ts : us[k] = ts[k]
      /\ \A S \in SUBSET DOMAIN ts :
           /\ PnlSum(us, S) = PnlSum(ts, S)
           /\ PnlSum(us, S \cup {n + 1}) = PnlSum(ts, S) + t.pnl
  BY <1>1 DEF Extended, n
<1>6. /\ DOMAIN v = Weeks /\ v[x].pnl = sum /\ v[x].traded
      /\ \A y \in Weeks \ {x} : v[y] = w[y]
  BY <1>2, <1>3
<1> HIDE DEF v
<1>7. PnlSum(us, 1..(n + 1)) = e
  <2>1. 1..(n + 1) = (1..n) \cup {n + 1} /\ 1..n \in SUBSET DOMAIN ts
    BY <1>2
  <2>2. PnlSum(us, (1..n) \cup {n + 1}) = PnlSum(ts, 1..n) + t.pnl
    BY <1>5, <2>1
  <2> QED BY <2>1, <2>2 DEF n
<1>8. /\ d \in Seq(Int) /\ Len(d) = (n + 1) + 1
      /\ \A k \in 1..((n + 1) + 1) : d[k] = PnlSum(us, 1..(k - 1))
  <2>1. e \in Int
    <3>1. 1..n \in SUBSET DOMAIN ts
      BY <1>2
    <3>2. PnlSum(ts, 1..n) \in Int
      BY <3>1, SetsOfTrades
    <3> QED BY <1>2, <3>2 DEF n
  <2>2. /\ d \in Seq(Int) /\ Len(d) = (n + 1) + 1 /\ d[n + 2] = e
        /\ \A k \in 1..(n + 1) : d[k] = c[k]
    BY <1>2, <1>3, <2>1
  <2> HIDE DEF d
  <2>3. ASSUME NEW k \in 1..((n + 1) + 1) PROVE d[k] = PnlSum(us, 1..(k - 1))
    <3>1. CASE k = n + 2
      <4>1. k - 1 = n + 1
        BY <1>2, <3>1
      <4> QED BY <1>7, <2>2, <3>1, <4>1
    <3>2. CASE k # n + 2
      <4>1. k \in 1..(n + 1) /\ 1..(k - 1) \in SUBSET DOMAIN ts
        BY <1>2, <3>2
      <4>2. PnlSum(us, 1..(k - 1)) = PnlSum(ts, 1..(k - 1))
        BY <1>5, <4>1
      <4> QED BY <1>3, <2>2, <4>1, <4>2
    <3> QED BY <3>1, <3>2
  <2> QED BY <2>2, <2>3
<1> HIDE DEF d
<1>9. ASSUME NEW y \in Weeks
      PROVE  /\ v[y].pnl = PnlSum(us, InTheWeek(us, y))
             /\ v[y].traded => InTheWeek(us, y) # {}
  <2> DEFINE B == InTheWeek(ts, y)
  <2>1. B \in SUBSET DOMAIN ts
    BY DEF InTheWeek
  <2>2. InTheWeek(us, y) = B \cup (IF y = x THEN {n + 1} ELSE {})
    BY <1>5 DEF InTheWeek, x
  <2>3. w[y].pnl = PnlSum(ts, B) /\ (w[y].traded => B # {})
    BY <1>3
  <2> HIDE DEF B
  <2>4. CASE y = x
    <3>1. InTheWeek(us, y) = B \cup {n + 1}
      BY <2>2, <2>4
    <3>2. PnlSum(us, B \cup {n + 1}) = PnlSum(ts, B) + t.pnl
      BY <1>5, <2>1
    <3>3. v[y].pnl = w[y].pnl + t.pnl
      BY <1>6, <2>4 DEF sum
    <3> QED BY <2>3, <3>1, <3>2, <3>3
  <2>5. CASE y # x
    <3>1. InTheWeek(us, y) = B /\ PnlSum(us, B) = PnlSum(ts, B)
      BY <1>5, <2>1, <2>2, <2>5
    <3>2. v[y] = w[y]
      BY <1>6, <2>5
    <3> QED BY <2>3, <3>1, <3>2
  <2> QED BY <2>4, <2>5
<1>10. \A y \in Weeks : w[y].pnl \in Int /\ v[y].pnl \in Int
  <2> SUFFICES ASSUME NEW y \in Weeks PROVE w[y].pnl \in Int /\ v[y].pnl \in Int
    OBVIOUS
  <2>1. InTheWeek(ts, y) \in SUBSET DOMAIN ts /\ InTheWeek(us, y) \in SUBSET DOMAIN us
    BY DEF InTheWeek
  <2>2. PnlSum(ts, InTheWeek(ts, y)) \in Int
    BY <2>1, SetsOfTrades
  <2>3. PnlSum(us, InTheWeek(us, y)) \in Int
    BY <1>5, <2>1, SetsOfTrades
  <2> QED BY <1>3, <1>9, <2>2, <2>3
<1>11. PnlSum(v, Weeks) = e
  <2> DEFINE R == Weeks \ {x}
  <2>1. IsFiniteSet(R) /\ x \notin R /\ R \cup {x} = Weeks
    BY <1>2, WeeksFinite, FS_Subset
  <2>2. /\ \A y \in R : v[y].pnl = w[y].pnl
        /\ \A y \in R : v[y].pnl \in Int
        /\ \A y \in R : w[y].pnl \in Int
        /\ v[x].pnl \in Int /\ w[x].pnl \in Int /\ v[x].pnl = w[x].pnl + t.pnl
    BY <1>2, <1>6, <1>10 DEF sum
  <2> HIDE DEF R
  <2>3. PnlSum(v, R) = PnlSum(w, R)
    BY <2>1, <2>2, PnlEqual
  <2>4. PnlSum(v, R \cup {x}) = PnlSum(v, R) + v[x].pnl
    BY <2>1, <2>2, PnlWith
  <2>5. PnlSum(w, R \cup {x}) = PnlSum(w, R) + w[x].pnl
    BY <2>1, <2>2, PnlWith
  <2>6. PnlSum(w, R) \in Int
    BY <2>1, <2>2, PnlType
  <2>7. PnlSum(v, Weeks) = PnlSum(w, Weeks) + t.pnl
    <3>1. PnlSum(v, Weeks) = PnlSum(w, R) + v[x].pnl
      BY <2>1, <2>3, <2>4
    <3>2. PnlSum(w, Weeks) = PnlSum(w, R) + w[x].pnl
      BY <2>1, <2>5
    <3> QED BY <1>2, <2>2, <2>6, <3>1, <3>2
  <2> QED BY <1>3, <2>7 DEF n
<1>12. TallyOf(us, d, v)
  BY <1>5, <1>6, <1>7, <1>8, <1>9, <1>11 DEF TallyOf
<1> QED BY <1>4, <1>12 DEF us, d

(* The account's equity is the sum the curve goes on from.                     *)
LEMMA ClosesTally ==
  ASSUME TallyOf(trades, curve, weeks), trades \in Seq(Trade), NEW t \in Trade, NEW k, NEW s,
         IsAccount(s), Money(s, trades), ClosesWith(k, s, t)
  PROVE  TallyOf(trades', curve', weeks')
<1> DEFINE e == s.equity + t.pnl
<1>1. /\ trades' = Append(trades, t) /\ state' = update_after_close(s, t.pnl, t.sold)
      /\ curve' = Append(curve, state'.equity) /\ t.closed_at = idx[k]
      /\ weeks' = [weeks EXCEPT ![Week(idx[k])] = [pnl |-> @.pnl + t.pnl, traded |-> TRUE]]
  BY DEF ClosesWith
<1>2. state'.equity = e
  <2>1. ClosedTo(s, t.pnl, t.sold, state')
    BY <1>1, ClosesTo
  <2> QED BY <2>1 DEF ClosedTo
<1>3. e = PnlSum(trades, 1..Len(trades)) + t.pnl
  BY DEF Money
<1> HIDE DEF e
<1>4. TallyOf(Append(trades, t), Append(curve, e),
        [weeks EXCEPT ![Week(t.closed_at)] = [pnl |-> @.pnl + t.pnl, traded |-> TRUE]])
  BY <1>3, CloseKeepsTally
<1> QED BY <1>1, <1>2, <1>4

(* A close by manage is one; the end of the run computes the metrics of it.    *)
LEMMA ManageTally ==
  IInv /\ Ledger /\ Tally /\ Manage => Tally'
<1> SUFFICES ASSUME IInv, Ledger, Tally, Manage PROVE Tally'
  OBVIOUS
<1> DEFINE s == Rolled(state, idx[IF i = first_eval THEN i ELSE i - 1], idx[i])
           held == i - position.opened_index
<1>1. /\ Frame /\ Walk /\ Open /\ trades \in Seq(Trade) /\ IsAccount(state)
      /\ phase = "manage" /\ phase' = "enter" /\ phase # "done"
  BY DEF IInv, Manage, Books
<1>2. i \in first_eval..last_eval
  BY <1>1 DEF Walk
<1>3. IsAccount(s) /\ SameMoney(state, s)
  BY <1>1, RollsTo
<1> HIDE DEF s
<1>4. Money(s, trades) /\ TallyOf(trades, curve, weeks)
  BY <1>3, MoneyStays DEF Ledger, Tally
<1>5. ASSUME Holding, NEW sold \in MayExit(held) \ {"none"}, NEW pnl \in PnlOf(sold),
             ClosedAt(i, s, sold, pnl)
      PROVE  TallyOf(trades', curve', weeks')
  <2>1. sold \in ExitReasons
    BY DEF MayExit, ExitReasons
  <2>2. PICK t \in Trade : ClosesWith(i, s, t)
    <3> HIDE DEF held
    <3> QED BY <1>1, <1>2, <1>5, <2>1, TradeClosed
  <2> QED BY <1>1, <1>3, <1>4, <2>2, ClosesTally
<1>6. \/ UNCHANGED <<trades, curve, weeks>>
      \/ /\ Holding
         /\ \E sold \in MayExit(held) \ {"none"} : \E pnl \in PnlOf(sold) :
              ClosedAt(i, s, sold, pnl)
  BY DEF Manage, s
<1> HIDE DEF held
<1>7. TallyOf(trades', curve', weeks')
  BY <1>4, <1>5, <1>6
<1>8. TallyOf(trades, curve, weeks)'
  BY <1>7 DEF TallyOf, Weeks, InTheWeek, Week, Day, Calendar
<1> QED BY <1>1, <1>8 DEF Tally

LEMMA FinishTally ==
  IInv /\ Ledger /\ Tally /\ Finish => Tally'
<1> SUFFICES ASSUME IInv, Ledger, Tally, Finish PROVE Tally'
  OBVIOUS
<1>1. /\ Frame /\ Walk /\ Open /\ trades \in Seq(Trade) /\ IsAccount(state)
      /\ phase = "end" /\ phase # "done" /\ Money(state, trades)
      /\ TallyOf(trades, curve, weeks)
      /\ metrics' = compute_metrics(trades', state'.equity, curve', weeks')
  BY DEF IInv, Finish, Books, Ledger, Tally
<1>2. ASSUME Holding, NEW pnl \in PnlOf("reconciled"),
             ClosedAt(last_eval, state, "reconciled", pnl)
      PROVE  TallyOf(trades', curve', weeks')
  <2>1. last_eval \in first_eval..last_eval
    <3>1. first_eval \in Nat /\ last_eval \in 1..Size /\ Size \in Nat
      BY <1>1, Evals DEF Frame
    <3>2. first_eval <= last_eval
      BY <1>1 DEF Walk
    <3> QED BY <3>1, <3>2
  <2>2. "reconciled" \in ExitReasons
    BY DEF ExitReasons
  <2>3. PICK t \in Trade : ClosesWith(last_eval, state, t)
    BY <1>1, <1>2, <2>1, <2>2, TradeClosed
  <2> QED BY <1>1, <2>3, ClosesTally
<1>3. \/ UNCHANGED <<trades, curve, weeks>>
      \/ Holding /\ \E pnl \in PnlOf("reconciled") : ClosedAt(last_eval, state, "reconciled", pnl)
  BY DEF Finish
<1>4. TallyOf(trades', curve', weeks')
  BY <1>1, <1>2, <1>3
<1>5. TallyOf(trades, curve, weeks)'
  BY <1>4 DEF TallyOf, Weeks, InTheWeek, Week, Day, Calendar
<1>6. metrics' = compute_metrics(trades, state.equity, curve, weeks)'
  BY <1>1 DEF compute_metrics, _max_drawdown
<1> QED BY <1>5, <1>6 DEF Tally

(* The curve and the weeks are of the trades, the metrics of both.              *)
THEOREM BacktestTally ==
  Spec => []Tally
<1>1. ASSUME Tally, UNCHANGED <<trades, curve, weeks>> PROVE TallyOf(trades, curve, weeks)'
  BY <1>1 DEF Tally, TallyOf, Weeks, InTheWeek, Week, Day, Calendar
<1>2. Tally /\ (StayOut \/ Enter) => Tally'
  <2> SUFFICES ASSUME Tally, StayOut \/ Enter PROVE Tally'
    OBVIOUS
  <2>1. UNCHANGED <<trades, curve, weeks>> /\ phase' # "done"
    BY DEF StayOut, Enter, NextBar
  <2> QED BY <1>1, <2>1 DEF Tally
<1>3. Tally /\ UNCHANGED vars => Tally'
  <2> SUFFICES ASSUME Tally, UNCHANGED vars PROVE Tally'
    OBVIOUS
  <2>1. /\ UNCHANGED <<trades, curve, weeks>> /\ phase' = phase /\ state' = state
        /\ metrics' = metrics
    BY DEF vars
  <2>2. compute_metrics(trades, state.equity, curve, weeks)'
          = compute_metrics(trades, state.equity, curve, weeks)
    BY <2>1
  <2> QED BY <1>1, <2>1, <2>2 DEF Tally
<1>4. IInv /\ Ledger /\ Tally /\ [Next]_vars => Tally'
  BY <1>2, <1>3, ManageTally, FinishTally DEF Next
<1> QED BY BacktestInvariant, BacktestLedger, InitTally, <1>4, PTL DEF Spec

-----------------------------------------------------------------------------
(* The drawdown's running peak, and the deepest fall.                          *)

IsPeak(p, c) == p = [k \in DOMAIN c |-> IF k = 1 THEN c[1] ELSE Max({p[k - 1], c[k]})]
PeakOf(c) == CHOOSE p : IsPeak(p, c)

(* _max_drawdown, with its running peak named.                                 *)
LEMMA DrawdownIs ==
  ASSUME NEW c
  PROVE  _max_drawdown(c) = Max({0} \cup {PeakOf(c)[k] - c[k] : k \in DOMAIN c})
BY DEF _max_drawdown, PeakOf, IsPeak

(* A peak at k is the greatest of the values up to k.                          *)
IsTop(x, c, k) == (\E m \in 1..k : x = c[m]) /\ \A j \in 1..k : c[j] <= x

(* The greatest of one value more is the greater of the two.                   *)
LEMMA TopNext ==
  ASSUME NEW n \in Nat, NEW c, \A k \in 1..n : c[k] \in Int,
         NEW k \in 2..n, NEW x, IsTop(x, c, k - 1)
  PROVE  IsTop(Max({x, c[k]}), c, k)
<1>1. PICK m \in 1..(k - 1) : x = c[m]
  BY DEF IsTop
<1>2. x \in Int /\ c[k] \in Int /\ m \in 1..k /\ k \in 1..k /\ \A j \in 1..k : c[j] \in Int
  BY <1>1
<1>3. \A j \in 1..k : j = k \/ j \in 1..(k - 1)
  OBVIOUS
<1>4. \A j \in 1..(k - 1) : c[j] <= x
  BY DEF IsTop
<1>5. Max({x, c[k]}) = IF x >= c[k] THEN x ELSE c[k]
  BY <1>2, MaxOfTwo
<1>6. CASE x >= c[k]
  <2>1. \A j \in 1..k : c[j] <= x
    BY <1>2, <1>3, <1>4, <1>6
  <2> QED BY <1>1, <1>2, <1>5, <1>6, <2>1 DEF IsTop
<1>7. CASE ~(x >= c[k])
  <2>1. \A j \in 1..k : c[j] <= c[k]
    BY <1>2, <1>3, <1>4, <1>7
  <2> QED BY <1>2, <1>5, <1>7, <2>1 DEF IsTop
<1> QED BY <1>6, <1>7

(* And there is only one.                                                      *)
LEMMA TopIs ==
  ASSUME NEW n \in Nat, NEW c, \A k \in 1..n : c[k] \in Int, NEW k \in 1..n,
         NEW x, IsTop(x, c, k), NEW y, IsTop(y, c, k)
  PROVE  x = y
<1>1. (\E m \in 1..k : x = c[m]) /\ (\E m \in 1..k : y = c[m])
  BY DEF IsTop
<1>2. x \in Int /\ y \in Int
  BY <1>1
<1>3. x <= y /\ y <= x
  BY <1>1 DEF IsTop
<1> QED BY <1>2, <1>3

(* The running peak is, at each point, the greatest value so far.              *)
LEMMA PeaksAreTops ==
  ASSUME NEW n \in Nat, NEW c \in [1..n -> Int]
  PROVE  \A k \in 1..n : IsTop(PeakOf(c)[k], c, k)
<1> DEFINE top(k) == CHOOSE x : IsTop(x, c, k)
           w == [k \in 1..n |-> top(k)]
           p == PeakOf(c)
<1>1. (\A k \in 1..n : c[k] \in Int) /\ DOMAIN c = 1..n
  OBVIOUS
<1>2. \A k \in 1..n : IsTop(w[k], c, k)
  <2> SUFFICES ASSUME NEW k \in 1..n PROVE IsTop(w[k], c, k)
    OBVIOUS
  <2>1. PICK m \in 1..k : \A j \in 1..k : c[j] <= c[m]
    BY <1>1, GreatestUpTo
  <2>2. IsTop(c[m], c, k)
    BY <2>1 DEF IsTop
  <2>3. IsTop(top(k), c, k)
    BY <2>2
  <2> QED BY <2>3
<1>3. 1 \in 1..n => IsTop(c[1], c, 1)
  <2> SUFFICES ASSUME 1 \in 1..n PROVE IsTop(c[1], c, 1)
    OBVIOUS
  <2>1. c[1] \in Int /\ \A j \in 1..1 : j = 1
    BY <1>1
  <2>2. c[1] <= c[1] /\ 1 \in 1..1
    BY <2>1
  <2> QED BY <2>1, <2>2 DEF IsTop
<1>4. IsPeak(w, c)
  <2> DEFINE v == [k \in DOMAIN c |-> IF k = 1 THEN c[1] ELSE Max({w[k - 1], c[k]})]
  <2>1. ASSUME NEW k \in 1..n PROVE w[k] = v[k]
    <3>1. IsTop(w[k], c, k)
      BY <1>2
    <3>2. IsTop(v[k], c, k)
      <4>1. CASE k = 1
        BY <1>1, <1>3, <4>1
      <4>2. CASE k # 1
        <5>1. k \in 2..n /\ k - 1 \in 1..n
          BY <4>2
        <5>2. IsTop(w[k - 1], c, k - 1)
          BY <1>2, <5>1
        <5>3. v[k] = Max({w[k - 1], c[k]})
          BY <1>1, <4>2
        <5> HIDE DEF w, v
        <5>4. IsTop(Max({w[k - 1], c[k]}), c, k)
          BY <1>1, <5>1, <5>2, TopNext
        <5> QED BY <5>3, <5>4
      <4> QED BY <4>1, <4>2
    <3> HIDE DEF w, v
    <3> QED BY <1>1, <3>1, <3>2, TopIs
  <2>2. DOMAIN w = 1..n /\ DOMAIN v = 1..n
    BY <1>1
  <2>3. w = [k \in 1..n |-> w[k]] /\ v = [k \in 1..n |-> v[k]]
    BY <1>1
  <2>4. w = v
    <3> HIDE DEF w, v
    <3> QED BY <2>1, <2>3
  <2> HIDE DEF w
  <2> QED BY <2>4 DEF IsPeak
<1>5. IsPeak(p, c)
  <2> HIDE DEF w
  <2> QED BY <1>4 DEF PeakOf
<1> HIDE DEF w, p, top
<1> DEFINE T == {k \in 1..n : ~IsTop(p[k], c, k)}
<1>6. SUFFICES ASSUME T # {} PROVE FALSE
  BY DEF p
<1>7. PICK k \in T : \A m \in T : k <= m
  <2>1. T \in SUBSET (0..n)
    OBVIOUS
  <2> HIDE DEF T
  <2> QED BY <1>6, <2>1, LeastIn
<1>8. k \in 1..n /\ ~IsTop(p[k], c, k)
  OBVIOUS
<1>9. p[k] = IF k = 1 THEN c[1] ELSE Max({p[k - 1], c[k]})
  BY <1>1, <1>5, <1>8 DEF IsPeak
<1>10. CASE k = 1
  BY <1>3, <1>8, <1>9, <1>10
<1>11. CASE k # 1
  <2>1. k - 1 \in 1..n /\ k - 1 \notin T /\ k \in 2..n
    BY <1>7, <1>8, <1>11
  <2>2. IsTop(p[k - 1], c, k - 1)
    BY <2>1
  <2>3. IsTop(Max({p[k - 1], c[k]}), c, k)
    <3> HIDE DEF T
    <3> QED BY <1>1, <2>1, <2>2, TopNext
  <2> QED BY <1>8, <1>9, <1>11, <2>3
<1> QED BY <1>10, <1>11

(* The drawdown of a curve is its deepest fall from one point to a later one.   *)
LEMMA DeepestFall ==
  ASSUME NEW n \in Nat, n >= 1, NEW c \in [1..n -> Int]
  PROVE  _max_drawdown(c) =
           Max({c[q[1]] - c[q[2]] : q \in {r \in (1..n) \X (1..n) : r[1] <= r[2]}})
<1> DEFINE p == PeakOf(c)
           low == [k \in 1..n |-> p[k] - c[k]]
           X == {0} \cup {p[k] - c[k] : k \in DOMAIN c}
           Q == {r \in (1..n) \X (1..n) : r[1] <= r[2]}
           Y == {c[q[1]] - c[q[2]] : q \in Q}
<1>1. (\A k \in 1..n : c[k] \in Int) /\ DOMAIN c = 1..n
  OBVIOUS
<1>2. \A k \in 1..n : (\E m \in 1..k : p[k] = c[m]) /\ \A j \in 1..k : c[j] <= p[k]
  BY PeaksAreTops DEF IsTop
<1> HIDE DEF p
<1>3. \A k \in 1..n : p[k] \in Int /\ low[k] = p[k] - c[k] /\ low[k] \in Int
  <2> SUFFICES ASSUME NEW k \in 1..n PROVE p[k] \in Int /\ low[k] = p[k] - c[k] /\ low[k] \in Int
    OBVIOUS
  <2>1. p[k] \in Int
    BY <1>1, <1>2
  <2> QED BY <1>1, <2>1
<1> HIDE DEF low
<1>4. PICK k \in 1..n : \A j \in 1..n : low[j] <= low[k]
  <2>1. n \in 1..n
    OBVIOUS
  <2> QED BY <1>3, <2>1, GreatestUpTo
<1>5. PICK m \in 1..k : p[k] = c[m]
  BY <1>2
<1>6. low[k] >= 0 /\ low[k] = c[m] - c[k] /\ low[k] \in Int
  <2>1. k \in 1..k
    OBVIOUS
  <2>2. c[k] <= p[k]
    BY <1>2, <2>1
  <2> QED BY <1>1, <1>3, <1>5, <2>2
<1>7. Max(X) = low[k]
  <2>1. X \in SUBSET Int
    BY <1>1, <1>3
  <2>2. low[k] \in X
    BY <1>1, <1>3
  <2>3. \A x \in X : x <= low[k]
    BY <1>1, <1>3, <1>4, <1>6
  <2> HIDE DEF X
  <2> QED BY <2>1, <2>2, <2>3, MaxIs
<1>8. Max(Y) = low[k]
  <2>1. \A q \in Q : q[1] \in 1..n /\ q[2] \in 1..n /\ q[1] \in 1..q[2]
    OBVIOUS
  <2>2. Y \in SUBSET Int
    BY <1>1, <2>1
  <2>3. low[k] \in Y
    <3>1. <<m, k>> \in Q /\ <<m, k>>[1] = m /\ <<m, k>>[2] = k
      OBVIOUS
    <3> QED BY <1>6, <3>1
  <2>4. ASSUME NEW q \in Q PROVE c[q[1]] - c[q[2]] <= low[k]
    <3>1. c[q[1]] <= p[q[2]]
      BY <1>2, <2>1
    <3>2. p[q[2]] - c[q[2]] <= low[k]
      BY <1>3, <1>4, <2>1
    <3>3. c[q[1]] \in Int /\ c[q[2]] \in Int /\ p[q[2]] \in Int
      BY <1>1, <1>3, <2>1
    <3>4. \A a, b, x, l \in Int : a <= x /\ x - b <= l => a - b <= l
      OBVIOUS
    <3> HIDE DEF Q
    <3> QED BY <1>6, <3>1, <3>2, <3>3, <3>4
  <2>5. \A y \in Y : y <= low[k]
    BY <2>4
  <2> HIDE DEF Y
  <2> QED BY <2>2, <2>3, <2>5, MaxIs
<1>9. _max_drawdown(c) = Max(X)
  BY DrawdownIs DEF p
<1> HIDE DEF X
<1> QED BY <1>7, <1>8, <1>9

-----------------------------------------------------------------------------
(* The metrics.                                                                *)

(* What the property reads of the metrics.                                     *)
MeasuredBy(m, ts, equity, c, w) ==
  /\ m.net = equity /\ m.trade_count = Len(ts) /\ m.max_drawdown = _max_drawdown(c)
  /\ m.wins = Cardinality({k \in DOMAIN ts : ts[k].pnl > 0})
  /\ m.up_weeks = Cardinality({k \in {x \in DOMAIN w : w[x].traded} : w[k].pnl > 0})
  /\ m.weeks = Cardinality({x \in DOMAIN w : w[x].traded})

(* compute_metrics, field by field.                                            *)
LEMMA MetricsFields ==
  ASSUME NEW ts, ts # <<>>, NEW equity, NEW c, NEW w
  PROVE  MeasuredBy(compute_metrics(ts, equity, c, w), ts, equity, c, w)
<1> DEFINE traded == {k \in DOMAIN w : w[k].traded}
           v2 == Len(ts)
           v3 == _max_drawdown(c)
           v4 == Cardinality({k \in DOMAIN ts : ts[k].pnl > 0})
           v5 == Cardinality({k \in traded : w[k].pnl > 0})
           v6 == Cardinality(traded)
           m == [net |-> equity, trade_count |-> v2, max_drawdown |-> v3, wins |-> v4,
                 up_weeks |-> v5, weeks |-> v6]
<1>1. compute_metrics(ts, equity, c, w) = m
  BY DEF compute_metrics
<1> HIDE DEF v2, v3, v4, v5, v6
<1>2. /\ m.net = equity /\ m.trade_count = v2 /\ m.max_drawdown = v3 /\ m.wins = v4
      /\ m.up_weeks = v5 /\ m.weeks = v6
  OBVIOUS
<1> HIDE DEF m
<1> QED BY <1>1, <1>2 DEF MeasuredBy, v2, v3, v4, v5, v6

(* The weeks of some trades are no more than the trades.                       *)
LEMMA WeeksOfTrades ==
  ASSUME NEW ts \in Seq(Trade), NEW S \in SUBSET DOMAIN ts, NEW W,
         \A x \in W : \E k \in S : x = Week(ts[k].closed_at)
  PROVE  IsFiniteSet(W) /\ Cardinality(W) <= Cardinality(S)
<1> DEFINE f == [k \in S |-> Week(ts[k].closed_at)]
           T == {f[k] : k \in S}
<1>1. DOMAIN f = S /\ f = [k \in S |-> f[k]] /\ W \subseteq T
  OBVIOUS
<1>2. IsFiniteSet(S) /\ Cardinality(S) \in Nat
  BY SetsOfTrades
<1>3. IsFiniteSet(T) /\ Cardinality(T) <= Cardinality(S)
  <2> HIDE DEF f
  <2> QED BY <1>1, <1>2, ValuesFinite
<1> HIDE DEF T
<1>4. IsFiniteSet(W) /\ Cardinality(W) <= Cardinality(T)
  BY <1>1, <1>3, FS_Subset
<1>5. Cardinality(W) \in Nat /\ Cardinality(T) \in Nat
  BY <1>3, <1>4, FS_CardinalityType
<1> QED BY <1>2, <1>3, <1>4, <1>5

(* A week that is up has a trade that won.                                     *)
LEMMA UpWeekWon ==
  ASSUME NEW ts \in Seq(Trade), NEW x, PnlSum(ts, InTheWeek(ts, x)) > 0
  PROVE  \E k \in InTheWeek(ts, x) : ts[k].pnl > 0
<1> DEFINE S == InTheWeek(ts, x)
<1> SUFFICES ASSUME \A k \in S : ~(ts[k].pnl > 0) PROVE FALSE
  OBVIOUS
<1>1. S \in SUBSET DOMAIN ts
  BY DEF InTheWeek
<1> HIDE DEF S
<1>2. IsFiniteSet(S) /\ (\A k \in S : ts[k].pnl \in Int) /\ PnlSum(ts, S) \in Int
  BY <1>1, SetsOfTrades
<1>3. {} \in SUBSET S /\ \A k \in S \ {} : ts[k].pnl <= 0
  BY <1>2
<1>4. PnlSum(ts, S) <= PnlSum(ts, {})
  BY <1>2, <1>3, PnlShrinks
<1>5. PnlSum(ts, {}) = 0 /\ PnlSum(ts, S) > 0
  BY PnlEmpty DEF S
<1> QED BY <1>2, <1>4, <1>5

(* The falls of the curve are those of the equity after the trades.            *)
LEMMA FallsOfCurve ==
  ASSUME TallyOf(trades, curve, weeks), trades \in Seq(Trade)
  PROVE  _max_drawdown(curve) = Max({EquityAfter(p[1]) - EquityAfter(p[2]) : p \in Falls})
<1> DEFINE n == Len(trades)
           N == n + 1
           Q == {r \in (1..N) \X (1..N) : r[1] <= r[2]}
           Y == {curve[q[1]] - curve[q[2]] : q \in Q}
           E == {EquityAfter(p[1]) - EquityAfter(p[2]) : p \in Falls}
<1>1. n \in Nat /\ N \in Nat /\ N >= 1 /\ curve \in [1..N -> Int]
  <2>1. n \in Nat /\ curve \in Seq(Int) /\ Len(curve) = N
    BY DEF TallyOf
  <2> QED BY <2>1
<1>2. \A k \in 1..N : curve[k] = EquityAfter(k - 1)
  BY SumsDerived DEF TallyOf, EquityAfter
<1>3. _max_drawdown(curve) = Max(Y)
  <2> HIDE DEF N
  <2> QED BY <1>1, DeepestFall
<1>4. Y = E
  <2>1. ASSUME NEW q \in Q
        PROVE  curve[q[1]] - curve[q[2]] \in E
    <3> DEFINE p == <<q[1] - 1, q[2] - 1>>
    <3>1. q[1] \in 1..N /\ q[2] \in 1..N /\ q[1] <= q[2]
      OBVIOUS
    <3>2. p \in Falls /\ p[1] = q[1] - 1 /\ p[2] = q[2] - 1
      BY <1>1, <3>1 DEF Falls
    <3>3. curve[q[1]] = EquityAfter(p[1]) /\ curve[q[2]] = EquityAfter(p[2])
      BY <1>2, <3>1, <3>2
    <3> HIDE DEF p
    <3> QED BY <3>2, <3>3
  <2>2. ASSUME NEW p \in Falls
        PROVE  EquityAfter(p[1]) - EquityAfter(p[2]) \in Y
    <3> DEFINE q == <<p[1] + 1, p[2] + 1>>
    <3>1. p[1] \in 0..n /\ p[2] \in 0..n /\ p[1] <= p[2]
      BY DEF Falls
    <3>2. q \in Q /\ q[1] = p[1] + 1 /\ q[2] = p[2] + 1 /\ q[1] \in 1..N /\ q[2] \in 1..N
          /\ q[1] - 1 = p[1] /\ q[2] - 1 = p[2]
      <4>1. \A a \in 0..n : a + 1 \in 1..N /\ (a + 1) - 1 = a
        BY <1>1
      <4>2. \A a, b \in 0..n : a <= b => a + 1 <= b + 1
        BY <1>1
      <4> HIDE DEF n, N
      <4> QED BY <3>1, <4>1, <4>2
    <3>3. curve[q[1]] = EquityAfter(p[1]) /\ curve[q[2]] = EquityAfter(p[2])
      BY <1>2, <3>2
    <3> HIDE DEF q, Q
    <3> QED BY <3>2, <3>3
  <2>3. Y \subseteq E /\ E \subseteq Y
    <3>1. Y \subseteq E
      <4> HIDE DEF Q, E
      <4> QED BY <2>1
    <3>2. E \subseteq Y
      <4> HIDE DEF Y
      <4> QED BY <2>2
    <3> QED BY <3>1, <3>2
  <2> HIDE DEF Y, E
  <2> QED BY <2>3
<1> HIDE DEF Y
<1> QED BY <1>3, <1>4

(* Whatever the trades, the score's ingredients agree: the return with the      *)
(* trades and with the weeks, the drawdown with the equity's deepest fall.      *)
THEOREM MetricsAgree ==
  Spec => []MetricsAddUp
<1>1. IInv /\ Ledger /\ Tally => MetricsAddUp
  <2> SUFFICES ASSUME IInv, Ledger, Tally, phase = "done", trades # <<>>
               PROVE  /\ metrics.net = Pnl(ClosedTrades)
                      /\ metrics.net = MapThenSumSet(LAMBDA w : weeks[w].pnl, DOMAIN weeks)
                      /\ metrics.trade_count = Len(curve) - 1
                      /\ metrics.max_drawdown
                           = Max({EquityAfter(p[1]) - EquityAfter(p[2]) : p \in Falls})
                      /\ metrics.up_weeks <= metrics.wins
                      /\ metrics.weeks <= metrics.trade_count
    BY DEF MetricsAddUp
  <2> DEFINE n == Len(trades)
             traded == {x \in DOMAIN weeks : weeks[x].traded}
             up == {x \in traded : weeks[x].pnl > 0}
             won == {k \in DOMAIN trades : trades[k].pnl > 0}
  <2>1. /\ trades \in Seq(Trade) /\ Money(state, trades) /\ TallyOf(trades, curve, weeks)
        /\ metrics = compute_metrics(trades, state.equity, curve, weeks)
    BY DEF IInv, Books, Ledger, Tally
  <2>2. /\ metrics.net = state.equity /\ metrics.trade_count = n
        /\ metrics.max_drawdown = _max_drawdown(curve)
        /\ metrics.wins = Cardinality(won)
        /\ metrics.up_weeks = Cardinality(up) /\ metrics.weeks = Cardinality(traded)
    <3>1. MeasuredBy(metrics, trades, state.equity, curve, weeks)
      BY <2>1, MetricsFields
    <3> QED BY <3>1 DEF MeasuredBy
  <2>3. n \in Nat /\ DOMAIN trades = 1..n /\ ClosedTrades = 1..n
    BY <2>1 DEF ClosedTrades
  <2>4. state.equity = PnlSum(trades, 1..n)
    BY <2>1 DEF Money
  <2>5. /\ DOMAIN weeks = Weeks /\ Len(curve) = n + 1
        /\ PnlSum(weeks, Weeks) = PnlSum(trades, 1..n)
        /\ \A x \in Weeks : /\ weeks[x].pnl = PnlSum(trades, InTheWeek(trades, x))
                            /\ weeks[x].traded => InTheWeek(trades, x) # {}
    BY <2>1 DEF TallyOf
  <2>6. metrics.net = Pnl(ClosedTrades)
    BY <2>2, <2>3, <2>4, SumsDerived
  <2>7. metrics.net = MapThenSumSet(LAMBDA w : weeks[w].pnl, DOMAIN weeks)
    <3>1. PnlSum(weeks, DOMAIN weeks) = MapThenSumSet(LAMBDA w : weeks[w].pnl, DOMAIN weeks)
      BY DEF PnlSum
    <3> QED BY <2>2, <2>4, <2>5, <3>1
  <2>8. metrics.trade_count = Len(curve) - 1
    BY <2>2, <2>3, <2>5
  <2>9. metrics.max_drawdown = Max({EquityAfter(p[1]) - EquityAfter(p[2]) : p \in Falls})
    BY <2>1, <2>2, FallsOfCurve
  <2>10. metrics.up_weeks <= metrics.wins
    <3>1. \A x \in up : \E k \in won : x = Week(trades[k].closed_at)
      <4> SUFFICES ASSUME NEW x \in up PROVE \E k \in won : x = Week(trades[k].closed_at)
        OBVIOUS
      <4>1. PnlSum(trades, InTheWeek(trades, x)) > 0
        BY <2>5
      <4>2. PICK k \in InTheWeek(trades, x) : trades[k].pnl > 0
        BY <2>1, <4>1, UpWeekWon
      <4> QED BY <4>2 DEF InTheWeek
    <3>2. won \in SUBSET DOMAIN trades
      OBVIOUS
    <3> HIDE DEF up, won
    <3>3. Cardinality(up) <= Cardinality(won)
      BY <2>1, <3>1, <3>2, WeeksOfTrades
    <3> QED BY <2>2, <3>3
  <2>11. metrics.weeks <= metrics.trade_count
    <3>1. \A x \in traded : \E k \in DOMAIN trades : x = Week(trades[k].closed_at)
      BY <2>5 DEF InTheWeek
    <3>2. Cardinality(DOMAIN trades) = n
      <4>1. 1 \in Int /\ n \in Int /\ (1 > n => n = 0) /\ n - 1 + 1 = n
        BY <2>3
      <4>2. Cardinality(1..n) = IF 1 > n THEN 0 ELSE n - 1 + 1
        BY <4>1, FS_Interval
      <4> QED BY <2>3, <4>1, <4>2
    <3> HIDE DEF traded
    <3>3. Cardinality(traded) <= Cardinality(DOMAIN trades)
      BY <2>1, <3>1, WeeksOfTrades
    <3> QED BY <2>2, <3>2, <3>3
  <2> QED BY <2>6, <2>7, <2>8, <2>9, <2>10, <2>11
<1> QED BY BacktestInvariant, BacktestLedger, BacktestTally, <1>1, PTL

=============================================================================

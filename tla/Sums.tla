-------------------------------- MODULE Sums --------------------------------
(***************************************************************************)
(* Sums over finite sets, as FiniteSetsExt!MapThenSumSet computes them: a   *)
(* recursive function over the subsets, which takes an element, whichever   *)
(* CHOOSE picks, and goes on with the rest.                                 *)
(*                                                                         *)
(* There is no induction rule here.  Of the sets for which something fails, *)
(* one has no such set strictly inside (WFMin); one element less, and it    *)
(* holds.                                                                   *)
(***************************************************************************)
EXTENDS Integers, FiniteSets, FiniteSetsExt, FiniteSetTheorems, WellFoundedInduction, TLAPS

Sum(v, S) == MapThenSumSet(LAMBDA n : v[n], S)

Some(s) == CHOOSE x \in s : TRUE
IsFold(g, v, S) ==
  g = [s \in SUBSET S |-> IF s = {} THEN 0 ELSE v[Some(s)] + g[s \ {Some(s)}]]
Fold(v, S) == CHOOSE g : IsFold(g, v, S)

-----------------------------------------------------------------------------

(* Of a property of finite sets that some set lacks, there is a set that lacks *)
(* it and has no strict subset that does.                                     *)
LEMMA Smallest ==
  ASSUME NEW S, IsFiniteSet(S), NEW T \in SUBSET SUBSET S, T # {}
  PROVE  \E s \in T : \A r \in T : r \subseteq s => r = s
<1>1. T \subseteq FiniteSubsetsOf(S)
  <2>1. FiniteSubsetsOf(S) = SUBSET S
    BY FS_FiniteSubsetsOfFinite
  <2> QED BY <2>1
<1>2. PICK s \in T : \A r \in T : ~ (<<r, s>> \in StrictSubsetOrdering(S))
  BY <1>1, FS_StrictSubsetOrderingWellFounded, WFMin
<1>3. ASSUME NEW r \in T, r \subseteq s PROVE r = s
  <2> SUFFICES ASSUME r # s PROVE FALSE
    OBVIOUS
  <2>1. <<r, s>> \in StrictSubsetOrdering(S)
    BY <1>3 DEF StrictSubsetOrdering
  <2> QED BY <1>2, <2>1
<1> QED BY <1>3

(* The element a sum takes first is one of the set.                            *)
LEMMA Picked ==
  ASSUME NEW s, s # {}
  PROVE  Some(s) \in s /\ s \ {Some(s)} # s /\ s \ {Some(s)} \subseteq s
BY DEF Some

Unfolds(g, v, S) ==
  /\ g[{}] = 0
  /\ \A s \in SUBSET S : s # {} => g[s] = v[Some(s)] + g[s \ {Some(s)}]

LEMMA FoldAt ==
  ASSUME NEW v, NEW S, NEW g, IsFold(g, v, S)
  PROVE  Unfolds(g, v, S)
<1> DEFINE f == [r \in SUBSET S |-> IF r = {} THEN 0 ELSE v[Some(r)] + g[r \ {Some(r)}]]
<1>1. g = f
  BY DEF IsFold
<1>2. f[{}] = 0
  OBVIOUS
<1>3. \A s \in SUBSET S : s # {} => f[s] = v[Some(s)] + g[s \ {Some(s)}]
  OBVIOUS
<1> HIDE DEF f
<1> QED BY <1>1, <1>2, <1>3 DEF Unfolds

Agree(v, w, t) == \A n \in t : v[n] = w[n]

(* Two folds agree where both are defined, and on equal values.                *)
LEMMA FoldsAgree ==
  ASSUME NEW v, NEW w, NEW S, NEW R, IsFiniteSet(S),
         NEW g, IsFold(g, v, S), NEW h, IsFold(h, w, R),
         NEW t, t \subseteq S, t \subseteq R, Agree(v, w, t)
  PROVE  g[t] = h[t]
<1>0. Unfolds(g, v, S) /\ Unfolds(h, w, R)
  BY FoldAt
<1> DEFINE T == {s \in SUBSET t : g[s] # h[s]}
<1> SUFFICES ASSUME T # {} PROVE FALSE
  OBVIOUS
<1>1. IsFiniteSet(t)
  BY FS_Subset
<1>2. PICK s \in T : \A r \in T : r \subseteq s => r = s
  <2>1. T \in SUBSET SUBSET t
    OBVIOUS
  <2> HIDE DEF T
  <2> QED BY <1>1, <2>1, Smallest
<1>3. s \in SUBSET S /\ s \in SUBSET R /\ s \in SUBSET t /\ g[s] # h[s]
  OBVIOUS
<1>4. s # {}
  BY <1>0, <1>3 DEF Unfolds
<1> DEFINE x == Some(s)
           r == s \ {x}
<1>5. x \in s /\ r # s /\ r \subseteq s
  BY <1>4, Picked
<1>6. g[r] = h[r]
  BY <1>2, <1>3, <1>5
<1>7. g[s] = v[x] + g[r] /\ h[s] = w[x] + h[r]
  BY <1>0, <1>3, <1>4 DEF Unfolds
<1>8. v[x] = w[x]
  BY <1>3, <1>5 DEF Agree
<1> HIDE DEF x, r
<1> QED BY <1>3, <1>6, <1>7, <1>8

LEMMA FoldExists ==
  ASSUME NEW v, NEW S, IsFiniteSet(S)
  PROVE  IsFold(Fold(v, S), v, S)
<1> DEFINE T == {s \in SUBSET S : ~\E g : IsFold(g, v, s)}
<1>1. T = {}
  <2> SUFFICES ASSUME T # {} PROVE FALSE
    OBVIOUS
  <2>1. PICK s \in T : \A r \in T : r \subseteq s => r = s
    <3>1. T \in SUBSET SUBSET S
      OBVIOUS
    <3> HIDE DEF T
    <3> QED BY <3>1, Smallest
  <2>2. s \in SUBSET S /\ ~\E g : IsFold(g, v, s)
    OBVIOUS
  <2>3. \A r \in SUBSET s : r # s => \E g : IsFold(g, v, r)
    BY <2>1, <2>2
  <2> HIDE DEF T
  <2> DEFINE F(r) == Fold(v, r)
             at(r) == IF r = {} THEN 0 ELSE v[Some(r)] + F(r \ {Some(r)})[r \ {Some(r)}]
             g == [r \in SUBSET s |-> at(r)]
  <2>4. \A r \in SUBSET s : r # s => IsFold(F(r), v, r)
    BY <2>3 DEF Fold
  <2>5. \A r \in SUBSET s : r # s => F(r)[r] = at(r)
    <3> SUFFICES ASSUME NEW r \in SUBSET s, r # s PROVE F(r)[r] = at(r)
      OBVIOUS
    <3>1. IsFold(F(r), v, r)
      BY <2>4
    <3>2. /\ F(r)[{}] = 0
          /\ r # {} => F(r)[r] = v[Some(r)] + F(r)[r \ {Some(r)}]
      <4> HIDE DEF F
      <4>1. Unfolds(F(r), v, r)
        BY <3>1, FoldAt
      <4>2. r \in SUBSET r
        OBVIOUS
      <4> QED BY <4>1, <4>2 DEF Unfolds
    <3>3. CASE r = {}
      BY <3>2, <3>3
    <3>4. CASE r # {}
      <4> DEFINE q == r \ {Some(r)}
      <4>1. q \in SUBSET s /\ q \in SUBSET r /\ q # s
        BY <3>4, Picked
      <4>2. IsFold(F(q), v, q)
        BY <2>4, <4>1
      <4>3. IsFiniteSet(r)
        BY <2>2, FS_Subset
      <4>4. F(r)[q] = F(q)[q]
        <5>1. q \subseteq r /\ q \subseteq q /\ Agree(v, v, q)
          BY <4>1 DEF Agree
        <5> HIDE DEF q, F
        <5> QED BY <3>1, <4>2, <4>3, <5>1, FoldsAgree
      <4> QED BY <3>2, <3>4, <4>4
    <3> QED BY <3>3, <3>4
  <2>6. IsFold(g, v, s)
    <3>1. \A r \in SUBSET s : at(r) = IF r = {} THEN 0 ELSE v[Some(r)] + g[r \ {Some(r)}]
      <4> SUFFICES ASSUME NEW r \in SUBSET s, r # {}
                   PROVE  at(r) = v[Some(r)] + g[r \ {Some(r)}]
        OBVIOUS
      <4> DEFINE q == r \ {Some(r)}
      <4>1. q \in SUBSET s /\ q # s
        BY Picked
      <4>2. g[q] = F(q)[q]
        <5>1. g[q] = at(q)
          BY <4>1
        <5>2. F(q)[q] = at(q)
          BY <2>5, <4>1
        <5> QED BY <5>1, <5>2
      <4>3. at(r) = v[Some(r)] + F(q)[q]
        OBVIOUS
      <4> HIDE DEF at, g, q, F
      <4> QED BY <4>2, <4>3 DEF q
    <3>2. g = [r \in SUBSET s |-> IF r = {} THEN 0 ELSE v[Some(r)] + g[r \ {Some(r)}]]
      BY <3>1
    <3> HIDE DEF g
    <3> QED BY <3>2 DEF IsFold
  <2> QED BY <2>2, <2>6
<1>2. \E g : IsFold(g, v, S)
  BY <1>1
<1> QED BY <1>2 DEF Fold

LEMMA SumIsFold ==
  ASSUME NEW v, NEW S
  PROVE  Sum(v, S) = Fold(v, S)[S]
BY DEF Sum, MapThenSumSet, MapThenFoldSet, Fold, IsFold, Some

-----------------------------------------------------------------------------
(* What is used of sums.                                                       *)

(* A sum is of what its values are.                                            *)
LEMMA SumEqual ==
  ASSUME NEW S, IsFiniteSet(S), NEW v, NEW w, \A n \in S : v[n] = w[n]
  PROVE  Sum(v, S) = Sum(w, S)
<1>1. IsFold(Fold(v, S), v, S) /\ IsFold(Fold(w, S), w, S) /\ S \in SUBSET S
  BY FoldExists
<1> DEFINE g == Fold(v, S)
           h == Fold(w, S)
<1>2. g[S] = h[S]
  <2>1. IsFold(g, v, S)
    BY <1>1
  <2>2. IsFold(h, w, S)
    BY <1>1
  <2>3. S \subseteq S /\ Agree(v, w, S)
    BY DEF Agree
  <2> HIDE DEF g, h
  <2> QED BY <2>1, <2>2, <2>3, FoldsAgree
<1> QED BY <1>2, SumIsFold

(* Sums, as one would define them: nothing adds up to 0,                       *)
LEMMA SumEmpty ==
  ASSUME NEW v
  PROVE  Sum(v, {}) = 0
<1>1. IsFold(Fold(v, {}), v, {})
  BY FS_EmptySet, FoldExists
<1>2. Unfolds(Fold(v, {}), v, {})
  BY <1>1, FoldAt
<1> QED BY <1>2, SumIsFold DEF Unfolds

LEMMA SumPicked ==
  ASSUME NEW S, IsFiniteSet(S), S # {}, NEW v
  PROVE  Sum(v, S) = v[Some(S)] + Sum(v, S \ {Some(S)})
<1> DEFINE r == S \ {Some(S)}
<1>1. IsFold(Fold(v, S), v, S)
  BY FoldExists
<1>2. Fold(v, S)[S] = v[Some(S)] + Fold(v, S)[r]
  <2>1. Unfolds(Fold(v, S), v, S)
    BY <1>1, FoldAt
  <2>2. S \in SUBSET S
    OBVIOUS
  <2> QED BY <2>1, <2>2 DEF Unfolds
<1>3. r \in SUBSET S /\ IsFiniteSet(r)
  BY FS_Subset
<1>4. IsFold(Fold(v, r), v, r)
  BY <1>3, FoldExists
<1>5. Fold(v, S)[r] = Fold(v, r)[r]
  <2>1. r \subseteq S /\ r \subseteq r /\ Agree(v, v, r)
    BY <1>3 DEF Agree
  <2> HIDE DEF r
  <2> QED BY <1>1, <1>4, <2>1, FoldsAgree
<1> QED BY <1>2, <1>5, SumIsFold

(* a sum of integers is an integer,                                            *)
LEMMA SumType ==
  ASSUME NEW S, IsFiniteSet(S), NEW v, \A n \in S : v[n] \in Int
  PROVE  Sum(v, S) \in Int
<1> DEFINE T == {s \in SUBSET S : Sum(v, s) \notin Int}
<1> SUFFICES ASSUME T # {} PROVE FALSE
  OBVIOUS
<1>1. PICK s \in T : \A r \in T : r \subseteq s => r = s
  <2>1. T \in SUBSET SUBSET S
    OBVIOUS
  <2> HIDE DEF T
  <2> QED BY <2>1, Smallest
<1>2. s \in SUBSET S /\ IsFiniteSet(s) /\ Sum(v, s) \notin Int
  BY FS_Subset
<1>3. s # {}
  BY <1>2, SumEmpty
<1> DEFINE r == s \ {Some(s)}
<1>4. Some(s) \in s /\ r # s /\ r \subseteq s
  BY <1>3, Picked
<1>5. Sum(v, r) \in Int
  BY <1>1, <1>2, <1>4
<1>6. Sum(v, s) = v[Some(s)] + Sum(v, r)
  BY <1>2, <1>3, SumPicked
<1> QED BY <1>2, <1>4, <1>5, <1>6

(* Any element may be taken out first, not only the one CHOOSE picks.          *)
LEMMA SumWithout ==
  ASSUME NEW S, IsFiniteSet(S), NEW v, \A n \in S : v[n] \in Int, NEW x \in S
  PROVE  Sum(v, S) = v[x] + Sum(v, S \ {x})
<1> DEFINE T == {s \in SUBSET S : \E n \in s : Sum(v, s) # v[n] + Sum(v, s \ {n})}
<1> SUFFICES ASSUME T # {} PROVE FALSE
  OBVIOUS
<1>1. PICK s \in T : \A r \in T : r \subseteq s => r = s
  <2>1. T \in SUBSET SUBSET S
    OBVIOUS
  <2> HIDE DEF T
  <2> QED BY <2>1, Smallest
<1>2. s \in SUBSET S /\ IsFiniteSet(s)
  BY FS_Subset
<1>3. PICK n \in s : Sum(v, s) # v[n] + Sum(v, s \ {n})
  OBVIOUS
<1>4. \A r \in SUBSET s : r # s => \A m \in r : Sum(v, r) = v[m] + Sum(v, r \ {m})
  BY <1>1, <1>2
<1> HIDE DEF T
<1> DEFINE y == Some(s)
           r == s \ {y}
           q == s \ {n}
           u == s \ {n, y}
<1>5. y \in s /\ Sum(v, s) = v[y] + Sum(v, r)
  BY <1>2, <1>3, Picked, SumPicked
<1>6. n # y
  BY <1>3, <1>5
<1>7. Sum(v, r) = v[n] + Sum(v, u)
  <2>1. r \in SUBSET s /\ r # s /\ n \in r /\ r \ {n} = u
    BY <1>3, <1>5, <1>6
  <2> HIDE DEF r, u
  <2> QED BY <1>4, <2>1
<1>8. Sum(v, q) = v[y] + Sum(v, u)
  <2>1. q \in SUBSET s /\ q # s /\ y \in q /\ q \ {y} = u
    BY <1>3, <1>5, <1>6
  <2> HIDE DEF q, u, y
  <2> QED BY <1>4, <2>1
<1>9. v[n] \in Int /\ v[y] \in Int /\ Sum(v, u) \in Int
  <2>1. n \in S /\ y \in S
    BY <1>2, <1>3, <1>5
  <2>2. u \in SUBSET S /\ IsFiniteSet(u)
    BY <1>2, FS_Subset
  <2>3. Sum(v, u) \in Int
    <3> HIDE DEF u
    <3> QED BY <2>2, SumType
  <2> QED BY <2>1, <2>3
<1> HIDE DEF y, r, q, u
<1>10. Sum(v, s) = v[n] + Sum(v, q)
  BY <1>5, <1>7, <1>8, <1>9
<1> QED BY <1>3, <1>10 DEF q

(* and an element more adds its value.                                         *)
LEMMA SumWith ==
  ASSUME NEW S, IsFiniteSet(S), NEW v, \A n \in S : v[n] \in Int,
         NEW x, x \notin S, v[x] \in Int
  PROVE  Sum(v, S \cup {x}) = Sum(v, S) + v[x]
<1> DEFINE R == S \cup {x}
<1>1. IsFiniteSet(R) /\ x \in R /\ R \ {x} = S /\ \A n \in R : v[n] \in Int
  BY FS_AddElement
<1>2. Sum(v, R) = v[x] + Sum(v, S)
  <2> HIDE DEF R
  <2> QED BY <1>1, SumWithout
<1>3. Sum(v, S) \in Int
  BY SumType
<1> QED BY <1>2, <1>3

(* More of what is not negative is no less.                                    *)
LEMMA SumGrows ==
  ASSUME NEW S, IsFiniteSet(S), NEW v, \A n \in S : v[n] \in Int,
         NEW R \in SUBSET S, \A n \in S \ R : v[n] >= 0
  PROVE  Sum(v, R) <= Sum(v, S)
<1> DEFINE T == {s \in SUBSET S : R \subseteq s /\ ~(Sum(v, R) <= Sum(v, s))}
<1> SUFFICES ASSUME T # {} PROVE FALSE
  OBVIOUS
<1>1. PICK s \in T : \A r \in T : r \subseteq s => r = s
  <2>1. T \in SUBSET SUBSET S
    OBVIOUS
  <2> HIDE DEF T
  <2> QED BY <2>1, Smallest
<1>2. s \in SUBSET S /\ IsFiniteSet(s) /\ R \subseteq s /\ ~(Sum(v, R) <= Sum(v, s))
  BY FS_Subset
<1>3. \A r \in SUBSET s : R \subseteq r /\ r # s => Sum(v, R) <= Sum(v, r)
  BY <1>1, <1>2
<1> HIDE DEF T
<1>4. Sum(v, R) \in Int /\ Sum(v, s) \in Int
  <2>1. IsFiniteSet(R) /\ (\A n \in R : v[n] \in Int) /\ (\A n \in s : v[n] \in Int)
    BY <1>2, FS_Subset
  <2> QED BY <1>2, <2>1, SumType
<1>5. PICK x \in s : x \notin R
  BY <1>2, <1>4
<1> DEFINE r == s \ {x}
<1>6. r \in SUBSET s /\ R \subseteq r /\ r # s /\ IsFiniteSet(r) /\ (\A n \in r : v[n] \in Int)
  BY <1>2, <1>5, FS_Subset
<1>7. Sum(v, R) <= Sum(v, r) /\ Sum(v, r) \in Int
  <2> HIDE DEF r
  <2> QED BY <1>3, <1>6, SumType
<1>8. Sum(v, s) = v[x] + Sum(v, r) /\ v[x] \in Int /\ v[x] >= 0
  <2>1. \A n \in s : v[n] \in Int
    BY <1>2
  <2>2. v[x] \in Int /\ v[x] >= 0
    BY <1>2, <1>5
  <2> QED BY <1>2, <2>1, <2>2, SumWithout
<1> HIDE DEF r
<1> QED BY <1>2, <1>4, <1>7, <1>8

(* And less of what is not positive.                                           *)
LEMMA SumShrinks ==
  ASSUME NEW S, IsFiniteSet(S), NEW v, \A n \in S : v[n] \in Int,
         NEW R \in SUBSET S, \A n \in S \ R : v[n] <= 0
  PROVE  Sum(v, S) <= Sum(v, R)
<1> DEFINE T == {s \in SUBSET S : R \subseteq s /\ ~(Sum(v, s) <= Sum(v, R))}
<1> SUFFICES ASSUME T # {} PROVE FALSE
  OBVIOUS
<1>1. PICK s \in T : \A r \in T : r \subseteq s => r = s
  <2>1. T \in SUBSET SUBSET S
    OBVIOUS
  <2> HIDE DEF T
  <2> QED BY <2>1, Smallest
<1>2. s \in SUBSET S /\ IsFiniteSet(s) /\ R \subseteq s /\ ~(Sum(v, s) <= Sum(v, R))
  BY FS_Subset
<1>3. \A r \in SUBSET s : R \subseteq r /\ r # s => Sum(v, r) <= Sum(v, R)
  BY <1>1, <1>2
<1> HIDE DEF T
<1>4. Sum(v, R) \in Int /\ Sum(v, s) \in Int
  <2>1. IsFiniteSet(R) /\ (\A n \in R : v[n] \in Int) /\ (\A n \in s : v[n] \in Int)
    BY <1>2, FS_Subset
  <2> QED BY <1>2, <2>1, SumType
<1>5. PICK x \in s : x \notin R
  BY <1>2, <1>4
<1> DEFINE r == s \ {x}
<1>6. r \in SUBSET s /\ R \subseteq r /\ r # s /\ IsFiniteSet(r) /\ (\A n \in r : v[n] \in Int)
  BY <1>2, <1>5, FS_Subset
<1>7. Sum(v, r) <= Sum(v, R) /\ Sum(v, r) \in Int
  <2> HIDE DEF r
  <2> QED BY <1>3, <1>6, SumType
<1>8. Sum(v, s) = v[x] + Sum(v, r) /\ v[x] \in Int /\ v[x] <= 0
  <2>1. \A n \in s : v[n] \in Int
    BY <1>2
  <2>2. v[x] \in Int /\ v[x] <= 0
    BY <1>2, <1>5
  <2> QED BY <1>2, <2>1, <2>2, SumWithout
<1> HIDE DEF r
<1> QED BY <1>2, <1>4, <1>7, <1>8

(* The models sum up a field of records.                                       *)
IsPnlFold(g, f, S) ==
  g = [s \in SUBSET S |-> IF s = {} THEN 0 ELSE f[Some(s)].pnl + g[s \ {Some(s)}]]
PnlFold(f, S) == CHOOSE g : IsPnlFold(g, f, S)
PnlSum(f, S) == MapThenSumSet(LAMBDA n : f[n].pnl, S)

LEMMA PnlSumIsFold ==
  ASSUME NEW f, NEW S
  PROVE  PnlSum(f, S) = PnlFold(f, S)[S]
BY DEF PnlSum, MapThenSumSet, MapThenFoldSet, PnlFold, IsPnlFold, Some

LEMMA SumOfPnl ==
  ASSUME NEW f, NEW S, IsFiniteSet(S), NEW D, S \subseteq D
  PROVE  PnlSum(f, S) = Sum([n \in D |-> f[n].pnl], S)
<1> DEFINE v == [n \in D |-> f[n].pnl]
<1>1. \A s \in SUBSET S : s # {} => v[Some(s)] = f[Some(s)].pnl
  <2> SUFFICES ASSUME NEW s \in SUBSET S, s # {} PROVE v[Some(s)] = f[Some(s)].pnl
    OBVIOUS
  <2>1. Some(s) \in D
    BY Picked
  <2> QED BY <2>1
<1> HIDE DEF v
<1>2. \A g : IsPnlFold(g, f, S) <=> IsFold(g, v, S)
  <2> SUFFICES ASSUME NEW g PROVE IsPnlFold(g, f, S) <=> IsFold(g, v, S)
    OBVIOUS
  <2> DEFINE a == [s \in SUBSET S |-> IF s = {} THEN 0 ELSE f[Some(s)].pnl + g[s \ {Some(s)}]]
             b == [s \in SUBSET S |-> IF s = {} THEN 0 ELSE v[Some(s)] + g[s \ {Some(s)}]]
  <2>1. a = b
    BY <1>1
  <2>2. (IsPnlFold(g, f, S) <=> g = a) /\ (IsFold(g, v, S) <=> g = b)
    BY DEF IsPnlFold, IsFold
  <2> HIDE DEF a, b
  <2> QED BY <2>1, <2>2
<1>3. IsFold(Fold(v, S), v, S)
  BY FoldExists
<1>4. IsPnlFold(PnlFold(f, S), f, S)
  <2>1. \E g : IsPnlFold(g, f, S)
    BY <1>2, <1>3
  <2> QED BY <2>1 DEF PnlFold
<1>5. IsFold(PnlFold(f, S), v, S)
  BY <1>2, <1>4
<1>6. PnlFold(f, S)[S] = Fold(v, S)[S]
  <2>1. S \subseteq S /\ Agree(v, v, S)
    BY DEF Agree
  <2> QED BY <1>3, <1>5, <2>1, FoldsAgree
<1> QED BY <1>6, PnlSumIsFold, SumIsFold DEF v

(* The same of the results of a set of trades.  Only the results count.        *)
LEMMA PnlEqual ==
  ASSUME NEW S, IsFiniteSet(S), NEW f, NEW g, \A n \in S : f[n].pnl = g[n].pnl
  PROVE  PnlSum(f, S) = PnlSum(g, S)
<1> DEFINE v == [n \in S |-> f[n].pnl]
           w == [n \in S |-> g[n].pnl]
<1>1. v = w
  OBVIOUS
<1>2. PnlSum(f, S) = Sum(v, S) /\ PnlSum(g, S) = Sum(w, S)
  BY SumOfPnl
<1> HIDE DEF v, w
<1> QED BY <1>1, <1>2

(* No trades, no result.                                                       *)
LEMMA PnlEmpty ==
  ASSUME NEW f
  PROVE  PnlSum(f, {}) = 0
<1>1. IsFiniteSet({})
  BY FS_EmptySet
<1>2. PnlSum(f, {}) = Sum([n \in {} |-> f[n].pnl], {})
  BY <1>1, SumOfPnl
<1> QED BY <1>2, SumEmpty

(* The result of some trades is a number.                                      *)
LEMMA PnlType ==
  ASSUME NEW S, IsFiniteSet(S), NEW f, \A n \in S : f[n].pnl \in Int
  PROVE  PnlSum(f, S) \in Int
<1> DEFINE v == [n \in S |-> f[n].pnl]
<1>1. \A n \in S : v[n] \in Int
  OBVIOUS
<1>2. PnlSum(f, S) = Sum(v, S)
  BY SumOfPnl
<1> HIDE DEF v
<1> QED BY <1>1, <1>2, SumType

(* One trade more adds its result.                                             *)
LEMMA PnlWith ==
  ASSUME NEW S, IsFiniteSet(S), NEW f, \A n \in S : f[n].pnl \in Int,
         NEW x, x \notin S, f[x].pnl \in Int
  PROVE  PnlSum(f, S \cup {x}) = PnlSum(f, S) + f[x].pnl
<1> DEFINE D == S \cup {x}
           v == [n \in D |-> f[n].pnl]
<1>1. IsFiniteSet(D) /\ S \subseteq D
  BY FS_AddElement
<1>2. PnlSum(f, D) = Sum(v, D) /\ PnlSum(f, S) = Sum(v, S)
  <2>1. PnlSum(f, D) = Sum(v, D)
    <3> D \subseteq D
      OBVIOUS
    <3> HIDE DEF D
    <3> QED BY <1>1, SumOfPnl
  <2>2. PnlSum(f, S) = Sum(v, S)
    BY <1>1, SumOfPnl
  <2> QED BY <2>1, <2>2
<1>3. (\A n \in S : v[n] \in Int) /\ v[x] \in Int /\ v[x] = f[x].pnl
  OBVIOUS
<1>4. Sum(v, D) = Sum(v, S) + v[x]
  <2> HIDE DEF v
  <2> QED BY <1>3, SumWith
<1> HIDE DEF v
<1> QED BY <1>2, <1>3, <1>4

(* Without what won, the result is no more.                                    *)
LEMMA PnlGrows ==
  ASSUME NEW S, IsFiniteSet(S), NEW f, \A n \in S : f[n].pnl \in Int,
         NEW R \in SUBSET S, \A n \in S \ R : f[n].pnl >= 0
  PROVE  PnlSum(f, R) <= PnlSum(f, S)
<1> DEFINE v == [n \in S |-> f[n].pnl]
<1>1. (\A n \in S : v[n] \in Int) /\ \A n \in S \ R : v[n] >= 0
  OBVIOUS
<1>2. IsFiniteSet(R)
  BY FS_Subset
<1>3. PnlSum(f, S) = Sum(v, S) /\ PnlSum(f, R) = Sum(v, R)
  BY <1>2, SumOfPnl
<1>4. Sum(v, R) <= Sum(v, S)
  <2> HIDE DEF v
  <2> QED BY <1>1, SumGrows
<1> QED BY <1>3, <1>4

(* Without what lost, it is no less.                                           *)
LEMMA PnlShrinks ==
  ASSUME NEW S, IsFiniteSet(S), NEW f, \A n \in S : f[n].pnl \in Int,
         NEW R \in SUBSET S, \A n \in S \ R : f[n].pnl <= 0
  PROVE  PnlSum(f, S) <= PnlSum(f, R)
<1> DEFINE v == [n \in S |-> f[n].pnl]
<1>1. (\A n \in S : v[n] \in Int) /\ \A n \in S \ R : v[n] <= 0
  OBVIOUS
<1>2. IsFiniteSet(R)
  BY FS_Subset
<1>3. PnlSum(f, S) = Sum(v, S) /\ PnlSum(f, R) = Sum(v, R)
  BY <1>2, SumOfPnl
<1>4. Sum(v, S) <= Sum(v, R)
  <2> HIDE DEF v
  <2> QED BY <1>1, SumShrinks
<1> QED BY <1>3, <1>4

=============================================================================

---------------------------- MODULE MoneyProofs ----------------------------
(* What the sums of Money do when a row is added or changed.                *)
EXTENDS Money, FiniteSetTheorems, FunctionTheorems, WellFoundedInduction, TLAPS

\* A row carries as many rials as its amount.
LEMMA RialsCount ==
  ASSUME NEW x, NEW f, f[x] \in Int
  PROVE  /\ IsFiniteSet(Rials(x, f))
         /\ Cardinality(Rials(x, f)) = AtLeastZero(f[x])
<1>1. /\ IsFiniteSet(1 .. f[x])
      /\ Cardinality(1 .. f[x]) = AtLeastZero(f[x])
  BY FS_Interval, SMT DEF AtLeastZero
<1>2. IsFiniteSet({x}) /\ Cardinality({x}) = 1
  BY FS_Singleton
<1>3. /\ IsFiniteSet({x} \X (1 .. f[x]))
      /\ Cardinality({x} \X (1 .. f[x])) = Cardinality({x}) * Cardinality(1 .. f[x])
  BY <1>1, <1>2, FS_Product
<1>4. AtLeastZero(f[x]) \in Int
  BY DEF AtLeastZero
<1> QED
  BY <1>1, <1>2, <1>3, <1>4 DEF Rials

\* The rials of finitely many rows are finitely many: a sum is a natural number.
LEMMA TotalType ==
  ASSUME NEW S, IsFiniteSet(S), NEW f, \A x \in S : f[x] \in Int
  PROVE  /\ IsFiniteSet(AllRials(S, f))
         /\ Total(S, f) \in Nat
<1> DEFINE g == [x \in S |-> Rials(x, f)]
           T == {Rials(x, f) : x \in S}
<1>1. g \in Surjection(S, T)
  BY DEF Surjection
<1>2. IsFiniteSet(T)
  BY <1>1, FS_Surjection
<1>3. \A r \in T : IsFiniteSet(r)
  BY RialsCount
<1>4. IsFiniteSet(AllRials(S, f))
  BY <1>2, <1>3, FS_UNION DEF AllRials
<1> QED
  BY <1>4, FS_CardinalityType DEF Total

LEMMA TotalEmpty ==
  ASSUME NEW f
  PROVE  Total({}, f) = 0
<1>1. AllRials({}, f) = {}
  BY DEF AllRials
<1> QED
  BY <1>1, FS_EmptySet DEF Total

\* A sum depends on the amounts of its rows only.
LEMMA TotalSame ==
  ASSUME NEW S, NEW f, NEW g, \A x \in S : f[x] = g[x]
  PROVE  Total(S, f) = Total(S, g)
<1>1. AllRials(S, f) = AllRials(S, g)
  BY DEF AllRials, Rials
<1> QED
  BY <1>1 DEF Total

\* Adding a row adds its amount.
LEMMA TotalAdd ==
  ASSUME NEW S, IsFiniteSet(S), NEW f, \A y \in S : f[y] \in Int,
         NEW x, x \notin S, f[x] \in Int
  PROVE  Total(S \cup {x}, f) = Total(S, f) + AtLeastZero(f[x])
<1>1. AllRials(S \cup {x}, f) = AllRials(S, f) \cup Rials(x, f)
  BY DEF AllRials
<1>2. AllRials(S, f) \cap Rials(x, f) = {}
  BY DEF AllRials, Rials
<1>3. IsFiniteSet(AllRials(S, f)) /\ Total(S, f) \in Nat
  BY TotalType
<1>4. /\ IsFiniteSet(Rials(x, f))
      /\ Cardinality(Rials(x, f)) = AtLeastZero(f[x])
  BY RialsCount
<1>5. Cardinality(AllRials(S, f) \cap Rials(x, f)) = 0
  BY <1>2, FS_EmptySet
<1>6. Cardinality(AllRials(S, f) \cup Rials(x, f))
        = Cardinality(AllRials(S, f)) + Cardinality(Rials(x, f))
            - Cardinality(AllRials(S, f) \cap Rials(x, f))
  BY <1>3, <1>4, FS_Union
<1>7. AtLeastZero(f[x]) \in Int
  BY DEF AtLeastZero
<1>8. Total(S \cup {x}, f) = Cardinality(AllRials(S, f) \cup Rials(x, f))
  BY <1>1 DEF Total
<1>9. Total(S, f) = Cardinality(AllRials(S, f))
  BY DEF Total
<1> QED
  BY <1>3, <1>4, <1>5, <1>6, <1>7, <1>8, <1>9

\* Leaving a row out takes its amount off.
LEMMA TotalWithout ==
  ASSUME NEW S, IsFiniteSet(S), NEW f, \A y \in S : f[y] \in Int, NEW x \in S
  PROVE  /\ Total(S \ {x}, f) \in Nat
         /\ Total(S, f) = Total(S \ {x}, f) + AtLeastZero(f[x])
<1> DEFINE T == S \ {x}
<1>1. T \in SUBSET S /\ IsFiniteSet(T)
  BY FS_Subset
<1>2. Total(T, f) \in Nat
  BY <1>1, TotalType
<1>3. Total(T \cup {x}, f) = Total(T, f) + AtLeastZero(f[x])
  BY <1>1, TotalAdd
<1>4. T \cup {x} = S
  OBVIOUS
<1> QED
  BY <1>2, <1>3, <1>4

\* A sum over separate sets of rows is the sum of their sums.
LEMMA TotalUnion ==
  ASSUME NEW S, NEW T, IsFiniteSet(S), IsFiniteSet(T), S \cap T = {},
         NEW f, \A y \in S \cup T : f[y] \in Int
  PROVE  Total(S \cup T, f) = Total(S, f) + Total(T, f)
<1>1. AllRials(S \cup T, f) = AllRials(S, f) \cup AllRials(T, f)
  BY DEF AllRials
<1>2. AllRials(S, f) \cap AllRials(T, f) = {}
  BY DEF AllRials, Rials
<1>3. /\ IsFiniteSet(AllRials(S, f)) /\ Total(S, f) \in Nat
      /\ IsFiniteSet(AllRials(T, f)) /\ Total(T, f) \in Nat
  BY TotalType
<1>4. Cardinality(AllRials(S, f) \cap AllRials(T, f)) = 0
  BY <1>2, FS_EmptySet
<1>5. Cardinality(AllRials(S, f) \cup AllRials(T, f))
        = Cardinality(AllRials(S, f)) + Cardinality(AllRials(T, f))
            - Cardinality(AllRials(S, f) \cap AllRials(T, f))
  BY <1>3, FS_Union
<1>6. Total(S \cup T, f) = Cardinality(AllRials(S, f) \cup AllRials(T, f))
  BY <1>1 DEF Total
<1>7. Total(S, f) = Cardinality(AllRials(S, f)) /\ Total(T, f) = Cardinality(AllRials(T, f))
  BY DEF Total
<1> QED
  BY <1>3, <1>4, <1>5, <1>6, <1>7

\* Rows without a positive amount count nothing.
LEMMA TotalWhere ==
  ASSUME NEW S, NEW T \in SUBSET S, NEW f, \A x \in S \ T : f[x] \in Int /\ f[x] <= 0
  PROVE  Total(S, f) = Total(T, f)
<1>1. \A x \in S \ T : Rials(x, f) = {}
  BY DEF Rials
<1>2. AllRials(S, f) = AllRials(T, f)
  BY <1>1 DEF AllRials
<1> QED
  BY <1>2 DEF Total

LEMMA TotalZero ==
  ASSUME NEW S, NEW f, \A x \in S : f[x] \in Int /\ f[x] <= 0
  PROVE  Total(S, f) = 0
<1>1. {} \in SUBSET S /\ \A x \in S \ {} : f[x] \in Int /\ f[x] <= 0
  OBVIOUS
<1>2. Total(S, f) = Total({}, f)
  BY <1>1, TotalWhere
<1> QED
  BY <1>2, TotalEmpty

LEMMA TotalOne ==
  ASSUME NEW x, NEW f, f[x] \in Int
  PROVE  Total({x}, f) = AtLeastZero(f[x])
<1>1. AllRials({x}, f) = Rials(x, f)
  BY DEF AllRials
<1> QED
  BY <1>1, RialsCount DEF Total

\* Fewer rows never add up to more.
LEMMA TotalSubset ==
  ASSUME NEW S, IsFiniteSet(S), NEW f, \A y \in S : f[y] \in Int, NEW T \in SUBSET S
  PROVE  Total(T, f) \in Nat /\ Total(T, f) <= Total(S, f)
<1>1. IsFiniteSet(T) /\ IsFiniteSet(S \ T)
  BY FS_Subset
<1>2. Total(T, f) \in Nat /\ Total(S \ T, f) \in Nat
  BY <1>1, TotalType
<1>3. Total(T \cup (S \ T), f) = Total(T, f) + Total(S \ T, f)
  BY <1>1, TotalUnion
<1>4. Total(T \cup (S \ T), f) = Total(S, f)
  <2>1. T \cup (S \ T) = S
    OBVIOUS
  <2> QED
    BY <2>1
<1> QED
  BY <1>2, <1>3, <1>4

\* The sum of two columns is the sum of their sums.
LEMMA TotalSum ==
  ASSUME NEW S, IsFiniteSet(S), NEW f, NEW g, NEW h,
         \A x \in S : f[x] \in Nat /\ g[x] \in Nat /\ h[x] = f[x] + g[x]
  PROVE  Total(S, h) = Total(S, f) + Total(S, g)
<1> DEFINE low  == AllRials(S, f)
           high == {r \in AllRials(S, h) : r[2] > f[r[1]]}
           down == [r \in high |-> <<r[1], r[2] - f[r[1]]>>]
<1>1. /\ \A r \in AllRials(S, h) : r[1] \in S /\ r[2] \in 1 .. h[r[1]] /\ r = <<r[1], r[2]>>
      /\ \A r \in AllRials(S, f) : r[1] \in S /\ r[2] \in 1 .. f[r[1]] /\ r = <<r[1], r[2]>>
      /\ \A r \in AllRials(S, g) : r[1] \in S /\ r[2] \in 1 .. g[r[1]] /\ r = <<r[1], r[2]>>
  BY DEF AllRials, Rials
<1>2. ASSUME NEW x \in S, NEW k
      PROVE  /\ k \in 1 .. h[x] => <<x, k>> \in AllRials(S, h)
             /\ k \in 1 .. f[x] => <<x, k>> \in AllRials(S, f)
             /\ k \in 1 .. g[x] => <<x, k>> \in AllRials(S, g)
  BY DEF AllRials, Rials
<1>3. AllRials(S, h) = low \cup high /\ low \cap high = {}
  <2>1. ASSUME NEW r \in low PROVE r \in AllRials(S, h) /\ ~(r[2] > f[r[1]])
    <3>1. r[1] \in S /\ r[2] \in 1 .. f[r[1]] /\ r = <<r[1], r[2]>>
      BY <1>1
    <3>2. r[2] \in 1 .. h[r[1]] /\ ~(r[2] > f[r[1]])
      BY <3>1
    <3> QED
      BY <1>2, <3>1, <3>2
  <2>2. ASSUME NEW r \in AllRials(S, h), ~(r[2] > f[r[1]]) PROVE r \in low
    <3>1. r[1] \in S /\ r[2] \in 1 .. h[r[1]] /\ r = <<r[1], r[2]>>
      BY <1>1
    <3>2. r[2] \in 1 .. f[r[1]]
      BY <2>2, <3>1
    <3> QED
      BY <1>2, <3>1, <3>2
  <2> QED
    BY <2>1, <2>2
<1>4. down \in Bijection(high, AllRials(S, g))
  <2>1. ASSUME NEW r \in high PROVE down[r] \in AllRials(S, g)
    <3>1. r[1] \in S /\ r[2] \in 1 .. h[r[1]] /\ r[2] > f[r[1]]
      BY <1>1
    <3>2. r[2] - f[r[1]] \in 1 .. g[r[1]]
      BY <3>1
    <3> QED
      BY <1>2, <3>1, <3>2
  <2>2. ASSUME NEW r \in high, NEW s \in high, down[r] = down[s] PROVE r = s
    <3>1. /\ r[1] = s[1] /\ r[2] - f[r[1]] = s[2] - f[s[1]]
      BY <2>2
    <3>2. /\ r[1] \in S /\ r[2] \in Int /\ s[2] \in Int
          /\ r = <<r[1], r[2]>> /\ s = <<s[1], s[2]>>
      BY <1>1
    <3> QED
      BY <3>1, <3>2
  <2>3. ASSUME NEW s \in AllRials(S, g) PROVE \E r \in high : down[r] = s
    <3> DEFINE r == <<s[1], s[2] + f[s[1]]>>
    <3>1. s[1] \in S /\ s[2] \in 1 .. g[s[1]] /\ s = <<s[1], s[2]>>
      BY <1>1
    <3>2. s[2] + f[s[1]] \in 1 .. h[s[1]] /\ s[2] + f[s[1]] > f[s[1]]
      BY <3>1
    <3>3. r \in high
      BY <1>2, <3>1, <3>2
    <3>4. s[2] + f[s[1]] - f[s[1]] = s[2]
      BY <3>1
    <3>5. down[r] = s
      BY <3>1, <3>3, <3>4
    <3> QED
      BY <3>3, <3>5
  <2> QED
    BY <2>1, <2>2, <2>3, Fun_IsBij
<1>5. \A x \in S : f[x] \in Int /\ g[x] \in Int /\ h[x] \in Int
  OBVIOUS
<1>6. /\ IsFiniteSet(low) /\ IsFiniteSet(AllRials(S, h)) /\ IsFiniteSet(AllRials(S, g))
      /\ Total(S, f) \in Nat /\ Total(S, g) \in Nat
  BY <1>5, TotalType
<1>7. IsFiniteSet(high)
  BY <1>6, FS_Subset
<1>8. Cardinality(high) = Cardinality(AllRials(S, g))
  <2>1. ExistsBijection(high, AllRials(S, g))
    BY <1>4 DEF ExistsBijection
  <2> QED
    BY <2>1, <1>7, FS_Bijection
<1>9. Cardinality(low \cup high) = Cardinality(low) + Cardinality(high) - Cardinality(low \cap high)
  BY <1>6, <1>7, FS_Union
<1>10. Cardinality(low \cap high) = 0
  BY <1>3, FS_EmptySet
<1>11. Total(S, h) = Cardinality(low \cup high)
  BY <1>3 DEF Total
<1>12. Total(S, f) = Cardinality(low) /\ Total(S, g) = Cardinality(AllRials(S, g))
  BY DEF Total
<1> HIDE DEF low, high
<1> QED
  BY <1>6, <1>8, <1>9, <1>10, <1>11, <1>12

\* A sum with a positive term is positive.
LEMMA TotalPositive ==
  ASSUME NEW S, IsFiniteSet(S), NEW f, \A y \in S : f[y] \in Int,
         NEW x \in S, f[x] > 0
  PROVE  Total(S, f) > 0
<1> DEFINE T == S \ {x}
<1>1. T \in SUBSET S /\ IsFiniteSet(T)
  BY FS_Subset
<1>2. Total(T, f) \in Nat
  BY <1>1, TotalType
<1>3. Total(T \cup {x}, f) = Total(T, f) + AtLeastZero(f[x])
  BY <1>1, TotalAdd
<1>4. T \cup {x} = S /\ AtLeastZero(f[x]) > 0
  BY DEF AtLeastZero
<1> HIDE DEF T
<1> QED
  BY <1>2, <1>3, <1>4 DEF AtLeastZero

\* A debt never receives more than it owes.
LEMMA CoveredType ==
  ASSUME NEW owed \in Int, NEW earlier, NEW cash
  PROVE  /\ Covered(owed, earlier, cash) \in Nat
         /\ Covered(owed, earlier, cash) <= AtLeastZero(owed)
<1> DEFINE K == {k \in 1 .. owed : earlier + k <= cash}
<1>1. /\ IsFiniteSet(1 .. owed)
      /\ Cardinality(1 .. owed) = AtLeastZero(owed)
  BY FS_Interval, SMT DEF AtLeastZero
<1>2. K \in SUBSET (1 .. owed)
  OBVIOUS
<1>3. IsFiniteSet(K) /\ Cardinality(K) <= Cardinality(1 .. owed)
  BY <1>1, <1>2, FS_Subset
<1>4. Cardinality(K) \in Nat
  BY <1>3, FS_CardinalityType
<1> QED
  BY <1>1, <1>3, <1>4 DEF Covered

\* What is left over is part of the cash.
LEMMA LeftOverType ==
  ASSUME NEW total, NEW cash \in Int
  PROVE  LeftOver(total, cash) \in Nat
<1> DEFINE K == {k \in 1 .. cash : total < k}
<1>1. IsFiniteSet(1 .. cash)
  BY FS_Interval
<1>2. K \in SUBSET (1 .. cash)
  OBVIOUS
<1>3. IsFiniteSet(K)
  BY <1>1, <1>2, FS_Subset
<1> QED
  BY <1>3, FS_CardinalityType DEF LeftOver

\* A debt receives what is left of the cash when it is reached, up to what it owes.
LEMMA CoveredAmount ==
  ASSUME NEW owed \in Int, NEW earlier \in Nat, NEW cash \in Nat
  PROVE  Covered(owed, earlier, cash) = AtLeastZero(Lesser(owed, cash - earlier))
<1> DEFINE n == Lesser(owed, cash - earlier)
<1>1. n \in Int
  BY DEF Lesser
<1>2. {k \in 1 .. owed : earlier + k <= cash} = 1 .. n
  BY DEF Lesser
<1>3. Cardinality(1 .. n) = AtLeastZero(n)
  BY <1>1, FS_Interval, SMT DEF AtLeastZero
<1> QED
  BY <1>2, <1>3 DEF Covered

LEMMA LeftOverAmount ==
  ASSUME NEW total \in Nat, NEW cash \in Nat
  PROVE  LeftOver(total, cash) = AtLeastZero(cash - total)
<1>1. {k \in 1 .. cash : total < k} = (total + 1) .. cash
  OBVIOUS
<1>2. Cardinality((total + 1) .. cash) = AtLeastZero(cash - total)
  BY FS_Interval, SMT DEF AtLeastZero
<1> QED
  BY <1>1, <1>2 DEF LeftOver

\* Debts that are paid one after the other take all the cash, up to their sum:
\* the k-th rial of a debt is the (earlier + k)-th rial paid, and no two rials
\* share a place, so the rials fill the places 1 .. Total.
LEMMA TotalCovered ==
  ASSUME NEW S, IsFiniteSet(S), NEW f, NEW earlier, NEW cash \in Nat, NEW g,
         \A x \in S : /\ f[x] \in Nat /\ earlier[x] \in Nat
                      /\ earlier[x] + f[x] <= Total(S, f)
                      /\ g[x] = Covered(f[x], earlier[x], cash),
         \A x, y \in S : x # y => \/ earlier[x] + f[x] <= earlier[y]
                                 \/ earlier[y] + f[y] <= earlier[x]
  PROVE  Total(S, g) = Lesser(cash, Total(S, f))
<1> DEFINE R == AllRials(S, f)
           n == Total(S, f)
           m == Lesser(cash, n)
           place == [r \in R |-> earlier[r[1]] + r[2]]
           P == AllRials(S, g)
           paidAt == [r \in P |-> earlier[r[1]] + r[2]]
<1>1. IsFiniteSet(R) /\ n \in Nat /\ Cardinality(R) = n
  <2>1. \A x \in S : f[x] \in Int
    OBVIOUS
  <2> QED
    BY <2>1, TotalType DEF Total
<1>2. m \in Nat /\ m <= n /\ m <= cash /\ (m = n \/ m = cash)
  BY <1>1 DEF Lesser
<1>3. \A r \in R : r[1] \in S /\ r[2] \in 1 .. f[r[1]] /\ r = <<r[1], r[2]>>
  BY DEF AllRials, Rials
<1>4. \A x \in S : g[x] = AtLeastZero(Lesser(f[x], cash - earlier[x]))
  <2> SUFFICES ASSUME NEW x \in S
               PROVE  g[x] = AtLeastZero(Lesser(f[x], cash - earlier[x]))
    OBVIOUS
  <2>1. f[x] \in Int /\ earlier[x] \in Nat /\ g[x] = Covered(f[x], earlier[x], cash)
    OBVIOUS
  <2> QED
    BY <2>1, CoveredAmount
<1>5. \A r \in P : r[1] \in S /\ r[2] \in 1 .. g[r[1]] /\ r = <<r[1], r[2]>>
  BY DEF AllRials, Rials
<1>6. ASSUME NEW x \in S, NEW k
      PROVE  k \in 1 .. g[x] <=> k \in 1 .. f[x] /\ earlier[x] + k <= cash
  BY <1>4 DEF AtLeastZero, Lesser
<1>7. \A x \in S : /\ \A k \in 1 .. g[x] : <<x, k>> \in P
                  /\ \A k \in 1 .. f[x] : <<x, k>> \in R
  BY DEF AllRials, Rials
<1>8. place \in Surjection(R, 1 .. n)
  <2>1. place \in [R -> 1 .. n]
    <3> SUFFICES ASSUME NEW r \in R
                 PROVE  earlier[r[1]] + r[2] \in 1 .. n
      OBVIOUS
    <3>1. r[1] \in S /\ r[2] \in 1 .. f[r[1]]
      BY <1>3
    <3> HIDE DEF n, R
    <3> QED
      BY <1>1, <3>1 DEF n
  <2>2. ASSUME NEW r \in R, NEW s \in R, place[r] = place[s]
        PROVE  r = s
    <3>1. /\ r[1] \in S /\ r[2] \in 1 .. f[r[1]] /\ r = <<r[1], r[2]>>
          /\ s[1] \in S /\ s[2] \in 1 .. f[s[1]] /\ s = <<s[1], s[2]>>
      BY <1>3
    <3>2. earlier[r[1]] + r[2] = earlier[s[1]] + s[2]
      BY <2>2
    <3>3. /\ f[r[1]] \in Nat /\ earlier[r[1]] \in Nat
          /\ f[s[1]] \in Nat /\ earlier[s[1]] \in Nat
      BY <3>1
    <3>4. r[1] = s[1]
      <4>1. CASE earlier[r[1]] + f[r[1]] <= earlier[s[1]]
        BY <3>1, <3>2, <3>3, <4>1
      <4>2. CASE earlier[s[1]] + f[s[1]] <= earlier[r[1]]
        BY <3>1, <3>2, <3>3, <4>2
      <4> QED
        BY <3>1, <4>1, <4>2
    <3>5. r[2] = s[2]
      BY <3>1, <3>2, <3>3, <3>4
    <3> QED
      BY <3>1, <3>4, <3>5
  <2>3. place \in Injection(R, 1 .. n)
    BY <2>1, <2>2, Fun_IsInj
  <2>4. IsFiniteSet(1 .. n) /\ Cardinality(1 .. n) = n
    BY <1>1, FS_Interval, SMT
  <2> HIDE DEF place, R, n
  <2> QED
    BY <1>1, <2>3, <2>4, FS_Injection
<1>9. paidAt \in Bijection(P, 1 .. m)
  <2>1. ASSUME NEW r \in P
        PROVE  r \in R /\ earlier[r[1]] + r[2] \in 1 .. m /\ paidAt[r] = place[r]
    <3>1. r[1] \in S /\ r[2] \in 1 .. g[r[1]] /\ r = <<r[1], r[2]>>
      BY <1>5
    <3>2. r[2] \in 1 .. f[r[1]] /\ earlier[r[1]] + r[2] <= cash
      BY <1>6, <3>1
    <3>3. r \in R
      BY <1>7, <3>1, <3>2
    <3>4. earlier[r[1]] \in Nat /\ earlier[r[1]] + f[r[1]] <= n /\ f[r[1]] \in Nat
      BY <3>1
    <3> HIDE DEF n, m, R
    <3>5. earlier[r[1]] + r[2] \in 1 .. m
      BY <1>1, <1>2, <3>2, <3>4
    <3> QED
      BY <3>3, <3>5
  <2>2. paidAt \in [P -> 1 .. m]
    BY <2>1
  <2>3. ASSUME NEW r \in P, NEW s \in P, paidAt[r] = paidAt[s]
        PROVE  r = s
    <3>1. r \in R /\ s \in R /\ place[r] = place[s]
      BY <2>1, <2>3
    <3>2. place \in Injection(R, 1 .. n)
      <4>1. IsFiniteSet(1 .. n) /\ Cardinality(1 .. n) = n
        BY <1>1, FS_Interval, SMT
      <4> HIDE DEF place, R, n
      <4> QED
        BY <1>1, <1>8, <4>1, FS_SurjSameCardinalityImpliesInj
    <3> HIDE DEF place, R, n
    <3> QED
      BY <3>1, <3>2 DEF Injection, IsInjective
  <2>4. ASSUME NEW i \in 1 .. m
        PROVE  \E r \in P : paidAt[r] = i
    <3>1. i \in 1 .. n /\ i <= cash
      <4> HIDE DEF m, n
      <4> QED
        BY <1>1, <1>2
    <3>2. PICK r \in R : place[r] = i
      <4> HIDE DEF place, R, n
      <4> QED
        BY <1>8, <3>1 DEF Surjection
    <3>3. r[1] \in S /\ r[2] \in 1 .. f[r[1]] /\ r = <<r[1], r[2]>>
      BY <1>3
    <3>4. earlier[r[1]] + r[2] = i
      BY <3>2
    <3>5. r[2] \in 1 .. g[r[1]]
      BY <1>6, <3>1, <3>3, <3>4
    <3>6. r \in P
      BY <1>7, <3>3, <3>5
    <3>7. paidAt[r] = i
      BY <3>4, <3>6
    <3> QED
      BY <3>6, <3>7
  <2> HIDE DEF paidAt, P, m
  <2> QED
    BY <2>2, <2>3, <2>4, Fun_IsBij
<1>10. IsFiniteSet(P)
  <2>1. \A x \in S : g[x] \in Int
    BY <1>4 DEF AtLeastZero, Lesser
  <2> QED
    BY <2>1, TotalType
<1>11. Cardinality(1 .. m) = m
  <2> HIDE DEF m
  <2> QED
    BY <1>2, FS_Interval, SMT
<1>12. Cardinality(P) = Cardinality(1 .. m)
  <2> HIDE DEF paidAt, P, m
  <2>1. ExistsBijection(P, 1 .. m)
    BY <1>9 DEF ExistsBijection
  <2> QED
    BY <1>10, <2>1, FS_Bijection
<1> QED
  BY <1>11, <1>12 DEF Total

-----------------------------------------------------------------------------
(* Shares of a total.                                                      *)

\* A nonempty set of naturals has a least one.
LEMMA LeastNumber ==
  ASSUME NEW T \in SUBSET Nat, T # {}
  PROVE  \E m \in T : \A k \in T : m <= k
<1>1. PICK m \in T : \A k \in T : <<k, m>> \notin OpToRel(<, Nat)
  BY WFMin, NatLessThanWellFounded, Zenon
<1>2. \A k \in T : ~(k < m)
  BY <1>1, Zenon DEF OpToRel
<1> QED
  BY <1>2

\* What holds of the empty set, and of a set with one element more, holds of a finite set.
LEMMA SetsGrow ==
  ASSUME NEW S, IsFiniteSet(S), NEW F \in SUBSET SUBSET S, {} \in F,
         \A T \in F : \A x \in S \ T : T \cup {x} \in F
  PROVE  S \in F
<1> DEFINE missing == {Cardinality(S \ T) : T \in F}
<1>1. \A T \in F : IsFiniteSet(S \ T) /\ Cardinality(S \ T) \in Nat
  BY FS_Subset, FS_CardinalityType
<1>2. missing \in SUBSET Nat /\ missing # {}
  BY <1>1
<1>3. PICK m \in missing : \A k \in missing : m <= k
  BY <1>2, LeastNumber
<1>4. PICK T \in F : Cardinality(S \ T) = m
  BY <1>3
<1>5. ASSUME NEW x \in S \ T PROVE FALSE
  <2>1. T \cup {x} \in F
    BY <1>5
  <2>2. S \ (T \cup {x}) = (S \ T) \ {x}
    OBVIOUS
  <2>3. Cardinality((S \ T) \ {x}) = m - 1
    BY <1>1, <1>4, <1>5, FS_RemoveElement
  <2>4. m - 1 \in missing
    BY <2>1, <2>2, <2>3
  <2>5. m \in Nat
    BY <1>2
  <2> HIDE DEF missing
  <2> QED
    BY <2>4, <2>5, <1>3
<1>6. S = T
  BY <1>5
<1> QED
  BY <1>6

\* Every amount times c makes the sum times c.
LEMMA TotalScaled ==
  ASSUME NEW S, IsFiniteSet(S), NEW c \in Nat, NEW f, NEW g,
         \A x \in S : f[x] \in Nat /\ g[x] = c * f[x]
  PROVE  Total(S, g) = c * Total(S, f)
<1> DEFINE F == {T \in SUBSET S : Total(T, g) = c * Total(T, f)}
<1>1. {} \in F
  BY TotalEmpty
<1>2. \A x \in S : g[x] \in Nat
  OBVIOUS
<1>3. ASSUME NEW T \in F, NEW x \in S \ T PROVE T \cup {x} \in F
  <2>1. IsFiniteSet(T)
    BY FS_Subset
  <2>2. Total(T, f) \in Nat
    BY <2>1, TotalType
  <2>3. /\ Total(T \cup {x}, f) = Total(T, f) + f[x]
        /\ Total(T \cup {x}, g) = Total(T, g) + g[x]
    BY <2>1, <1>2, TotalAdd DEF AtLeastZero
  <2>4. c * (Total(T, f) + f[x]) = c * Total(T, f) + c * f[x]
    BY <2>2
  <2> QED
    BY <2>3, <2>4
<1> HIDE DEF F
<1>4. S \in F
  BY <1>1, <1>3, SetsGrow DEF F
<1> QED
  BY <1>4 DEF F

\* Equal amounts.
LEMMA TotalEqual ==
  ASSUME NEW S, IsFiniteSet(S), NEW c \in Nat, NEW f, \A x \in S : f[x] = c
  PROVE  Total(S, f) = Cardinality(S) * c
<1> DEFINE F == {T \in SUBSET S : Total(T, f) = Cardinality(T) * c}
<1>1. {} \in F
  BY TotalEmpty, FS_EmptySet
<1>3. ASSUME NEW T \in F, NEW x \in S \ T PROVE T \cup {x} \in F
  <2>1. IsFiniteSet(T) /\ Cardinality(T) \in Nat
    BY FS_Subset, FS_CardinalityType
  <2>2. f[x] = c /\ f[x] \in Int /\ x \notin T /\ \A y \in T : f[y] \in Int
    OBVIOUS
  <2>3. /\ Total(T \cup {x}, f) = Total(T, f) + AtLeastZero(c)
        /\ Cardinality(T \cup {x}) = Cardinality(T) + 1
    BY <2>1, <2>2, TotalAdd, FS_AddElement
  <2>4. (Cardinality(T) + 1) * c = Cardinality(T) * c + c /\ AtLeastZero(c) = c
    BY <2>1 DEF AtLeastZero
  <2> QED
    BY <2>3, <2>4
<1> HIDE DEF F
<1>4. S \in F
  BY <1>1, <1>3, SetsGrow DEF F
<1> QED
  BY <1>4 DEF F

\* Where each amount is less than c, the sum is less than as many times c.
LEMMA TotalBelow ==
  ASSUME NEW S, IsFiniteSet(S), S # {}, NEW c \in Nat, NEW f,
         \A x \in S : f[x] \in Nat /\ f[x] < c
  PROVE  Total(S, f) < Cardinality(S) * c
<1> DEFINE g == [x \in S |-> c - f[x]]
           h == [x \in S |-> c]
<1>1. \A x \in S : f[x] \in Nat /\ g[x] \in Nat /\ h[x] = f[x] + g[x] /\ g[x] > 0 /\ h[x] = c
  OBVIOUS
<1> HIDE DEF g, h
<1>2. Total(S, h) = Total(S, f) + Total(S, g)
  BY <1>1, TotalSum
<1>3. Total(S, g) > 0
  BY <1>1, TotalPositive
<1>4. Total(S, f) \in Nat /\ Total(S, g) \in Nat
  BY <1>1, TotalType
<1>5. Total(S, h) = Cardinality(S) * c
  BY <1>1, TotalEqual
<1> QED
  BY <1>2, <1>3, <1>4, <1>5

\* In a strict total order of a finite set, n elements have fewer than n before them.
LEMMA FirstOnes ==
  ASSUME NEW S, IsFiniteSet(S), NEW before,
         \A x \in S : before[x] \subseteq S /\ x \notin before[x],
         \A x, y \in S : x # y => x \in before[y] \/ y \in before[x],
         \A x, y \in S : x \in before[y] => before[x] \subseteq before[y],
         NEW n \in Nat, n <= Cardinality(S)
  PROVE  LET first == {x \in S : Cardinality(before[x]) < n}
         IN  IsFiniteSet(first) /\ Cardinality(first) = n
<1> DEFINE size == Cardinality(S)
           rank == [x \in S |-> Cardinality(before[x])]
           first == {x \in S : rank[x] < n}
<1>1. size \in Nat
  BY FS_CardinalityType
<1>2. \A x \in S : IsFiniteSet(before[x]) /\ Cardinality(before[x]) \in Nat
  BY FS_Subset, FS_CardinalityType
<1>3. ASSUME NEW x \in S PROVE rank[x] \in 0 .. size - 1
  <2>1. Cardinality(S \ {x}) = size - 1 /\ IsFiniteSet(S \ {x})
    BY FS_RemoveElement
  <2>2. before[x] \in SUBSET (S \ {x})
    OBVIOUS
  <2>3. Cardinality(before[x]) <= size - 1
    BY <2>1, <2>2, FS_Subset
  <2> QED
    BY <1>1, <1>2, <2>3
<1>4. ASSUME NEW x \in S, NEW y \in S, x \in before[y] PROVE rank[x] < rank[y]
  <2>1. before[x] \in SUBSET before[y] /\ before[x] # before[y]
    BY <1>4
  <2>2. /\ Cardinality(before[x]) <= Cardinality(before[y])
        /\ Cardinality(before[x]) # Cardinality(before[y])
    BY <2>1, <1>2, FS_Subset
  <2> QED
    BY <1>2, <2>2
<1>5. \A x, y \in S : rank[x] = rank[y] => x = y
  BY <1>2, <1>4
<1> HIDE DEF rank, size
<1>6. rank \in Injection(S, 0 .. size - 1)
  BY <1>3, <1>5 DEF rank, Injection, IsInjective
<1>7. IsFiniteSet(0 .. size - 1) /\ Cardinality(0 .. size - 1) = size
  BY <1>1, FS_Interval
<1>8. rank \in Surjection(S, 0 .. size - 1)
  BY <1>6, <1>7, FS_Injection DEF size
<1>9. first \in SUBSET S /\ IsFiniteSet(first)
  BY FS_Subset
<1> DEFINE place == [x \in first |-> rank[x]]
<1>10. place \in Bijection(first, 0 .. n - 1)
  <2>1. \A x \in first : rank[x] \in 0 .. n - 1
    BY <1>3, <1>1
  <2>2. \A k \in 0 .. n - 1 : \E x \in first : rank[x] = k
    <3>1. \A k \in 0 .. n - 1 : k \in 0 .. size - 1 /\ k < n
      BY <1>1 DEF size
    <3>2. \A k \in 0 .. size - 1 : \E x \in S : rank[x] = k
      BY <1>8 DEF Surjection
    <3> QED
      BY <3>1, <3>2
  <2> QED
    BY <2>1, <2>2, <1>5 DEF Bijection, Injection, Surjection, IsInjective
<1>11. Cardinality(0 .. n - 1) = n
  BY FS_Interval
<1>12. Cardinality(first) = n
  BY <1>9, <1>10, <1>11, FS_Bijection DEF ExistsBijection
<1> QED
  BY <1>9, <1>12 DEF rank

\* A number is its quotient times the divisor and the remainder.
LEMMA Dividing ==
  ASSUME NEW x \in Nat, NEW n \in Nat \ {0}
  PROVE  /\ x \div n \in Nat /\ x % n \in Nat /\ x % n < n
         /\ x = n * (x \div n) + (x % n)
<1>1. x \div n \in Nat
  OBVIOUS
<1>2. x % n \in Nat /\ x % n < n
  OBVIOUS
<1>3. x = n * (x \div n) + (x % n)
  OBVIOUS
<1> QED
  BY <1>1, <1>2, <1>3, Zenon

\* A total is divided by weight: q and r are quotient and remainder of every exact share, of
\* which whole is the divisor, and the first left ones in the order ahead take one more.
SharedOut(S, total, weight, whole, q, r, ahead, left, share) ==
    /\ IsFiniteSet(S) /\ total \in Nat \ {0} /\ whole \in Nat \ {0}
    /\ Total(S, weight) = whole
    /\ \A x \in S : /\ weight[x] \in Nat /\ q[x] \in Nat /\ r[x] \in Nat /\ r[x] < whole
                    /\ total * weight[x] = whole * q[x] + r[x]
    /\ \A x \in S : ahead[x] \subseteq S /\ x \notin ahead[x]
    /\ \A x, y \in S : x # y => x \in ahead[y] \/ y \in ahead[x]
    /\ \A x, y \in S : x \in ahead[y] => ahead[x] \subseteq ahead[y]
    /\ \A x, y \in S : r[x] > r[y] => x \in ahead[y]
    /\ left = total - Total(S, q)
    /\ \A x \in S : share[x] = q[x] + IF Cardinality(ahead[x]) < left THEN 1 ELSE 0

\* The shares add up, are off by less than one, and more weight is never a smaller share.
Fits(S, total, weight, whole, share) ==
    /\ Total(S, share) = total
    /\ \A x \in S : LET off == share[x] * whole - total * weight[x]
                    IN  off < whole /\ -off < whole
    /\ \A x, y \in S : weight[x] < weight[y] => share[x] <= share[y]

LEMMA SharesFit ==
  ASSUME NEW S, NEW total, NEW weight, NEW whole, NEW q, NEW r, NEW ahead, NEW left, NEW share,
         SharedOut(S, total, weight, whole, q, r, ahead, left, share)
  PROVE  Fits(S, total, weight, whole, share)
<1> USE DEF SharedOut
<1> DEFINE exact == [x \in S |-> total * weight[x]]
           floor == [x \in S |-> whole * q[x]]
           some == {x \in S : r[x] > 0}
           first == {x \in S : Cardinality(ahead[x]) < left}
           one == [x \in S |-> IF x \in first THEN 1 ELSE 0]
<1>1. /\ Total(S, q) \in Nat /\ Total(S, r) \in Nat
      /\ \A x \in S : IsFiniteSet(ahead[x]) /\ Cardinality(ahead[x]) \in Nat
  BY TotalType, FS_Subset, FS_CardinalityType
<1>2. whole * left = Total(S, r) /\ left \in Int
  <2>1. \A x \in S : weight[x] \in Nat /\ exact[x] = total * weight[x]
    OBVIOUS
  <2>2. \A x \in S : q[x] \in Nat /\ floor[x] = whole * q[x]
    OBVIOUS
  <2>3. \A x \in S : floor[x] \in Nat /\ r[x] \in Nat /\ exact[x] = floor[x] + r[x]
    OBVIOUS
  <2>4. total \in Nat /\ whole \in Nat
    OBVIOUS
  <2> HIDE DEF exact, floor
  <2>5. Total(S, exact) = total * whole
    BY ONLY IsFiniteSet(S), <2>1, <2>4, TotalScaled, Total(S, weight) = whole
  <2>6. Total(S, floor) = whole * Total(S, q)
    BY ONLY IsFiniteSet(S), <2>2, <2>4, TotalScaled
  <2>7. Total(S, exact) = Total(S, floor) + Total(S, r)
    BY ONLY IsFiniteSet(S), <2>3, TotalSum
  <2>8. whole * left = whole * total - whole * Total(S, q)
    BY <1>1
  <2> QED
    BY <2>5, <2>6, <2>7, <2>8, <1>1
<1>3. left \in Nat
  <2>1. ASSUME left < 0 PROVE FALSE
    <3>1. whole * left < 0
      BY <1>2, <2>1
    <3> QED
      BY <3>1, <1>1, <1>2
  <2> QED
    BY <2>1, <1>2
<1>4. some \in SUBSET S /\ IsFiniteSet(some) /\ Cardinality(some) \in Nat
  BY FS_Subset, FS_CardinalityType
<1>5. left = 0 \/ left < Cardinality(some)
  <2>1. Total(S, r) = Total(some, r)
    <3>1. \A x \in S \ some : r[x] \in Int /\ r[x] <= 0
      OBVIOUS
    <3> QED
      BY <3>1, <1>4, TotalWhere
  <2>2. CASE some = {}
    <3>1. whole * left = 0
      BY <1>2, <2>1, <2>2, TotalEmpty
    <3> QED
      BY <3>1, <1>3
  <2>3. CASE some # {}
    <3>1. Total(some, r) < Cardinality(some) * whole
      BY <1>4, <2>3, TotalBelow
    <3>2. whole * left < Cardinality(some) * whole
      BY <1>2, <2>1, <3>1
    <3>3. ASSUME Cardinality(some) <= left PROVE FALSE
      <4>1. PICK d \in Nat : left = Cardinality(some) + d
        <5>1. left - Cardinality(some) \in Nat /\ left = Cardinality(some) + (left - Cardinality(some))
          BY <3>3, <1>3, <1>4
        <5> QED
          BY <5>1
      <4>2. whole * (Cardinality(some) + d) = Cardinality(some) * whole + whole * d /\ whole * d >= 0
        BY <1>4
      <4> QED
        BY <4>1, <4>2, <3>2, <1>4
    <3> QED
      BY <3>3, <1>3, <1>4
  <2> QED
    BY <2>2, <2>3
<1>6. left <= Cardinality(S)
  BY <1>3, <1>4, <1>5, FS_Subset, FS_CardinalityType
<1>7. IsFiniteSet(first) /\ Cardinality(first) = left
  <2>1. /\ \A x \in S : ahead[x] \subseteq S /\ x \notin ahead[x]
        /\ \A x, y \in S : x # y => x \in ahead[y] \/ y \in ahead[x]
        /\ \A x, y \in S : x \in ahead[y] => ahead[x] \subseteq ahead[y]
    OBVIOUS
  <2> QED
    BY ONLY IsFiniteSet(S), <2>1, <1>3, <1>6, FirstOnes
<1>8. \A x \in S : /\ one[x] \in {0, 1} /\ share[x] = q[x] + one[x] /\ share[x] \in Nat
                   /\ one[x] = 1 <=> Cardinality(ahead[x]) < left
                   /\ one[x] = 1 <=> x \in first
  OBVIOUS
<1>9. ASSUME NEW x \in S, one[x] = 1 PROVE r[x] > 0
  <2>1. Cardinality(ahead[x]) < left /\ left < Cardinality(some)
    BY <1>1, <1>3, <1>5, <1>8, <1>9
  <2>2. ASSUME r[x] = 0 PROVE FALSE
    <3>1. some \in SUBSET ahead[x]
      BY <2>2
    <3>2. Cardinality(some) <= Cardinality(ahead[x])
      BY <3>1, <1>1, FS_Subset
    <3> QED
      BY <2>1, <3>2, <1>1, <1>3, <1>4
  <2> QED
    BY <2>2
<1> HIDE DEF one, some
<1>10. Total(S, share) = total
  <2>1. Total(S, share) = Total(S, q) + Total(S, one)
    <3>1. \A x \in S : q[x] \in Nat /\ one[x] \in Nat /\ share[x] = q[x] + one[x]
      BY <1>8
    <3> QED
      BY ONLY IsFiniteSet(S), <3>1, TotalSum
  <2>2. \A x \in S \ first : one[x] \in Int /\ one[x] <= 0
    BY <1>8
  <2>3. \A x \in first : one[x] = 1
    BY <1>8
  <2>4. first \in SUBSET S
    OBVIOUS
  <2> HIDE DEF first
  <2>5. Total(S, one) = Total(first, one)
    BY <2>2, <2>4, TotalWhere
  <2>6. Total(first, one) = Cardinality(first) * 1
    BY <2>3, <1>7, TotalEqual
  <2> QED
    BY <2>1, <2>5, <2>6, <1>1, <1>3, <1>7
<1>11. ASSUME NEW x \in S
       PROVE  LET off == share[x] * whole - total * weight[x] IN off < whole /\ -off < whole
  <2>1. share[x] * whole = whole * q[x] + whole * one[x]
    BY <1>8
  <2>2. share[x] * whole - total * weight[x] = whole * one[x] - r[x]
    BY <2>1, <1>8
  <2>3. CASE one[x] = 0
    BY <2>2, <2>3
  <2>4. CASE one[x] = 1
    BY <2>2, <2>4, <1>9
  <2> QED
    BY <2>3, <2>4, <1>8
<1>12. ASSUME NEW x \in S, NEW y \in S, weight[x] < weight[y] PROVE share[x] <= share[y]
  <2>1. total * weight[x] < total * weight[y]
    BY <1>12
  <2>2. whole * q[x] + r[x] < whole * q[y] + r[y]
    BY <2>1
  <2>3. q[x] <= q[y]
    <3>1. ASSUME q[y] + 1 <= q[x] PROVE FALSE
      <4>1. PICK d \in Nat : q[x] = q[y] + 1 + d
        <5>1. q[x] - q[y] - 1 \in Nat /\ q[x] = q[y] + 1 + (q[x] - q[y] - 1)
          BY <3>1
        <5> QED
          BY <5>1
      <4>2. whole * (q[y] + 1 + d) = whole * q[y] + whole + whole * d /\ whole * d >= 0
        OBVIOUS
      <4>3. whole * q[x] >= whole * q[y] + whole
        BY <4>1, <4>2
      <4> QED
        BY <4>3, <2>2
    <3> QED
      BY <3>1
  <2>4. CASE q[x] < q[y]
    BY <2>4, <1>8
  <2>5. CASE q[x] = q[y]
    <3>1. r[y] > r[x]
      BY <2>2, <2>5
    <3>2. ahead[y] \in SUBSET ahead[x]
      BY <3>1
    <3>3. Cardinality(ahead[y]) <= Cardinality(ahead[x])
      BY <3>2, <1>1, FS_Subset
    <3>4. one[x] = 1 => one[y] = 1
      BY <3>3, <1>1, <1>3, <1>8
    <3> QED
      BY <3>4, <2>5, <1>8
  <2> QED
    BY <2>3, <2>4, <2>5
<1> QED
  BY <1>10, <1>11, <1>12 DEF Fits

=============================================================================

------------------------------- MODULE Money -------------------------------
(***************************************************************************)
(* Sums of amounts, as finance.repository.ts computes them with            *)
(* reduce((sum, row) => sum + row.amount, 0) and with Prisma's _sum.       *)
(*                                                                         *)
(* Amounts are whole rials.  A sum is defined as the number of rials lying *)
(* on the rows: row x contributes the rials <<x, 1>> .. <<x, f[x]>>.  No   *)
(* fold is needed, so what a sum does when a row is added or changed       *)
(* follows from facts about cardinalities (see MoneyProofs).               *)
(***************************************************************************)
EXTENDS Integers, FiniteSets

\* The rials lying on row x, and on all the rows of S.
Rials(x, f) == {x} \X (1 .. f[x])

AllRials(S, f) == UNION {Rials(x, f) : x \in S}

\* The sum of f[x] over the rows x of S (rows with f[x] <= 0 count nothing).
Total(S, f) == Cardinality(AllRials(S, f))

Lesser(a, b) == IF a <= b THEN a ELSE b

\* Math.max(0, n).
AtLeastZero(n) == IF n > 0 THEN n ELSE 0

\* cash pays older debts of earlier rials first: of a debt of owed rials, the
\* k-th rial is covered when earlier + k rials of cash are there.
Covered(owed, earlier, cash) ==
    Cardinality({k \in 1 .. owed : earlier + k <= cash})

\* What is left of cash when debts of total rials are covered.
LeftOver(total, cash) ==
    Cardinality({k \in 1 .. cash : total < k})
=============================================================================

-------------------------- MODULE ReceivableProofs --------------------------
(***************************************************************************)
(* What payments do to the receivables, to reservations, to the funds'     *)
(* cash and to the units' debts, for any number of payments, obligations   *)
(* and units.  The invariant of the receivables is inductive only together *)
(* with its types: a share is bounded by what an item owes, and an item    *)
(* owes a natural amount because it was never paid beyond its amount.  The *)
(* reservations need the mode of the payment that holds them, and the      *)
(* ledger the status of the payment an entry refers to.                    *)
(***************************************************************************)
EXTENDS UnitFinance, MoneyProofs, WellFoundedInduction

-----------------------------------------------------------------------------
(* Names of obligations, and finiteness.                                   *)

LEMMA ObligationNames ==
  /\ \A o \in Items : /\ o[1] = "CHARGE_ITEM" /\ o[2] \in Batches /\ o[3] \in Units
                      /\ o = ItemOf(o[2], o[3])
  /\ \A o \in Adjustments : o[1] = "ADJUSTMENT" /\ o[2] \in Slots /\ o[3] \in Units
  /\ \A b \in Batches, u \in Units : ItemOf(b, u) \in Items
  /\ Items \cap Adjustments = {}
  /\ Obligations = Items \cup Adjustments
BY DEF Items, Adjustments, Obligations, ItemOf

LEMMA ObligationsFinite == IsFiniteSet(Obligations)
<1>1. IsFiniteSet({"CHARGE_ITEM"}) /\ IsFiniteSet({"ADJUSTMENT"})
  BY FS_Singleton
<1>2. IsFiniteSet(Batches \X Units) /\ IsFiniteSet(Slots \X Units)
  BY FS_Product, NumberedAssumption, FiniteAssumption
<1> DEFINE I == {"CHARGE_ITEM"} \X (Batches \X Units)
           A == {"ADJUSTMENT"} \X (Slots \X Units)
           fi == [x \in I |-> <<x[1], x[2][1], x[2][2]>>]
           fa == [x \in A |-> <<x[1], x[2][1], x[2][2]>>]
<1>3. IsFiniteSet(I) /\ IsFiniteSet(A)
  BY <1>1, <1>2, FS_Product
<1>4. fi \in Surjection(I, Items)
  <2>1. \A x \in I : fi[x] \in Items
    BY DEF Items
  <2>2. ASSUME NEW o \in Items PROVE \E x \in I : fi[x] = o
    <3>1. <<o[1], <<o[2], o[3]>>>> \in I /\ fi[<<o[1], <<o[2], o[3]>>>>] = o
      BY DEF Items
    <3> QED
      BY <3>1
  <2> QED
    BY <2>1, <2>2 DEF Surjection
<1>5. fa \in Surjection(A, Adjustments)
  <2>1. \A x \in A : fa[x] \in Adjustments
    BY DEF Adjustments
  <2>2. ASSUME NEW o \in Adjustments PROVE \E x \in A : fa[x] = o
    <3>1. <<o[1], <<o[2], o[3]>>>> \in A /\ fa[<<o[1], <<o[2], o[3]>>>>] = o
      BY DEF Adjustments
    <3> QED
      BY <3>1
  <2> QED
    BY <2>1, <2>2 DEF Surjection
<1>6. IsFiniteSet(Items) /\ IsFiniteSet(Adjustments)
  BY <1>3, <1>4, <1>5, FS_Surjection
<1> QED
  BY <1>6, FS_Union DEF Obligations

LEMMA SubsetFinite ==
  ASSUME NEW S, S \subseteq Obligations
  PROVE  IsFiniteSet(S)
BY ObligationsFinite, FS_Subset

\* Each debt receives a natural amount, within what it owes; other
\* obligations receive nothing.
LEMMA SharesBound ==
  ASSUME TypeOK, NEW S, NEW cash
  PROVE  /\ Shares(S, cash) \in [Obligations -> Nat]
         /\ \A o \in Obligations :
               /\ o \notin S => Shares(S, cash)[o] = 0
               /\ Shares(S, cash)[o] <= AtLeastZero(Outstanding[o])
<1>1. \A o \in Obligations : Outstanding[o] \in Int /\ Outstanding[o] = amount[o] - paid[o]
  BY DEF TypeOK, Outstanding
<1>2. ASSUME NEW o \in Obligations, NEW earlier
      PROVE  /\ Covered(Outstanding[o], earlier, cash) \in Nat
             /\ Covered(Outstanding[o], earlier, cash) <= AtLeastZero(Outstanding[o])
  BY <1>1, CoveredType
<1>3. \A o \in Obligations : AtLeastZero(Outstanding[o]) \in Nat
  BY <1>1 DEF AtLeastZero
<1> QED
  BY <1>2, <1>3 DEF Shares

\* paidAmount and status stay consistent in every write.
LEMMA PaidWritten ==
  ASSUME TypeOK, ItemsSettleOnlyWhenIssued,
         NEW new \in [Obligations -> Nat], WritePaid(new),
         \A o \in Items : new[o] <= amount[o]
  PROVE  /\ paid' \in [Obligations -> Nat]
         /\ itemStatus' \in [Items -> ItemStatuses]
         /\ \A o \in Items :
               /\ paid'[o] = new[o]
               /\ paid'[o] <= amount[o]
               /\ itemStatus'[o] = ComputeItemStatus(new[o], amount[o])
BY ObligationNames
   DEF TypeOK, ItemsSettleOnlyWhenIssued, WritePaid, ComputeItemStatus, ItemStatuses

-----------------------------------------------------------------------------
(* Types and settlement.                                                   *)

Settled == TypeOK /\ ItemsSettleOnlyWhenIssued

LEMMA SettledInit == Init => Settled
<1> SUFFICES ASSUME Init
             PROVE  Settled
  OBVIOUS
<1>1. AnyUnit \in Units /\ AnyFund \in Funds
  BY FiniteAssumption DEF AnyUnit, AnyFund
<1>2. TypeOK
  BY <1>1 DEF Init, TypeOK, NoBatch, NoPayment, NoAdjustment, BatchRows, PaymentRows,
              AdjustmentRows, ItemStatuses, ReservationStates
<1>3. ItemsSettleOnlyWhenIssued
  BY ObligationNames DEF Init, ItemsSettleOnlyWhenIssued, ComputeItemStatus
<1> QED
  BY <1>2, <1>3 DEF Settled

LEMMA SettledFund ==
  ASSUME Settled, NEW f \in ClosableFunds, SetFundActive(f)
  PROVE  Settled'
<1>1. f \in Funds
  BY FiniteAssumption
<1>2. TypeOK'
  BY <1>1 DEF Settled, TypeOK, SetFundActive
<1>3. ItemsSettleOnlyWhenIssued'
  BY DEF Settled, ItemsSettleOnlyWhenIssued, SetFundActive, Collectible
<1> QED
  BY <1>2, <1>3 DEF Settled

LEMMA SettledCreateBatch ==
  ASSUME Settled, NEW b \in Batches, NEW r \in ChargeRequests, CreateChargeBatch(b, r)
  PROVE  Settled'
<1>1. /\ r.fund \in Funds /\ r.due \in Nat /\ r.period \in Nat /\ r.lateFee \in Nat
      /\ r.items \in [Units -> Nat]
  BY RequestAssumption
<1>2. batch' \in [Batches -> BatchRows]
  BY <1>1 DEF Settled, TypeOK, CreateChargeBatch, BatchRows
<1>3. amount' \in [Obligations -> Int]
  BY <1>1, ObligationNames DEF Settled, TypeOK, CreateChargeBatch
<1>4. TypeOK'
  BY <1>2, <1>3 DEF Settled, TypeOK, CreateChargeBatch
<1>5. ASSUME NEW o \in Items, o[2] = b
      PROVE  paid[o] = 0 /\ amount'[o] \in Nat
  <2>1. paid[o] = 0
    <3>1. paid[o] \in Nat
      BY ObligationNames DEF Settled, TypeOK
    <3>2. ~Collectible(o[2])
      BY <1>5 DEF CreateChargeBatch, Collectible
    <3> QED
      BY <3>1, <3>2 DEF Settled, ItemsSettleOnlyWhenIssued
  <2>2. amount'[o] = r.items[o[3]]
    BY <1>5, ObligationNames DEF CreateChargeBatch
  <2> QED
    BY <1>1, <2>1, <2>2, ObligationNames
<1>6. ASSUME NEW o \in Items, o[2] # b
      PROVE  amount'[o] = amount[o] /\ batch'[o[2]] = batch[o[2]]
  BY <1>6, ObligationNames DEF Settled, TypeOK, CreateChargeBatch
<1>7. ItemsSettleOnlyWhenIssued'
  BY <1>5, <1>6, ObligationNames
     DEF Settled, TypeOK, ItemsSettleOnlyWhenIssued, CreateChargeBatch, Collectible,
         ComputeItemStatus
<1> QED
  BY <1>4, <1>7 DEF Settled

LEMMA SettledIssue ==
  ASSUME Settled, NEW b \in Batches, IssueChargeBatch(b)
  PROVE  Settled'
<1> DEFINE applied == [u \in Units |-> CreditApplied(b, u)]
           new == [o \in Obligations |->
                     IF o[1] = "CHARGE_ITEM" /\ o[2] = b THEN paid[o] + applied[o[3]]
                     ELSE paid[o]]
<1>1. ASSUME NEW u \in Units
      PROVE  /\ applied[u] \in Nat
             /\ applied[u] <= credit[u]
             /\ applied[u] <= amount[ItemOf(b, u)] - paid[ItemOf(b, u)]
  <2>1. ItemOf(b, u) \in Items /\ ItemOf(b, u) \in Obligations
    BY ObligationNames
  <2>2. Outstanding[ItemOf(b, u)] = amount[ItemOf(b, u)] - paid[ItemOf(b, u)]
    BY <2>1 DEF Outstanding
  <2>3. credit[u] \in Nat /\ amount[ItemOf(b, u)] \in Int /\ paid[ItemOf(b, u)] \in Nat
    BY <2>1 DEF Settled, TypeOK
  <2>4. paid[ItemOf(b, u)] <= amount[ItemOf(b, u)]
    BY <2>1 DEF Settled, ItemsSettleOnlyWhenIssued
  <2> QED
    BY <2>2, <2>3, <2>4 DEF CreditApplied, Lesser
<1>2. new \in [Obligations -> Nat]
  BY <1>1, ObligationNames DEF Settled, TypeOK
<1>3. \A o \in Items : new[o] <= amount[o]
  BY <1>1, ObligationNames DEF Settled, TypeOK, ItemsSettleOnlyWhenIssued
<1>4. WritePaid(new)
  BY DEF IssueChargeBatch
<1>5. /\ paid' \in [Obligations -> Nat]
      /\ itemStatus' \in [Items -> ItemStatuses]
      /\ \A o \in Items : /\ paid'[o] = new[o]
                          /\ paid'[o] <= amount[o]
                          /\ itemStatus'[o] = ComputeItemStatus(new[o], amount[o])
  BY <1>2, <1>3, <1>4, PaidWritten DEF Settled
<1>6. credit' \in [Units -> Nat]
  <2>1. credit' = [u \in Units |-> credit[u] - applied[u]]
    BY DEF IssueChargeBatch
  <2>2. \A u \in Units : credit[u] \in Nat
    BY DEF Settled, TypeOK
  <2> QED
    BY <1>1, <2>1, <2>2
<1>7. batch' \in [Batches -> BatchRows]
  BY DEF Settled, TypeOK, IssueChargeBatch, BatchRows
<1>8. TypeOK'
  BY <1>5, <1>6, <1>7 DEF Settled, TypeOK, IssueChargeBatch
<1>9. \A o \in Items : paid'[o] > 0 => Collectible(o[2])'
  <2> SUFFICES ASSUME NEW o \in Items, paid'[o] > 0
               PROVE  Collectible(o[2])'
    OBVIOUS
  <2>1. CASE o[2] = b
    BY <2>1 DEF Settled, TypeOK, IssueChargeBatch, Collectible
  <2>2. CASE o[2] # b
    <3>1. paid'[o] = paid[o]
      BY <1>5, <2>2, ObligationNames
    <3>2. batch'[o[2]] = batch[o[2]]
      BY <2>2, ObligationNames DEF Settled, TypeOK, IssueChargeBatch
    <3> QED
      BY <3>1, <3>2 DEF Settled, ItemsSettleOnlyWhenIssued, Collectible
  <2> QED
    BY <2>1, <2>2
<1>10. ItemsSettleOnlyWhenIssued'
  <2>1. amount' = amount
    BY DEF IssueChargeBatch
  <2> QED
    BY <1>5, <1>9, <2>1 DEF ItemsSettleOnlyWhenIssued, ComputeItemStatus
<1> QED
  BY <1>8, <1>10 DEF Settled

LEMMA SettledCancel ==
  ASSUME Settled, NEW b \in Batches, CancelChargeBatch(b)
  PROVE  Settled'
<1>1. TypeOK'
  BY DEF Settled, TypeOK, CancelChargeBatch, BatchRows
<1>2. \A o \in Items : paid[o] > 0 => o[2] # b
  BY ObligationNames DEF CancelChargeBatch
<1>3. \A o \in Items : o[2] # b => batch'[o[2]] = batch[o[2]]
  BY ObligationNames DEF Settled, TypeOK, CancelChargeBatch
<1>4. ItemsSettleOnlyWhenIssued'
  BY <1>2, <1>3 DEF Settled, ItemsSettleOnlyWhenIssued, CancelChargeBatch, Collectible
<1> QED
  BY <1>1, <1>4 DEF Settled

LEMMA SettledCreatePayment ==
  ASSUME Settled, NEW p \in Payments, NEW u \in Units, NEW f \in Funds,
         NEW a \in Amounts, NEW m, CreatePayment(p, u, f, a, m)
  PROVE  Settled'
<1>1. a \in Nat
  BY AmountAssumption
<1>2. payment' \in [Payments -> PaymentRows]
  BY <1>1 DEF Settled, TypeOK, CreatePayment, InsertPayment, PaymentRows
<1>3. TypeOK'
  BY <1>2 DEF Settled, TypeOK, CreatePayment
<1>4. ItemsSettleOnlyWhenIssued'
  BY DEF Settled, ItemsSettleOnlyWhenIssued, CreatePayment, Collectible
<1> QED
  BY <1>3, <1>4 DEF Settled

LEMMA SettledCreateExplicit ==
  ASSUME Settled, NEW p \in Payments, NEW u \in Units,
         NEW S \in SUBSET Obligations, CreateExplicitPayment(p, u, S)
  PROVE  Settled'
<1> DEFINE f == FundOf(CHOOSE o \in S : TRUE)
<1>1. \A o \in Obligations : Outstanding[o] \in Int
  BY DEF Settled, TypeOK, Outstanding
<1>2. Total(S, Outstanding) \in Nat
  BY <1>1, SubsetFinite, TotalType
<1>3. f \in Funds
  <2>1. (CHOOSE o \in S : TRUE) \in Items \cup Adjustments
    BY ObligationNames DEF CreateExplicitPayment, ReserveObligations
  <2>2. \A o \in Items : batch[o[2]].fund \in Funds
    BY ObligationNames DEF Settled, TypeOK, BatchRows
  <2>3. \A o \in Adjustments : adjustment[o].fund \in Funds
    BY DEF Settled, TypeOK, AdjustmentRows
  <2> QED
    BY <2>1, <2>2, <2>3, ObligationNames DEF FundOf
<1>4. payment' \in [Payments -> PaymentRows]
  BY <1>2, <1>3 DEF Settled, TypeOK, CreateExplicitPayment, ReserveObligations, InsertPayment,
            PaymentRows
<1>5. \A o \in S : Outstanding[o] \in Nat
  BY <1>1 DEF CreateExplicitPayment, ReserveObligations, Selectable
<1>6. selected' \in [Payments -> [Obligations -> Nat]]
  BY <1>5 DEF Settled, TypeOK, CreateExplicitPayment, ReserveObligations
<1>7. reservation' \in [Payments -> [Obligations -> ReservationStates]]
  BY DEF Settled, TypeOK, CreateExplicitPayment, ReserveObligations, ReservationStates
<1>8. TypeOK'
  BY <1>4, <1>6, <1>7 DEF Settled, TypeOK, CreateExplicitPayment, ReserveObligations
<1>9. ItemsSettleOnlyWhenIssued'
  BY DEF Settled, ItemsSettleOnlyWhenIssued, CreateExplicitPayment, ReserveObligations, Collectible
<1> QED
  BY <1>8, <1>9 DEF Settled

LEMMA ReservationsMoved ==
  ASSUME TypeOK, NEW p \in Payments, NEW state \in ReservationStates,
         MoveReservations(p, state)
  PROVE  reservation' \in [Payments -> [Obligations -> ReservationStates]]
BY DEF TypeOK, MoveReservations

LEMMA SettledReject ==
  ASSUME Settled, NEW p \in Payments, RejectPayment(p)
  PROVE  Settled'
<1>1. payment' \in [Payments -> PaymentRows]
  BY DEF Settled, TypeOK, RejectPayment, RejectAndRelease, PaymentRows
<1>2. reservation' \in [Payments -> [Obligations -> ReservationStates]]
  BY ReservationsMoved DEF Settled, TypeOK, RejectPayment, RejectAndRelease, ReservationStates
<1>3. TypeOK'
  BY <1>1, <1>2 DEF Settled, TypeOK, RejectPayment, RejectAndRelease
<1>4. ItemsSettleOnlyWhenIssued'
  BY DEF Settled, ItemsSettleOnlyWhenIssued, RejectPayment, RejectAndRelease, Collectible
<1> QED
  BY <1>3, <1>4 DEF Settled

\* What both kinds of approval have in common.
LEMMA ApproveWrites ==
  ASSUME Settled, NEW p \in Payments, NEW shares \in [Obligations -> Nat],
         \A o \in Items : /\ paid[o] + shares[o] <= amount[o]
                          /\ shares[o] > 0 => Collectible(o[2]),
         Approve(p, shares), UNCHANGED <<batch, amount>>
  PROVE  /\ paid' \in [Obligations -> Nat]
         /\ itemStatus' \in [Items -> ItemStatuses]
         /\ payment' \in [Payments -> PaymentRows]
         /\ alloc' \in [Payments -> [Obligations -> Nat]]
         /\ balance' \in [Funds -> Int]
         /\ ItemsSettleOnlyWhenIssued'
<1> DEFINE new == AddedTo(paid, shares)
<1>1. new \in [Obligations -> Nat] /\ \A o \in Items : new[o] <= amount[o]
  BY ObligationNames DEF Settled, TypeOK, AddedTo
<1>2. WritePaid(new)
  BY DEF Approve
<1>3. /\ paid' \in [Obligations -> Nat]
      /\ itemStatus' \in [Items -> ItemStatuses]
      /\ \A o \in Items : /\ paid'[o] = new[o]
                          /\ paid'[o] <= amount[o]
                          /\ itemStatus'[o] = ComputeItemStatus(new[o], amount[o])
  BY <1>1, <1>2, PaidWritten DEF Settled
<1>4. payment' \in [Payments -> PaymentRows]
  BY DEF Settled, TypeOK, Approve, PaymentRows
<1>5. alloc' \in [Payments -> [Obligations -> Nat]]
  BY DEF Settled, TypeOK, Approve
<1>6. balance' \in [Funds -> Int]
  BY DEF Settled, TypeOK, Approve, PaymentRows
<1>7. \A o \in Items : paid'[o] > 0 => Collectible(o[2])
  <2> SUFFICES ASSUME NEW o \in Items, paid'[o] > 0
               PROVE  Collectible(o[2])
    OBVIOUS
  <2>1. paid'[o] = paid[o] + shares[o]
    BY <1>3, ObligationNames DEF AddedTo
  <2>2. paid[o] \in Nat /\ shares[o] \in Nat
    BY ObligationNames DEF Settled, TypeOK
  <2>3. paid[o] > 0 \/ shares[o] > 0
    BY <2>1, <2>2
  <2> QED
    BY <2>3 DEF Settled, ItemsSettleOnlyWhenIssued
<1>8. ItemsSettleOnlyWhenIssued'
  BY <1>3, <1>7 DEF ItemsSettleOnlyWhenIssued, Collectible, ComputeItemStatus
<1> QED
  BY <1>3, <1>4, <1>5, <1>6, <1>8

LEMMA SettledApproveExplicit ==
  ASSUME Settled, NEW p \in Payments, ApproveExplicit(p)
  PROVE  Settled'
<1> DEFINE shares == [o \in Obligations |-> IF o \in Selection(p) THEN selected[p][o] ELSE 0]
<1>1. shares \in [Obligations -> Nat]
  BY DEF Settled, TypeOK
<1>2. ASSUME NEW o \in Items
      PROVE  /\ paid[o] + shares[o] <= amount[o]
             /\ shares[o] > 0 => Collectible(o[2])
  <2>1. paid[o] \in Nat /\ amount[o] \in Int /\ paid[o] <= amount[o]
    BY ObligationNames DEF Settled, TypeOK, ItemsSettleOnlyWhenIssued
  <2>2. CASE o \in Selection(p)
    <3>1. shares[o] = amount[o] - paid[o] /\ Collectible(o[2])
      BY <2>2, ObligationNames DEF ApproveExplicit, Outstanding
    <3> QED
      BY <2>1, <3>1
  <2>3. CASE o \notin Selection(p)
    BY <2>1, <2>3, ObligationNames
  <2> QED
    BY <2>2, <2>3
<1>3. Approve(p, shares) /\ UNCHANGED <<batch, amount>>
  BY DEF ApproveExplicit
<1>4. /\ paid' \in [Obligations -> Nat]
      /\ itemStatus' \in [Items -> ItemStatuses]
      /\ payment' \in [Payments -> PaymentRows]
      /\ alloc' \in [Payments -> [Obligations -> Nat]]
      /\ balance' \in [Funds -> Int]
      /\ ItemsSettleOnlyWhenIssued'
  BY <1>1, <1>2, <1>3, ApproveWrites
<1>5. reservation' \in [Payments -> [Obligations -> ReservationStates]]
  BY ReservationsMoved DEF Settled, ApproveExplicit, ReservationStates
<1>6. TypeOK'
  BY <1>4, <1>5 DEF Settled, TypeOK, ApproveExplicit
<1> QED
  BY <1>4, <1>6 DEF Settled

\* Within the invariant, an item that receives a share owes at least it.
LEMMA ItemShares ==
  ASSUME Settled, NEW S, NEW cash
  PROVE  \A o \in Items : paid[o] + Shares(S, cash)[o] <= amount[o]
<1> SUFFICES ASSUME NEW o \in Items
             PROVE  paid[o] + Shares(S, cash)[o] <= amount[o]
  OBVIOUS
<1>1. o \in Obligations
  BY ObligationNames
<1>2. paid[o] \in Nat /\ amount[o] \in Int /\ paid[o] <= amount[o]
  BY <1>1 DEF Settled, TypeOK, ItemsSettleOnlyWhenIssued
<1>3. Outstanding[o] = amount[o] - paid[o]
  BY <1>1 DEF Outstanding
<1>4. Shares(S, cash)[o] \in Nat /\ Shares(S, cash)[o] <= AtLeastZero(Outstanding[o])
  BY <1>1, SharesBound DEF Settled
<1> QED
  BY <1>2, <1>3, <1>4 DEF AtLeastZero

LEMMA OutstandingAreIssued ==
  ASSUME NEW u
  PROVE  /\ OutstandingItems(u) \subseteq Items
         /\ \A o \in Items : o \in Debts(u) => Collectible(o[2])
BY ObligationNames DEF OutstandingItems, Debts, PositiveAdjustments

LEMMA SettledApproveAutomatic ==
  ASSUME Settled, NEW p \in Payments, ApproveAutomatic(p)
  PROVE  Settled'
<1> DEFINE u == payment[p].unit
           shares == Shares(Debts(u), payment[p].amount)
<1>1. shares \in [Obligations -> Nat]
  BY SharesBound DEF Settled
<1>2. ASSUME NEW o \in Items
      PROVE  /\ paid[o] + shares[o] <= amount[o]
             /\ shares[o] > 0 => Collectible(o[2])
  <2>1. paid[o] + shares[o] <= amount[o]
    BY ItemShares
  <2>2. o \notin Debts(u) => shares[o] = 0
    BY SharesBound, ObligationNames DEF Settled
  <2> QED
    BY <2>1, <2>2, OutstandingAreIssued
<1>3. Approve(p, shares) /\ UNCHANGED <<batch, amount>>
  BY DEF ApproveAutomatic
<1>4. /\ paid' \in [Obligations -> Nat]
      /\ itemStatus' \in [Items -> ItemStatuses]
      /\ payment' \in [Payments -> PaymentRows]
      /\ alloc' \in [Payments -> [Obligations -> Nat]]
      /\ balance' \in [Funds -> Int]
      /\ ItemsSettleOnlyWhenIssued'
  BY <1>1, <1>2, <1>3, ApproveWrites
<1>5. payment[p].amount \in Nat /\ u \in Units
  BY DEF Settled, TypeOK, PaymentRows
<1>6. LeftOver(Total(Debts(u), Outstanding), payment[p].amount) \in Nat
  BY <1>5, LeftOverType
<1>7. credit' \in [Units -> Nat]
  BY <1>5, <1>6 DEF Settled, TypeOK, ApproveAutomatic
<1>8. TypeOK'
  BY <1>4, <1>7 DEF Settled, TypeOK, ApproveAutomatic
<1> QED
  BY <1>4, <1>8 DEF Settled

LEMMA SettledReverse ==
  ASSUME Settled, NEW p \in Payments, ReversePayment(p)
  PROVE  Settled'
<1> DEFINE new == Reopened(p)
<1>1. /\ new \in [Obligations -> Nat]
      /\ \A o \in Obligations : new[o] <= paid[o]
  BY DEF Settled, TypeOK, Reopened, Max0, AtLeastZero
<1>2. \A o \in Items : new[o] <= amount[o]
  <2> SUFFICES ASSUME NEW o \in Items
               PROVE  new[o] <= amount[o]
    OBVIOUS
  <2>1. new[o] \in Nat /\ new[o] <= paid[o]
    BY <1>1, ObligationNames
  <2>2. paid[o] \in Nat /\ amount[o] \in Int /\ paid[o] <= amount[o]
    BY ObligationNames DEF Settled, TypeOK, ItemsSettleOnlyWhenIssued
  <2> QED
    BY <2>1, <2>2
<1>3. WritePaid(new)
  BY DEF ReversePayment
<1>4. /\ paid' \in [Obligations -> Nat]
      /\ itemStatus' \in [Items -> ItemStatuses]
      /\ \A o \in Items : /\ paid'[o] = new[o]
                          /\ paid'[o] <= amount[o]
                          /\ itemStatus'[o] = ComputeItemStatus(new[o], amount[o])
  BY <1>1, <1>2, <1>3, PaidWritten DEF Settled
<1>5. payment' \in [Payments -> PaymentRows]
  BY DEF Settled, TypeOK, ReversePayment, PaymentRows
<1>6. balance' \in [Funds -> Int]
  BY DEF Settled, TypeOK, ReversePayment, PaymentRows
<1>7. TypeOK'
  BY <1>4, <1>5, <1>6 DEF Settled, TypeOK, ReversePayment
<1>8. \A o \in Items : paid'[o] > 0 => Collectible(o[2])
  <2> SUFFICES ASSUME NEW o \in Items, paid'[o] > 0
               PROVE  Collectible(o[2])
    OBVIOUS
  <2>1. new[o] <= paid[o] /\ paid[o] \in Nat /\ paid'[o] = new[o] /\ new[o] \in Nat
    BY <1>1, <1>4, ObligationNames DEF Settled, TypeOK
  <2> QED
    BY <2>1 DEF Settled, ItemsSettleOnlyWhenIssued
<1>9. ItemsSettleOnlyWhenIssued'
  BY <1>4, <1>8 DEF ItemsSettleOnlyWhenIssued, Collectible, ReversePayment
<1> QED
  BY <1>7, <1>9 DEF Settled

\* Inserting an adjustment leaves the items alone.
LEMMA AdjustmentInserted ==
  ASSUME Settled, NEW o \in Adjustments,
         NEW source \in {"MANUAL", "LATE_FEE", "OPENING_BALANCE_CORRECTION"},
         NEW item \in Items \cup {NoItem}, NEW f \in Funds, NEW a \in Int,
         InsertAdjustment(o, source, item, f, a)
  PROVE  /\ adjustment' \in [Adjustments -> AdjustmentRows]
         /\ amount' \in [Obligations -> Int]
         /\ \A x \in Items : amount'[x] = amount[x]
BY ObligationNames DEF Settled, TypeOK, InsertAdjustment, AdjustmentRows

LEMMA WrittenOff ==
  ASSUME Settled, NEW S, S \cap Items \subseteq {o \in Items : Collectible(o[2])},
         NEW cash, WriteOff(S, cash)
  PROVE  /\ paid' \in [Obligations -> Nat]
         /\ itemStatus' \in [Items -> ItemStatuses]
         /\ waived' \in [Obligations -> Nat]
         /\ \A o \in Items : /\ paid'[o] <= amount[o]
                             /\ itemStatus'[o] = ComputeItemStatus(paid'[o], amount[o])
                             /\ paid'[o] > 0 => Collectible(o[2])
<1> DEFINE shares == Shares(S, cash)
           new == AddedTo(paid, shares)
<1>1. shares \in [Obligations -> Nat] /\ \A o \in Obligations : o \notin S => shares[o] = 0
  BY SharesBound DEF Settled
<1>2. new \in [Obligations -> Nat] /\ AddedTo(waived, shares) \in [Obligations -> Nat]
  BY <1>1 DEF Settled, TypeOK, AddedTo
<1>3. \A o \in Items : new[o] = paid[o] + shares[o]
  BY ObligationNames DEF AddedTo
<1>4. \A o \in Items : new[o] <= amount[o]
  BY <1>3, ItemShares
<1>5. WritePaid(new) /\ waived' = AddedTo(waived, shares)
  BY DEF WriteOff
<1>6. /\ paid' \in [Obligations -> Nat]
      /\ itemStatus' \in [Items -> ItemStatuses]
      /\ \A o \in Items : /\ paid'[o] = new[o]
                          /\ paid'[o] <= amount[o]
                          /\ itemStatus'[o] = ComputeItemStatus(new[o], amount[o])
  BY <1>2, <1>4, <1>5, PaidWritten DEF Settled
<1>7. \A o \in Items : paid'[o] > 0 => Collectible(o[2])
  <2> SUFFICES ASSUME NEW o \in Items, paid'[o] > 0
               PROVE  Collectible(o[2])
    OBVIOUS
  <2>1. paid[o] \in Nat /\ shares[o] \in Nat /\ paid'[o] = paid[o] + shares[o]
    BY <1>1, <1>3, <1>6, ObligationNames DEF Settled, TypeOK
  <2>2. shares[o] > 0 => o \in S
    BY <1>1, ObligationNames
  <2>3. paid[o] > 0 \/ shares[o] > 0
    BY <2>1
  <2> QED
    BY <2>2, <2>3 DEF Settled, ItemsSettleOnlyWhenIssued
<1> QED
  BY <1>2, <1>5, <1>6, <1>7

LEMMA SettledCreateAdjustment ==
  ASSUME Settled, NEW o \in Adjustments, NEW f \in Funds, NEW a \in AdjustAmounts,
         CreateAdjustment(o, f, a)
  PROVE  Settled'
<1>1. a \in Int
  BY AmountAssumption
<1>2. /\ adjustment' \in [Adjustments -> AdjustmentRows]
      /\ amount' \in [Obligations -> Int]
      /\ \A x \in Items : amount'[x] = amount[x]
  BY <1>1, AdjustmentInserted DEF CreateAdjustment, RecordAdjustment
<1>3. /\ paid' \in [Obligations -> Nat]
      /\ itemStatus' \in [Items -> ItemStatuses]
      /\ waived' \in [Obligations -> Nat]
      /\ \A x \in Items : /\ paid'[x] <= amount[x]
                          /\ itemStatus'[x] = ComputeItemStatus(paid'[x], amount[x])
                          /\ paid'[x] > 0 => Collectible(x[2])
  <2>1. CASE a < 0
    <3>1. OutstandingItems(o[3]) \cap Items \subseteq {x \in Items : Collectible(x[2])}
      BY DEF OutstandingItems
    <3>2. WriteOff(OutstandingItems(o[3]), -a)
      BY <2>1 DEF CreateAdjustment, RecordAdjustment
    <3> QED
      BY <3>1, <3>2, WrittenOff
  <2>2. CASE ~(a < 0)
    BY <2>2 DEF Settled, TypeOK, ItemsSettleOnlyWhenIssued, CreateAdjustment, RecordAdjustment
  <2> QED
    BY <2>1, <2>2
<1>4. TypeOK'
  BY <1>2, <1>3 DEF Settled, TypeOK, CreateAdjustment, RecordAdjustment
<1>5. ItemsSettleOnlyWhenIssued'
  BY <1>2, <1>3 DEF ItemsSettleOnlyWhenIssued, CreateAdjustment, RecordAdjustment, Collectible
<1> QED
  BY <1>4, <1>5 DEF Settled

LEMMA SettledFeeRequest ==
  ASSUME Settled, NEW r \in FeeRequests,
         (\E item \in Items : CheckLateFee(r, item)) \/ RefuseLateFee(r)
  PROVE  Settled'
<1>1. feeCheck' \in [FeeRequests -> Items \cup {NoItem}]
  BY DEF Settled, TypeOK, CheckLateFee, RefuseLateFee
<1>2. UNCHANGED <<tables, waived>>
  BY DEF CheckLateFee, RefuseLateFee
<1>3. TypeOK'
  BY <1>1, <1>2 DEF Settled, TypeOK, tables
<1>4. ItemsSettleOnlyWhenIssued'
  BY <1>2 DEF Settled, ItemsSettleOnlyWhenIssued, tables, Collectible
<1> QED
  BY <1>3, <1>4 DEF Settled

LEMMA SettledApplyFee ==
  ASSUME Settled, NEW r \in FeeRequests, NEW o \in Adjustments, ApplyLateFee(r, o)
  PROVE  Settled'
<1> DEFINE item == feeCheck[r]
<1>1. item \in Items
  BY DEF Settled, TypeOK, ApplyLateFee
<1>2. batch[item[2]].fund \in Funds /\ batch[item[2]].lateFee \in Int
  BY <1>1, ObligationNames DEF Settled, TypeOK, BatchRows
<1>3. /\ adjustment' \in [Adjustments -> AdjustmentRows]
      /\ amount' \in [Obligations -> Int]
      /\ \A x \in Items : amount'[x] = amount[x]
  BY <1>1, <1>2, AdjustmentInserted DEF ApplyLateFee
<1>4. feeCheck' \in [FeeRequests -> Items \cup {NoItem}]
  BY DEF Settled, TypeOK, ApplyLateFee
<1>5. TypeOK'
  BY <1>3, <1>4 DEF Settled, TypeOK, ApplyLateFee
<1>6. ItemsSettleOnlyWhenIssued'
  BY <1>3 DEF Settled, ItemsSettleOnlyWhenIssued, ApplyLateFee, Collectible
<1> QED
  BY <1>5, <1>6 DEF Settled

LEMMA SettledCorrectOpening ==
  ASSUME Settled, NEW o \in Adjustments, NEW f \in Funds, NEW t \in OpeningTargets,
         CorrectOpeningBalance(o, f, t)
  PROVE  Settled'
<1> DEFINE u == o[3]
           delta == t - OpeningBalance(u)
           prior == {x \in Corrections(u) : amount[x] > 0}
<1>1. delta \in Int
  <2>1. Corrections(u) \subseteq Obligations
    BY ObligationNames DEF Corrections
  <2>2. \A x \in Corrections(u) : amount[x] \in Int /\ Negated(amount)[x] \in Int
    BY <2>1 DEF Settled, TypeOK, Negated
  <2>3. Total(Corrections(u), amount) \in Nat /\ Total(Corrections(u), Negated(amount)) \in Nat
    BY <2>1, <2>2, SubsetFinite, TotalType
  <2>4. t \in Int
    BY AmountAssumption
  <2> QED
    BY <2>3, <2>4 DEF OpeningBalance
<1>2. /\ adjustment' \in [Adjustments -> AdjustmentRows]
      /\ amount' \in [Obligations -> Int]
      /\ \A x \in Items : amount'[x] = amount[x]
  BY <1>1, AdjustmentInserted DEF CorrectOpeningBalance
<1>3. /\ paid' \in [Obligations -> Nat]
      /\ itemStatus' \in [Items -> ItemStatuses]
      /\ waived' \in [Obligations -> Nat]
      /\ \A x \in Items : /\ paid'[x] <= amount[x]
                          /\ itemStatus'[x] = ComputeItemStatus(paid'[x], amount[x])
                          /\ paid'[x] > 0 => Collectible(x[2])
      /\ credit' \in [Units -> Nat]
  <2>1. CASE delta < 0
    <3>1. prior \cap Items \subseteq {x \in Items : Collectible(x[2])}
      BY ObligationNames DEF Corrections
    <3>2. WriteOff(prior, -delta)
      BY <2>1 DEF CorrectOpeningBalance
    <3>3. LeftOver(Total(prior, Outstanding), -delta) \in Nat
      BY <1>1, LeftOverType
    <3>4. credit' = [credit EXCEPT ![u] = @ + LeftOver(Total(prior, Outstanding), -delta)]
      BY <2>1 DEF CorrectOpeningBalance
    <3>5. credit' \in [Units -> Nat]
      BY <3>3, <3>4, ObligationNames DEF Settled, TypeOK
    <3> QED
      BY <3>1, <3>2, <3>5, WrittenOff
  <2>2. CASE ~(delta < 0)
    BY <2>2 DEF Settled, TypeOK, ItemsSettleOnlyWhenIssued, CorrectOpeningBalance
  <2> QED
    BY <2>1, <2>2
<1>4. TypeOK'
  BY <1>2, <1>3 DEF Settled, TypeOK, CorrectOpeningBalance
<1>5. ItemsSettleOnlyWhenIssued'
  BY <1>2, <1>3 DEF ItemsSettleOnlyWhenIssued, CorrectOpeningBalance, Collectible
<1> QED
  BY <1>4, <1>5 DEF Settled

LEMMA SettledNext == Settled /\ [Next]_vars => Settled'
<1> SUFFICES ASSUME Settled, [Next]_vars
             PROVE  Settled'
  OBVIOUS
<1>1. ASSUME NEW f \in ClosableFunds, SetFundActive(f)
      PROVE  Settled'
  BY <1>1, SettledFund
<1>2. ASSUME NEW b \in Batches, NEW r \in ChargeRequests, CreateChargeBatch(b, r)
      PROVE  Settled'
  BY <1>2, SettledCreateBatch
<1>3. ASSUME NEW b \in Batches, IssueChargeBatch(b)
      PROVE  Settled'
  BY <1>3, SettledIssue
<1>4. ASSUME NEW b \in Batches, CancelChargeBatch(b)
      PROVE  Settled'
  BY <1>4, SettledCancel
<1>5. ASSUME NEW p \in Payments, NEW u \in Units, NEW f \in Funds, NEW a \in Amounts,
             NEW m \in ManualFlags, CreatePayment(p, u, f, a, m)
      PROVE  Settled'
  BY <1>5, SettledCreatePayment
<1>6. ASSUME NEW p \in Payments, NEW u \in Units,
             NEW S \in SUBSET {o \in Obligations : o[3] = u /\ Selectable(o)},
             CreateExplicitPayment(p, u, S)
      PROVE  Settled'
  <2>1. S \in SUBSET Obligations
    OBVIOUS
  <2> QED
    BY <1>6, <2>1, SettledCreateExplicit
<1>7. ASSUME NEW p \in Payments, RejectPayment(p)
      PROVE  Settled'
  BY <1>7, SettledReject
<1>8. ASSUME NEW p \in Payments, ApproveExplicit(p)
      PROVE  Settled'
  BY <1>8, SettledApproveExplicit
<1>9. ASSUME NEW p \in Payments, ApproveAutomatic(p)
      PROVE  Settled'
  BY <1>9, SettledApproveAutomatic
<1>10. ASSUME NEW p \in Payments, ReversePayment(p)
      PROVE  Settled'
  BY <1>10, SettledReverse
<1>11. ASSUME NEW o \in Adjustments, NEW f \in Funds, NEW a \in AdjustAmounts,
              CreateAdjustment(o, f, a)
      PROVE  Settled'
  BY <1>11, SettledCreateAdjustment
<1>12. ASSUME NEW r \in FeeRequests, NEW item \in Items, CheckLateFee(r, item)
      PROVE  Settled'
  BY <1>12, SettledFeeRequest
<1>13. ASSUME NEW r \in FeeRequests, NEW o \in Adjustments, ApplyLateFee(r, o)
      PROVE  Settled'
  BY <1>13, SettledApplyFee
<1>14. ASSUME NEW r \in FeeRequests, RefuseLateFee(r)
      PROVE  Settled'
  BY <1>14, SettledFeeRequest
<1>15. ASSUME NEW o \in Adjustments, NEW f \in Funds, NEW t \in OpeningTargets,
              CorrectOpeningBalance(o, f, t)
      PROVE  Settled'
  BY <1>15, SettledCorrectOpening
<1>16. CASE UNCHANGED vars
  <2>1. TypeOK'
    BY <1>16 DEF Settled, TypeOK, vars, tables
  <2>2. ItemsSettleOnlyWhenIssued'
    BY <1>16 DEF Settled, ItemsSettleOnlyWhenIssued, vars, tables, Collectible
  <2> QED
    BY <2>1, <2>2 DEF Settled
<1> QED
  BY <1>1, <1>2, <1>3, <1>4, <1>5, <1>6, <1>7, <1>8, <1>9, <1>10, <1>11, <1>12,
     <1>13, <1>14, <1>15, <1>16 DEF Next

LEMMA SettledAlways == Spec => []Settled
<1> QED
  BY SettledInit, SettledNext, PTL DEF Spec

\* Every column keeps its type; in particular no subtraction of the code ever
\* leaves a negative paidAmount or a negative credit balance.
THEOREM TypeCorrect == Spec => []TypeOK
<1>1. Settled => TypeOK
  BY DEF Settled
<1> QED
  BY <1>1, SettledAlways, PTL

\* No charge item is ever paid beyond its amount, its status column always
\* tells what is outstanding, and only issued batches have paid items.
THEOREM SettlementCorrect == Spec => []ItemsSettleOnlyWhenIssued
<1>1. Settled => ItemsSettleOnlyWhenIssued
  BY DEF Settled
<1> QED
  BY <1>1, SettledAlways, PTL

\* The only step that adds a late fee looked for one of the same item first.
LEMMA FeeOnceNext == TypeOK /\ LateFeeOnce /\ [Next]_vars => LateFeeOnce'
<1> SUFFICES ASSUME TypeOK, LateFeeOnce, [Next]_vars
             PROVE  LateFeeOnce'
  OBVIOUS
<1>1. CASE UNCHANGED adjustment
  BY <1>1 DEF LateFeeOnce
<1>2. ASSUME NEW o \in Adjustments, NEW source \in {"MANUAL", "OPENING_BALANCE_CORRECTION"},
             NEW f, NEW STATE a, InsertAdjustment(o, source, NoItem, f, a)
      PROVE  LateFeeOnce'
  <2>1. /\ adjustment'[o].source # "LATE_FEE"
        /\ \A x \in Adjustments : x # o => adjustment'[x] = adjustment[x]
    BY <1>2 DEF TypeOK, InsertAdjustment
  <2> QED
    BY <2>1 DEF LateFeeOnce
<1>3. ASSUME NEW r \in FeeRequests, NEW o \in Adjustments, ApplyLateFee(r, o)
      PROVE  LateFeeOnce'
  <2>1. /\ adjustment'[o].item = feeCheck[r]
        /\ \A x \in Adjustments : x # o => adjustment'[x] = adjustment[x]
    BY <1>3 DEF TypeOK, ApplyLateFee, InsertAdjustment
  <2>2. ~FeeCharged(feeCheck[r])
    BY <1>3 DEF ApplyLateFee
  <2> QED
    BY <2>1, <2>2 DEF LateFeeOnce, FeeCharged
<1>4. ASSUME NEW o \in Adjustments, NEW f \in Funds, NEW a \in AdjustAmounts,
             CreateAdjustment(o, f, a)
      PROVE  LateFeeOnce'
  BY <1>2, <1>4 DEF CreateAdjustment, RecordAdjustment
<1>5. ASSUME NEW o \in Adjustments, NEW f \in Funds, NEW t \in OpeningTargets,
             CorrectOpeningBalance(o, f, t)
      PROVE  LateFeeOnce'
  BY <1>2, <1>5 DEF CorrectOpeningBalance
<1>6. ASSUME \/ \E f \in ClosableFunds : SetFundActive(f)
             \/ \E b \in Batches, r \in ChargeRequests : CreateChargeBatch(b, r)
             \/ \E b \in Batches : IssueChargeBatch(b) \/ CancelChargeBatch(b)
             \/ \E p \in Payments : RejectPayment(p) \/ ReversePayment(p)
             \/ \E p \in Payments : ApproveExplicit(p) \/ ApproveAutomatic(p)
             \/ \E r \in FeeRequests, item \in Items : CheckLateFee(r, item)
             \/ \E r \in FeeRequests : RefuseLateFee(r)
             \/ UNCHANGED vars
      PROVE  UNCHANGED adjustment
  BY <1>6 DEF SetFundActive, CreateChargeBatch, IssueChargeBatch, CancelChargeBatch,
              RejectPayment, RejectAndRelease, ReversePayment, ApproveExplicit, ApproveAutomatic,
              CheckLateFee, RefuseLateFee, tables, vars
<1>7. ASSUME NEW p \in Payments, NEW u \in Units,
             \/ \E f \in Funds, a \in Amounts, m \in ManualFlags : CreatePayment(p, u, f, a, m)
             \/ \E S \in SUBSET {o \in Obligations : o[3] = u /\ Selectable(o)} :
                    CreateExplicitPayment(p, u, S)
      PROVE  UNCHANGED adjustment
  BY <1>7 DEF CreatePayment, CreateExplicitPayment, ReserveObligations
<1> QED
  BY <1>1, <1>3, <1>4, <1>5, <1>6, <1>7 DEF Next

\* However many requests race and however often a charge is paid and reopened,
\* it carries at most one late fee.
THEOREM FeeChargedOnce == Spec => []LateFeeOnce
<1>1. Init => LateFeeOnce
  BY DEF Init, LateFeeOnce, NoAdjustment
<1> QED
  BY <1>1, FeeOnceNext, TypeCorrect, PTL DEF Spec

-----------------------------------------------------------------------------
(* Reservations are exclusive and follow their payment.  Neither fact is   *)
(* inductive alone: an automatic approval does not look at reservations at *)
(* all, so it keeps them only because an automatic payment never has any.  *)

\* Only an explicit payment that was reported holds reservations.
ExplicitHolds ==
    \A p \in Payments, o \in Obligations :
        reservation[p][o] # "NONE" =>
            payment[p].mode = "EXPLICIT_SELECTION" /\ payment[p].status # "NONE"

Reserving ==
    TypeOK /\ ReservationExclusive /\ ReservationFollowsPayment /\ ExplicitHolds

LEMMA ReservingInit == Init => Reserving
<1> SUFFICES ASSUME Init
             PROVE  Reserving
  OBVIOUS
<1>1. TypeOK
  BY SettledInit DEF Settled
<1>2. ReservationExclusive /\ ReservationFollowsPayment /\ ExplicitHolds
  BY DEF Init, ReservationExclusive, ReservationFollowsPayment, ExplicitHolds, NoPayment
<1> QED
  BY <1>1, <1>2 DEF Reserving

\* A step that leaves payments and their rows alone keeps the invariant.
LEMMA ReservingUnchanged ==
  ASSUME Reserving, TypeOK', UNCHANGED <<payment, selected, reservation, alloc>>
  PROVE  Reserving'
BY DEF Reserving, ReservationExclusive, ReservationFollowsPayment, ExplicitHolds

LEMMA ReservingCreatePayment ==
  ASSUME Reserving, TypeOK', NEW p \in Payments, NEW u \in Units, NEW f \in Funds,
         NEW a \in Amounts, NEW m, CreatePayment(p, u, f, a, m)
  PROVE  Reserving'
<1>1. /\ payment[p].status = "NONE"
      /\ payment' = [payment EXCEPT ![p] =
             [status |-> "PENDING_APPROVAL", mode |-> "LEGACY_AUTOMATIC",
              unit |-> u, fund |-> f, amount |-> a]]
      /\ UNCHANGED <<selected, reservation, alloc>>
  BY DEF CreatePayment, InsertPayment
<1>2. \A o \in Obligations : reservation[p][o] = "NONE" /\ alloc[p][o] = 0
  BY <1>1 DEF Reserving, ExplicitHolds, ReservationFollowsPayment
<1>3. /\ payment'[p].status = "PENDING_APPROVAL"
      /\ \A q \in Payments : q # p => payment'[q] = payment[q]
  BY <1>1 DEF Reserving, TypeOK
<1>4. ReservationExclusive'
  BY <1>1 DEF Reserving, ReservationExclusive
<1>5. ReservationFollowsPayment'
  <2> SUFFICES ASSUME NEW q \in Payments, NEW o \in Obligations
               PROVE  LET s == payment'[q].status IN
                      /\ reservation[q][o] = "ACTIVE" => s = "PENDING_APPROVAL"
                      /\ reservation[q][o] = "RELEASED" => s = "REJECTED"
                      /\ reservation[q][o] = "APPLIED" =>
                             s \in {"APPROVED", "REVERSED"} /\ alloc[q][o] = selected[q][o]
                      /\ s \in {"NONE", "PENDING_APPROVAL", "REJECTED"} => alloc[q][o] = 0
    BY <1>1 DEF ReservationFollowsPayment
  <2>1. CASE q = p
    BY <1>2, <1>3, <2>1
  <2>2. CASE q # p
    BY <1>3, <2>2 DEF Reserving, ReservationFollowsPayment
  <2> QED
    BY <2>1, <2>2
<1>6. ExplicitHolds'
  BY <1>1, <1>2, <1>3 DEF Reserving, ExplicitHolds
<1> QED
  BY <1>4, <1>5, <1>6 DEF Reserving

LEMMA ReservingCreateExplicit ==
  ASSUME Reserving, TypeOK', NEW p \in Payments, NEW u \in Units,
         NEW S \in SUBSET Obligations, CreateExplicitPayment(p, u, S)
  PROVE  Reserving'
<1>1. /\ payment[p].status = "NONE"
      /\ payment'[p].status = "PENDING_APPROVAL"
      /\ payment'[p].mode = "EXPLICIT_SELECTION"
      /\ \A q \in Payments : q # p => payment'[q] = payment[q]
      /\ alloc' = alloc
  BY DEF Reserving, TypeOK, CreateExplicitPayment, ReserveObligations, InsertPayment
<1>2. /\ \A o \in Obligations :
            reservation'[p][o] = IF o \in S THEN "ACTIVE" ELSE "NONE"
      /\ \A q \in Payments : q # p =>
            reservation'[q] = reservation[q] /\ selected'[q] = selected[q]
  BY DEF Reserving, TypeOK, CreateExplicitPayment, ReserveObligations
<1>3. \A o \in S, q \in Payments : reservation[q][o] # "ACTIVE"
  BY DEF CreateExplicitPayment, ReserveObligations, Selectable, Reserved
<1>4. \A o \in Obligations : alloc[p][o] = 0
  BY <1>1 DEF Reserving, ReservationFollowsPayment
<1>5. ReservationExclusive'
  <2> SUFFICES ASSUME NEW q \in Payments, NEW r \in Payments, NEW o \in Obligations,
                      reservation'[q][o] = "ACTIVE", reservation'[r][o] = "ACTIVE"
               PROVE  q = r
    BY DEF ReservationExclusive
  <2>1. CASE q # p /\ r # p
    BY <1>2, <2>1 DEF Reserving, ReservationExclusive
  <2>2. CASE q = p /\ r # p
    BY <1>2, <1>3, <2>2
  <2>3. CASE q # p /\ r = p
    BY <1>2, <1>3, <2>3
  <2> QED
    BY <2>1, <2>2, <2>3
<1>6. ReservationFollowsPayment'
  <2> SUFFICES ASSUME NEW q \in Payments, NEW o \in Obligations
               PROVE  LET s == payment'[q].status IN
                      /\ reservation'[q][o] = "ACTIVE" => s = "PENDING_APPROVAL"
                      /\ reservation'[q][o] = "RELEASED" => s = "REJECTED"
                      /\ reservation'[q][o] = "APPLIED" =>
                             s \in {"APPROVED", "REVERSED"} /\ alloc'[q][o] = selected'[q][o]
                      /\ s \in {"NONE", "PENDING_APPROVAL", "REJECTED"} => alloc'[q][o] = 0
    BY DEF ReservationFollowsPayment
  <2>1. CASE q = p
    BY <1>1, <1>2, <1>4, <2>1
  <2>2. CASE q # p
    BY <1>1, <1>2, <2>2 DEF Reserving, ReservationFollowsPayment
  <2> QED
    BY <2>1, <2>2
<1>7. ExplicitHolds'
  BY <1>1, <1>2 DEF Reserving, ExplicitHolds
<1> QED
  BY <1>5, <1>6, <1>7 DEF Reserving

\* What holds of one obligation of a payment, with its rows.
FollowsAt(s, r, allocated, asked) ==
    /\ r = "ACTIVE" => s = "PENDING_APPROVAL"
    /\ r = "RELEASED" => s = "REJECTED"
    /\ r = "APPLIED" => s \in {"APPROVED", "REVERSED"} /\ allocated = asked
    /\ s \in {"NONE", "PENDING_APPROVAL", "REJECTED"} => allocated = 0

\* A decision about payment p that leaves none of its reservations active.
LEMMA ReservingDecided ==
  ASSUME Reserving, TypeOK', NEW p \in Payments,
         \A q \in Payments : q # p =>
             /\ payment'[q] = payment[q] /\ reservation'[q] = reservation[q]
             /\ alloc'[q] = alloc[q],
         selected' = selected,
         payment'[p].mode = payment[p].mode,
         payment'[p].status # "NONE",
         \A o \in Obligations :
             /\ reservation'[p][o] # "ACTIVE"
             /\ reservation'[p][o] # "NONE" => reservation[p][o] # "NONE"
             /\ FollowsAt(payment'[p].status, reservation'[p][o], alloc'[p][o], selected[p][o])
  PROVE  Reserving'
<1>1. ReservationExclusive'
  BY DEF Reserving, ReservationExclusive
<1>2. ReservationFollowsPayment'
  <2> SUFFICES ASSUME NEW q \in Payments, NEW o \in Obligations
               PROVE  FollowsAt(payment'[q].status, reservation'[q][o], alloc'[q][o],
                                selected'[q][o])
    BY DEF ReservationFollowsPayment, FollowsAt
  <2>1. CASE q = p
    BY <2>1
  <2>2. CASE q # p
    BY <2>2 DEF Reserving, ReservationFollowsPayment, FollowsAt
  <2> QED
    BY <2>1, <2>2
<1>3. ExplicitHolds'
  BY DEF Reserving, ExplicitHolds
<1> QED
  BY <1>1, <1>2, <1>3 DEF Reserving

LEMMA ReservingReject ==
  ASSUME Reserving, TypeOK', NEW p \in Payments, RejectPayment(p)
  PROVE  Reserving'
<1>1. /\ payment[p].status = "PENDING_APPROVAL"
      /\ payment'[p].status = "REJECTED" /\ payment'[p].mode = payment[p].mode
      /\ \A q \in Payments : q # p => payment'[q] = payment[q]
      /\ UNCHANGED <<selected, alloc>>
  BY DEF Reserving, TypeOK, RejectPayment, RejectAndRelease, PaymentRows
<1>2. ASSUME NEW o \in Obligations
      PROVE  reservation[p][o] \in {"NONE", "ACTIVE"} /\ alloc[p][o] = 0
  <2>1. reservation[p][o] \in {"NONE", "ACTIVE", "APPLIED", "RELEASED"}
    BY DEF Reserving, TypeOK, ReservationStates
  <2>2. payment[p].status = "PENDING_APPROVAL"
    BY <1>1
  <2> QED
    BY <2>1, <2>2 DEF Reserving, ReservationFollowsPayment
<1>3. /\ \A q \in Payments : q # p => reservation'[q] = reservation[q]
      /\ \A o \in Obligations :
            reservation'[p][o] = IF reservation[p][o] = "ACTIVE" THEN "RELEASED" ELSE "NONE"
  <2>1. CASE payment[p].mode = "EXPLICIT_SELECTION"
    BY <1>2, <2>1 DEF Reserving, TypeOK, RejectPayment, RejectAndRelease, MoveReservations
  <2>2. CASE payment[p].mode # "EXPLICIT_SELECTION"
    BY <2>2 DEF Reserving, ExplicitHolds, RejectPayment, RejectAndRelease
  <2> QED
    BY <2>1, <2>2
<1>4. ASSUME NEW o \in Obligations
      PROVE  /\ reservation'[p][o] # "ACTIVE"
             /\ reservation'[p][o] # "NONE" => reservation[p][o] # "NONE"
             /\ FollowsAt(payment'[p].status, reservation'[p][o], alloc'[p][o], selected[p][o])
  BY <1>1, <1>2, <1>3 DEF FollowsAt
<1>5. payment'[p].status # "NONE" /\ selected' = selected
  BY <1>1
<1>6. \A q \in Payments : q # p =>
          /\ payment'[q] = payment[q] /\ reservation'[q] = reservation[q]
          /\ alloc'[q] = alloc[q]
  BY <1>1, <1>3
<1> QED
  BY <1>1, <1>4, <1>5, <1>6, ReservingDecided

LEMMA ReservingApproveExplicit ==
  ASSUME Reserving, TypeOK', NEW p \in Payments, ApproveExplicit(p)
  PROVE  Reserving'
<1> DEFINE shares == [o \in Obligations |-> IF o \in Selection(p) THEN selected[p][o] ELSE 0]
<1>1. /\ Approve(p, shares) /\ MoveReservations(p, "APPLIED")
      /\ selected' = selected
  BY DEF ApproveExplicit
<1>2. /\ payment[p].status = "PENDING_APPROVAL"
      /\ payment'[p].status = "APPROVED" /\ payment'[p].mode = payment[p].mode
      /\ alloc'[p] = shares
      /\ \A q \in Payments : q # p => payment'[q] = payment[q] /\ alloc'[q] = alloc[q]
  BY <1>1 DEF Reserving, TypeOK, Approve, PaymentRows
<1>3. /\ \A q \in Payments : q # p => reservation'[q] = reservation[q]
      /\ \A o \in Obligations :
            reservation'[p][o] =
                IF reservation[p][o] = "ACTIVE" THEN "APPLIED" ELSE reservation[p][o]
  BY <1>1 DEF Reserving, TypeOK, MoveReservations
<1>4. ASSUME NEW o \in Obligations
      PROVE  reservation[p][o] \in {"NONE", "ACTIVE"}
  <2>1. reservation[p][o] \in {"NONE", "ACTIVE", "APPLIED", "RELEASED"}
    BY DEF Reserving, TypeOK, ReservationStates
  <2>2. payment[p].status = "PENDING_APPROVAL"
    BY <1>2
  <2> QED
    BY <2>1, <2>2 DEF Reserving, ReservationFollowsPayment
<1>5. ASSUME NEW o \in Obligations
      PROVE  FollowsAt(payment'[p].status, reservation'[p][o], alloc'[p][o], selected[p][o])
  BY <1>2, <1>3, <1>4 DEF FollowsAt, Selection
<1> QED
  BY <1>1, <1>2, <1>3, <1>4, <1>5, ReservingDecided

LEMMA ReservingApproveAutomatic ==
  ASSUME Reserving, TypeOK', NEW p \in Payments, ApproveAutomatic(p)
  PROVE  Reserving'
<1>1. /\ payment[p].mode = "LEGACY_AUTOMATIC"
      /\ payment'[p].status = "APPROVED" /\ payment'[p].mode = payment[p].mode
      /\ \A q \in Payments : q # p => payment'[q] = payment[q] /\ alloc'[q] = alloc[q]
      /\ UNCHANGED <<selected, reservation>>
  BY DEF Reserving, TypeOK, ApproveAutomatic, Approve, PaymentRows
<1>2. \A o \in Obligations : reservation[p][o] = "NONE"
  <2>1. payment[p].mode # "EXPLICIT_SELECTION"
    BY <1>1
  <2> QED
    BY <2>1 DEF Reserving, ExplicitHolds
<1>3. ASSUME NEW o \in Obligations
      PROVE  /\ reservation'[p][o] # "ACTIVE"
             /\ FollowsAt(payment'[p].status, reservation'[p][o], alloc'[p][o], selected[p][o])
             /\ reservation'[p][o] # "NONE" => reservation[p][o] # "NONE"
  BY <1>1, <1>2 DEF FollowsAt
<1> QED
  BY <1>1, <1>3, ReservingDecided

LEMMA ReservingReverse ==
  ASSUME Reserving, TypeOK', NEW p \in Payments, ReversePayment(p)
  PROVE  Reserving'
<1>1. /\ payment[p].status = "APPROVED"
      /\ payment'[p].status = "REVERSED" /\ payment'[p].mode = payment[p].mode
      /\ \A q \in Payments : q # p => payment'[q] = payment[q]
      /\ UNCHANGED <<selected, reservation, alloc>>
  BY DEF Reserving, TypeOK, ReversePayment, PaymentRows
<1>2. ASSUME NEW o \in Obligations
      PROVE  /\ reservation[p][o] # "ACTIVE"
             /\ FollowsAt("REVERSED", reservation[p][o], alloc[p][o], selected[p][o])
  BY <1>1 DEF Reserving, ReservationFollowsPayment, FollowsAt
<1> QED
  BY <1>1, <1>2, ReservingDecided

LEMMA ReservingNext == Reserving /\ TypeOK' /\ [Next]_vars => Reserving'
<1> SUFFICES ASSUME Reserving, TypeOK', [Next]_vars
             PROVE  Reserving'
  OBVIOUS
<1>1. CASE UNCHANGED <<payment, selected, reservation, alloc>>
  BY <1>1, ReservingUnchanged
<1>2. ASSUME NEW p \in Payments, NEW u \in Units, NEW f \in Funds, NEW a \in Amounts,
             NEW m \in ManualFlags, CreatePayment(p, u, f, a, m)
      PROVE  Reserving'
  BY <1>2, ReservingCreatePayment
<1>3. ASSUME NEW p \in Payments, NEW u \in Units,
             NEW S \in SUBSET {o \in Obligations : o[3] = u /\ Selectable(o)},
             CreateExplicitPayment(p, u, S)
      PROVE  Reserving'
  <2>1. S \in SUBSET Obligations
    OBVIOUS
  <2> QED
    BY <1>3, <2>1, ReservingCreateExplicit
<1>4. ASSUME NEW p \in Payments,
             RejectPayment(p) \/ ApproveExplicit(p) \/ ApproveAutomatic(p) \/ ReversePayment(p)
      PROVE  Reserving'
  BY <1>4, ReservingReject, ReservingApproveExplicit, ReservingApproveAutomatic,
     ReservingReverse
<1>5. CASE \/ \E f \in ClosableFunds : SetFundActive(f)
           \/ \E b \in Batches, r \in ChargeRequests : CreateChargeBatch(b, r)
           \/ \E b \in Batches : IssueChargeBatch(b)
           \/ \E b \in Batches : CancelChargeBatch(b)
  BY <1>1, <1>5 DEF SetFundActive, CreateChargeBatch, IssueChargeBatch, CancelChargeBatch
<1>6. CASE \/ \E o \in Adjustments, f \in Funds, a \in AdjustAmounts :
                  CreateAdjustment(o, f, a)
           \/ \E o \in Adjustments, f \in Funds, t \in OpeningTargets :
                  CorrectOpeningBalance(o, f, t)
  BY <1>1, <1>6 DEF CreateAdjustment, RecordAdjustment, CorrectOpeningBalance
<1>7. CASE \/ \E r \in FeeRequests, item \in Items : CheckLateFee(r, item)
           \/ \E r \in FeeRequests, o \in Adjustments : ApplyLateFee(r, o)
           \/ \E r \in FeeRequests : RefuseLateFee(r)
  BY <1>1, <1>7 DEF CheckLateFee, ApplyLateFee, RefuseLateFee, tables
<1>8. CASE UNCHANGED vars
  BY <1>1, <1>8 DEF vars, tables
<1> QED
  BY <1>2, <1>3, <1>4, <1>5, <1>6, <1>7, <1>8 DEF Next

LEMMA ReservingAlways == Spec => []Reserving
<1>1. Init => Reserving
  BY ReservingInit
<1>2. Reserving /\ TypeOK' /\ [Next]_vars => Reserving'
  BY ReservingNext
<1> QED
  BY <1>1, <1>2, TypeCorrect, PTL DEF Spec

\* However many payments are reported, approved, rejected and reversed, no
\* obligation is ever held by two live reservations.
THEOREM ReservationsExclusive == Spec => []ReservationExclusive
<1>1. Reserving => ReservationExclusive
  BY DEF Reserving
<1> QED
  BY <1>1, ReservingAlways, PTL

\* A reservation is live exactly while its payment is pending, and approval
\* allocates what was reserved.
THEOREM ReservationsFollow == Spec => []ReservationFollowsPayment
<1>1. Reserving => ReservationFollowsPayment
  BY DEF Reserving
<1> QED
  BY <1>1, ReservingAlways, PTL

PaymentsPositive ==
    \A p \in Payments : payment[p].status # "NONE" => payment[p].amount > 0

\* Every payment reports at least a rial, and its amount never changes.
LEMMA PositiveNext == Settled /\ PaymentsPositive /\ [Next]_vars => PaymentsPositive'
<1> SUFFICES ASSUME Settled, PaymentsPositive, [Next]_vars
             PROVE  PaymentsPositive'
  OBVIOUS
<1> USE DEF Settled
<1>1. ASSUME \A q \in Payments : payment'[q].amount = payment[q].amount
                                 /\ (payment[q].status = "NONE" => payment'[q].status = "NONE")
      PROVE  PaymentsPositive'
  BY <1>1 DEF PaymentsPositive
<1>2. ASSUME NEW p \in Payments, NEW mode, NEW u, NEW STATE f, NEW STATE a, a > 0,
             InsertPayment(p, mode, u, f, a)
      PROVE  PaymentsPositive'
  BY <1>2 DEF PaymentsPositive, InsertPayment, TypeOK
<1>3. ASSUME NEW p \in Payments, NEW u \in Units, NEW f \in Funds, NEW a \in Amounts,
             NEW m \in ManualFlags, CreatePayment(p, u, f, a, m)
      PROVE  PaymentsPositive'
  <2>1. a > 0
    BY AmountAssumption
  <2> QED
    BY <1>2, <1>3, <2>1 DEF CreatePayment
<1>4. ASSUME NEW p \in Payments, NEW u \in Units,
             NEW S \in SUBSET {o \in Obligations : o[3] = u /\ Selectable(o)},
             CreateExplicitPayment(p, u, S)
      PROVE  PaymentsPositive'
  <2>1. PICK x \in S : Outstanding[x] > 0
    BY <1>4 DEF CreateExplicitPayment, ReserveObligations, Selectable
  <2>2. IsFiniteSet(S) /\ \A y \in S : Outstanding[y] \in Int
    BY SubsetFinite DEF Outstanding, TypeOK
  <2>3. Total(S, Outstanding) > 0
    BY <2>1, <2>2, TotalPositive
  <2> QED
    BY <1>2, <1>4, <2>3 DEF CreateExplicitPayment, ReserveObligations
<1>5. ASSUME NEW p \in Payments, NEW s \in {"APPROVED", "REJECTED", "REVERSED"},
             payment[p].status # "NONE", payment' = [payment EXCEPT ![p].status = s]
      PROVE  PaymentsPositive'
  BY <1>5 DEF PaymentsPositive, TypeOK, PaymentRows
<1>6. ASSUME NEW p \in Payments,
             RejectPayment(p) \/ ReversePayment(p) \/ ApproveExplicit(p) \/ ApproveAutomatic(p)
      PROVE  PaymentsPositive'
  BY <1>5, <1>6 DEF RejectPayment, RejectAndRelease, ReversePayment, ApproveExplicit,
            ApproveAutomatic, Approve
<1>7. ASSUME \/ \E f \in ClosableFunds : SetFundActive(f)
             \/ \E b \in Batches, r \in ChargeRequests : CreateChargeBatch(b, r)
             \/ \E b \in Batches : IssueChargeBatch(b) \/ CancelChargeBatch(b)
             \/ \E o \in Adjustments, f \in Funds, a \in AdjustAmounts : CreateAdjustment(o, f, a)
             \/ \E r \in FeeRequests, item \in Items : CheckLateFee(r, item)
             \/ \E r \in FeeRequests, o \in Adjustments : ApplyLateFee(r, o)
             \/ \E r \in FeeRequests : RefuseLateFee(r)
             \/ \E o \in Adjustments, f \in Funds, t \in OpeningTargets :
                    CorrectOpeningBalance(o, f, t)
             \/ UNCHANGED vars
      PROVE  UNCHANGED payment
  BY <1>7 DEF SetFundActive, CreateChargeBatch, IssueChargeBatch, CancelChargeBatch,
              CreateAdjustment, RecordAdjustment, CheckLateFee, ApplyLateFee, RefuseLateFee,
              CorrectOpeningBalance, tables, vars
<1> QED
  BY <1>1, <1>3, <1>4, <1>6, <1>7 DEF Next

\* The guards of a refund contradict each other for every payment there can be:
\* one that is approved was either allocated or left credit.
THEOREM RefundUnreachable == Spec => []NoPaymentRefundable
<1>1. Init => PaymentsPositive
  BY DEF Init, PaymentsPositive, NoPayment
<1>2. Settled /\ PaymentsPositive => NoPaymentRefundable
  <2> SUFFICES ASSUME TypeOK, PaymentsPositive, NEW p \in Payments, Refundable(p)
               PROVE  FALSE
    BY DEF Settled, NoPaymentRefundable
  <2>1. Allocated(p) \in Nat
    BY ObligationsFinite, TotalType DEF Allocated, TypeOK
  <2>2. payment[p].amount \in Nat /\ payment[p].amount > 0
    BY DEF PaymentsPositive, Refundable, TypeOK, PaymentRows
  <2> QED
    BY <2>1, <2>2 DEF Refundable
<1> QED
  BY <1>1, <1>2, PositiveNext, SettledAlways, PTL DEF Spec

-----------------------------------------------------------------------------
(* UnitFinance implements FundLedger, so its funds' balances are the       *)
(* replay of its ledger.  A payment moves cash twice in its life, on       *)
(* approval and on reversal; that neither entry can be there already       *)
(* follows from its status.                                                *)

\* The cash entries of the ledger name payments that went through the
\* decision that posts them.
EntriesDecided ==
    \A e \in ledger :
        /\ e.type = "PAYMENT" => \A p \in Payments :
               e.ref = p => payment[p].status \in {"APPROVED", "REVERSED"}
        /\ e.type = "REVERSAL" => \A p \in Payments :
               e.ref = p => payment[p].status = "REVERSED"

LEMMA OpeningBalanceType ==
  ASSUME TypeOK, NEW u
  PROVE  OpeningBalance(u) \in Int
<1>1. Corrections(u) \subseteq Obligations
  BY ObligationNames DEF Corrections
<1>2. \A x \in Corrections(u) : amount[x] \in Int /\ Negated(amount)[x] \in Int
  BY <1>1 DEF TypeOK, Negated
<1>3. Total(Corrections(u), amount) \in Nat /\ Total(Corrections(u), Negated(amount)) \in Nat
  BY <1>1, <1>2, SubsetFinite, TotalType
<1> QED
  BY <1>3 DEF OpeningBalance

\* The ledger steps of the abstract specification.
Posts(new) ==
    /\ ledger' = ledger \cup new
    /\ IsFiniteSet(new)
    /\ \A e \in new : Cash!IsEntry(e) /\ e.type \in {"CHARGE", "CREDIT_APPLIED", "ADJUSTMENT"}
    /\ balance' = balance

LEMMA PostsReceivable ==
  ASSUME NEW new, Posts(new)
  PROVE  Cash!PostReceivable
<1>1. ledger' \ ledger \in SUBSET new
  BY DEF Posts
<1>2. IsFiniteSet(ledger' \ ledger)
  BY <1>1, FS_Subset DEF Posts
<1>3. ASSUME NEW e \in ledger' \ ledger
      PROVE  Cash!IsEntry(e) /\ ~Cash!MovesCash(e)
  <2>1. Cash!IsEntry(e) /\ e.type \in {"CHARGE", "CREDIT_APPLIED", "ADJUSTMENT"}
    BY <1>1 DEF Posts
  <2>2. e.type \notin Cash!CashTypes
    BY <2>1 DEF Cash!CashTypes
  <2> QED
    BY <2>1, <2>2 DEF Cash!MovesCash
<1>4. ledger \subseteq ledger' /\ balance' = balance
  BY DEF Posts
<1>5. Cash!IsFiniteSet(ledger' \ ledger)
  BY <1>2 DEF IsFiniteSet, Cash!IsFiniteSet
<1> QED
  BY <1>3, <1>4, <1>5 DEF Cash!PostReceivable

LEMMA PostsNoDecision ==
  ASSUME NEW new, Posts(new), EntriesDecided, UNCHANGED payment
  PROVE  EntriesDecided'
BY DEF Posts, EntriesDecided

\* An entry of an adjustment.
LEMMA AdjustmentPosted ==
  ASSUME NEW o, NEW f \in Funds, NEW a \in Int,
         ledger' = ledger \cup {AdjustmentEntry(o, f, a)}, balance' = balance
  PROVE  Posts({AdjustmentEntry(o, f, a)})
<1>1. IsFiniteSet({AdjustmentEntry(o, f, a)})
  BY FS_Singleton
<1>2. /\ Cash!IsEntry(AdjustmentEntry(o, f, a))
      /\ AdjustmentEntry(o, f, a).type = "ADJUSTMENT"
  <2>1. CASE a < 0
    BY <2>1 DEF AdjustmentEntry, Entry, Cash!IsEntry
  <2>2. CASE ~(a < 0)
    BY <2>2 DEF AdjustmentEntry, Entry, Cash!IsEntry
  <2> QED
    BY <2>1, <2>2
<1> QED
  BY <1>1, <1>2 DEF Posts

\* The entries of an issued batch: its charge, and the credit it consumed.
LEMMA IssuePosts ==
  ASSUME Settled, NEW b \in Batches, IssueChargeBatch(b)
  PROVE  \E new : Posts(new)
<1> DEFINE total == Total({ItemOf(b, u) : u \in Units}, amount)
           applied == [u \in Units |-> CreditApplied(b, u)]
           V == {v \in Units : applied[v] > 0}
           ce(u) == Entry("CREDIT_APPLIED", "CREDIT", ItemOf(b, u), batch[b].fund, applied[u])
           credits == {ce(u) : u \in V}
           charge == Entry("CHARGE", "DEBIT", <<"CHARGE_BATCH", b>>, batch[b].fund, total)
           g == [u \in V |-> ce(u)]
<1>1. batch[b].fund \in Funds
  BY DEF Settled, TypeOK, BatchRows
<1>2. total \in Nat
  <2>1. {ItemOf(b, u) : u \in Units} \subseteq Obligations
    BY ObligationNames
  <2>2. \A x \in {ItemOf(b, u) : u \in Units} : amount[x] \in Int
    BY <2>1 DEF Settled, TypeOK
  <2> QED
    BY <2>1, <2>2, SubsetFinite, TotalType
<1>3. \A u \in V : applied[u] \in Nat
  <2> SUFFICES ASSUME NEW u \in V
               PROVE  applied[u] \in Nat
    OBVIOUS
  <2>1. ItemOf(b, u) \in Obligations
    BY ObligationNames
  <2>2. Outstanding[ItemOf(b, u)] \in Int
    BY <2>1 DEF Outstanding, Settled, TypeOK
  <2>3. credit[u] \in Nat
    BY DEF Settled, TypeOK
  <2>4. CreditApplied(b, u) \in Int
    BY <2>2, <2>3 DEF CreditApplied, Lesser
  <2> QED
    BY <2>4
<1>4. IsFiniteSet(credits)
  <2>1. IsFiniteSet(V)
    BY FiniteAssumption, FS_Subset
  <2>2. g \in Surjection(V, credits)
    BY DEF Surjection
  <2> QED
    BY <2>1, <2>2, FS_Surjection
<1>5. IsFiniteSet(credits \cup {charge})
  BY <1>4, FS_AddElement
<1>6. \A e \in credits : Cash!IsEntry(e) /\ e.type = "CREDIT_APPLIED"
  <2>1. ASSUME NEW u \in V
        PROVE  Cash!IsEntry(ce(u)) /\ ce(u).type = "CREDIT_APPLIED"
    BY <1>1, <1>3 DEF Entry, Cash!IsEntry
  <2> HIDE DEF ce
  <2> QED
    BY <2>1
<1>7. Cash!IsEntry(charge) /\ charge.type = "CHARGE"
  BY <1>1, <1>2 DEF Entry, Cash!IsEntry
<1>8. ledger' = ledger \cup (credits \cup {charge}) /\ balance' = balance
  BY DEF IssueChargeBatch
<1>9. Posts(credits \cup {charge})
  BY <1>5, <1>6, <1>7, <1>8 DEF Posts
<1> QED
  BY <1>9

\* A cash entry of payment p that is not in the ledger yet.
LEMMA CashPosted ==
  ASSUME TypeOK, NEW p \in Payments, NEW type \in {"PAYMENT", "REVERSAL"},
         NEW direction \in {"CREDIT", "DEBIT"},
         Entry(type, direction, p, payment[p].fund, payment[p].amount) \notin ledger,
         ledger' = ledger \cup
             {Entry(type, direction, p, payment[p].fund, payment[p].amount)},
         balance' = [balance EXCEPT ![payment[p].fund] =
             IF direction = "CREDIT" THEN @ + payment[p].amount ELSE @ - payment[p].amount]
  PROVE  Cash!PostCash
<1> DEFINE e == Entry(type, direction, p, payment[p].fund, payment[p].amount)
<1>1. payment[p].fund \in Funds /\ payment[p].amount \in Nat
  BY DEF TypeOK, PaymentRows
<1>2. /\ e.type = type /\ e.direction = direction
      /\ e.fund = payment[p].fund /\ e.amount = payment[p].amount
  BY DEF Entry
<1>3. Cash!IsEntry(e) /\ Cash!MovesCash(e)
  BY <1>1, <1>2 DEF Cash!IsEntry, Cash!MovesCash, Cash!CashTypes
<1>4. balance[e.fund] \in Int
  BY <1>1, <1>2 DEF TypeOK
<1>5. balance' = [balance EXCEPT ![e.fund] = @ + Cash!SignedAmount(e)]
  <2>1. CASE direction = "CREDIT"
    BY <1>2, <2>1 DEF Cash!SignedAmount
  <2>2. CASE direction # "CREDIT"
    <3>1. Cash!SignedAmount(e) = -payment[p].amount
      BY <1>2, <2>2 DEF Cash!SignedAmount
    <3>2. balance[e.fund] - payment[p].amount = balance[e.fund] + (-payment[p].amount)
      BY <1>1, <1>4
    <3> QED
      BY <1>2, <2>2, <3>1, <3>2
  <2> QED
    BY <2>1, <2>2
<1>6. e \in ledger' \ ledger /\ ledger' = ledger \cup {e}
  OBVIOUS
<1> QED
  BY <1>3, <1>5, <1>6 DEF Cash!PostCash

LEMMA ApprovePosts ==
  ASSUME TypeOK, EntriesDecided, NEW p \in Payments, NEW shares, Approve(p, shares)
  PROVE  Cash!PostCash /\ EntriesDecided'
<1> DEFINE e == Entry("PAYMENT", "CREDIT", p, payment[p].fund, payment[p].amount)
<1>1. /\ payment[p].status = "PENDING_APPROVAL"
      /\ ledger' = ledger \cup {e}
      /\ balance' = [balance EXCEPT ![payment[p].fund] = @ + payment[p].amount]
  BY DEF Approve
<1>2. /\ payment'[p].status = "APPROVED"
      /\ \A q \in Payments : q # p => payment'[q] = payment[q]
  BY DEF Approve, TypeOK, PaymentRows
<1>3. e.type = "PAYMENT" /\ e.ref = p
  BY DEF Entry
<1>4. \A x \in ledger : x.type \in {"PAYMENT", "REVERSAL"} => x.ref # p
  BY <1>1 DEF EntriesDecided
<1>5. e \notin ledger
  BY <1>3, <1>4
<1>6. Cash!PostCash
  BY <1>1, <1>5, CashPosted
<1>7. EntriesDecided'
  BY <1>1, <1>2, <1>3, <1>4 DEF EntriesDecided
<1> QED
  BY <1>6, <1>7

LEMMA ReversePosts ==
  ASSUME TypeOK, EntriesDecided, NEW p \in Payments, ReversePayment(p)
  PROVE  Cash!PostCash /\ EntriesDecided'
<1> DEFINE e == Entry("REVERSAL", "DEBIT", p, payment[p].fund, payment[p].amount)
<1>1. /\ payment[p].status = "APPROVED"
      /\ ledger' = ledger \cup {e}
      /\ balance' = [balance EXCEPT ![payment[p].fund] = @ - payment[p].amount]
  BY DEF ReversePayment
<1>2. /\ payment'[p].status = "REVERSED"
      /\ \A q \in Payments : q # p => payment'[q] = payment[q]
  BY DEF ReversePayment, TypeOK, PaymentRows
<1>3. e.type = "REVERSAL" /\ e.ref = p
  BY DEF Entry
<1>4. \A x \in ledger : x.type = "REVERSAL" => x.ref # p
  BY <1>1 DEF EntriesDecided
<1>5. e \notin ledger
  BY <1>3, <1>4
<1>6. Cash!PostCash
  BY <1>1, <1>5, CashPosted
<1>7. EntriesDecided'
  BY <1>1, <1>2, <1>3, <1>4 DEF EntriesDecided
<1> QED
  BY <1>6, <1>7

\* A step that touches neither the ledger nor a balance, and sends no decided
\* payment back.
LEMMA QuietStep ==
  ASSUME EntriesDecided, UNCHANGED <<ledger, balance>>,
         \A q \in Payments :
             payment[q].status \in {"APPROVED", "REVERSED"} =>
                 payment'[q].status = payment[q].status
  PROVE  EntriesDecided'
BY DEF EntriesDecided

\* So is a step that changes only a payment nobody has decided.
LEMMA QuietPayment ==
  ASSUME EntriesDecided, NEW p \in Payments, UNCHANGED <<ledger, balance>>,
         payment[p].status \in {"NONE", "PENDING_APPROVAL"},
         \A q \in Payments : q # p => payment'[q] = payment[q]
  PROVE  EntriesDecided'
BY QuietStep

\* A new payment row has decided nothing.
LEMMA QuietInsert ==
  ASSUME TypeOK, EntriesDecided, NEW p \in Payments, NEW u, NEW f, NEW mode,
         NEW STATE a, InsertPayment(p, mode, u, f, a), UNCHANGED <<ledger, balance>>
  PROVE  EntriesDecided'
<1>1. \A q \in Payments : q # p => payment'[q] = payment[q]
  BY DEF InsertPayment, TypeOK
<1>2. payment[p].status \in {"NONE", "PENDING_APPROVAL"}
  BY DEF InsertPayment
<1> QED
  BY <1>1, <1>2, QuietPayment

\* Every step of UnitFinance is a step of the abstract ledger or leaves it alone.
LEMMA LedgerStep ==
  Settled /\ EntriesDecided /\ [Next]_vars =>
      [Cash!Next]_<<ledger, balance>> /\ EntriesDecided'
<1> SUFFICES ASSUME Settled, EntriesDecided, [Next]_vars
             PROVE  (Cash!PostReceivable \/ Cash!PostCash \/ UNCHANGED <<ledger, balance>>)
                    /\ EntriesDecided'
  BY DEF Cash!Next
<1> USE DEF Settled
<1>1. CASE UNCHANGED <<ledger, balance, payment>>
  BY <1>1, QuietStep
<1>2. ASSUME NEW new, Posts(new), UNCHANGED payment
      PROVE  Cash!PostReceivable /\ EntriesDecided'
  BY <1>2, PostsReceivable, PostsNoDecision
<1>3. ASSUME NEW b \in Batches, IssueChargeBatch(b)
      PROVE  Cash!PostReceivable /\ EntriesDecided'
  <2>1. UNCHANGED payment
    BY <1>3 DEF IssueChargeBatch
  <2> QED
    BY <1>2, <1>3, <2>1, IssuePosts
<1>4. ASSUME NEW p \in Payments, NEW u \in Units, NEW f \in Funds, NEW a \in Amounts,
             NEW m \in ManualFlags, CreatePayment(p, u, f, a, m)
      PROVE  UNCHANGED <<ledger, balance>> /\ EntriesDecided'
  <2>1. UNCHANGED <<ledger, balance>>
    BY <1>4 DEF CreatePayment
  <2>2. InsertPayment(p, "LEGACY_AUTOMATIC", u, f, a)
    BY <1>4 DEF CreatePayment
  <2> QED
    BY <2>1, <2>2, QuietInsert
<1>5. ASSUME NEW p \in Payments, NEW u \in Units, NEW S, CreateExplicitPayment(p, u, S)
      PROVE  UNCHANGED <<ledger, balance>> /\ EntriesDecided'
  <2>1. UNCHANGED <<ledger, balance>>
    BY <1>5 DEF CreateExplicitPayment, ReserveObligations
  <2>2. payment[p].status = "NONE" /\ \A q \in Payments : q # p => payment'[q] = payment[q]
    BY <1>5 DEF CreateExplicitPayment, ReserveObligations, InsertPayment, TypeOK
  <2> QED
    BY <2>1, <2>2, QuietPayment
<1>6. ASSUME NEW p \in Payments, RejectPayment(p)
      PROVE  UNCHANGED <<ledger, balance>> /\ EntriesDecided'
  <2>1. UNCHANGED <<ledger, balance>>
    BY <1>6 DEF RejectPayment, RejectAndRelease
  <2>2. payment[p].status = "PENDING_APPROVAL"
        /\ \A q \in Payments : q # p => payment'[q] = payment[q]
    BY <1>6 DEF RejectPayment, RejectAndRelease, TypeOK
  <2> QED
    BY <2>1, <2>2, QuietPayment
<1>7. ASSUME NEW p \in Payments, ApproveExplicit(p) \/ ApproveAutomatic(p)
      PROVE  Cash!PostCash /\ EntriesDecided'
  BY <1>7, ApprovePosts DEF ApproveExplicit, ApproveAutomatic
<1>8. ASSUME NEW p \in Payments, ReversePayment(p)
      PROVE  Cash!PostCash /\ EntriesDecided'
  BY <1>8, ReversePosts
<1>9. ASSUME NEW o \in Adjustments, NEW f \in Funds, NEW a \in AdjustAmounts,
             CreateAdjustment(o, f, a)
      PROVE  Cash!PostReceivable /\ EntriesDecided'
  <2>1. a \in Int
    BY AmountAssumption
  <2>2. /\ ledger' = ledger \cup {AdjustmentEntry(o, f, a)}
        /\ UNCHANGED <<balance, payment>>
    BY <1>9 DEF CreateAdjustment, RecordAdjustment
  <2> QED
    BY <1>2, <2>1, <2>2, AdjustmentPosted
<1>10. ASSUME NEW r \in FeeRequests, NEW o \in Adjustments, ApplyLateFee(r, o)
       PROVE  Cash!PostReceivable /\ EntriesDecided'
  <2> DEFINE b == batch[feeCheck[r][2]]
  <2>1. feeCheck[r] \in Items
    BY <1>10 DEF TypeOK, ApplyLateFee
  <2>2. b.fund \in Funds /\ b.lateFee \in Int
    BY <2>1, ObligationNames DEF TypeOK, BatchRows
  <2>3. /\ ledger' = ledger \cup {AdjustmentEntry(o, b.fund, b.lateFee)}
        /\ UNCHANGED <<balance, payment>>
    BY <1>10 DEF ApplyLateFee
  <2> HIDE DEF b
  <2> QED
    BY <1>2, <2>2, <2>3, AdjustmentPosted
<1>11. ASSUME NEW o \in Adjustments, NEW f \in Funds, NEW t \in OpeningTargets,
              CorrectOpeningBalance(o, f, t)
       PROVE  Cash!PostReceivable /\ EntriesDecided'
  <2> DEFINE delta == t - OpeningBalance(o[3])
  <2>1. delta \in Int
    BY OpeningBalanceType, AmountAssumption
  <2>2. /\ ledger' = ledger \cup {AdjustmentEntry(o, f, delta)}
        /\ UNCHANGED <<balance, payment>>
    BY <1>11 DEF CorrectOpeningBalance
  <2> HIDE DEF delta
  <2> QED
    BY <1>2, <2>1, <2>2, AdjustmentPosted
<1>12. ASSUME \/ \E f \in ClosableFunds : SetFundActive(f)
              \/ \E b \in Batches, r \in ChargeRequests : CreateChargeBatch(b, r)
              \/ \E b \in Batches : CancelChargeBatch(b)
              \/ \E r \in FeeRequests, item \in Items : CheckLateFee(r, item)
              \/ \E r \in FeeRequests : RefuseLateFee(r)
              \/ UNCHANGED vars
       PROVE  UNCHANGED <<ledger, balance, payment>>
  BY <1>12 DEF SetFundActive, CreateChargeBatch, CancelChargeBatch, CheckLateFee,
               RefuseLateFee, tables, vars
<1> QED
  BY <1>1, <1>3, <1>4, <1>5, <1>6, <1>7, <1>8, <1>9, <1>10, <1>11, <1>12 DEF Next

\* The receivables implement the abstract ledger: entries are only added, no
\* cash entry is posted twice, and each moves its fund by its amount.
THEOREM LedgerRefinement == Spec => ImplementsFundLedger
<1>1. Init => Cash!Init /\ EntriesDecided
  BY DEF Init, Cash!Init, EntriesDecided
<1>2. Settled /\ EntriesDecided /\ [Next]_vars =>
          [Cash!Next]_<<ledger, balance>> /\ EntriesDecided'
  BY LedgerStep
<1> QED
  BY <1>1, <1>2, SettledAlways, PTL DEF Spec, ImplementsFundLedger, Cash!Spec

Replay == INSTANCE FundLedgerProofs

\* Whatever charges, payments, reversals and corrections ran, replaying the
\* ledger's cash entries rebuilds every fund's balance.
THEOREM BalancesReplay == Spec => []BalanceIsLedgerReplay
<1>1. Cash!Init => Replay!Init
  BY DEF Cash!Init, Replay!Init
<1>2. [Cash!Next]_<<ledger, balance>> => [Replay!Next]_<<ledger, balance>>
  BY DEF Cash!Next, Replay!Next, Cash!PostReceivable, Replay!PostReceivable,
         Cash!PostCash, Replay!PostCash, Cash!IsEntry, Replay!IsEntry,
         Cash!MovesCash, Replay!MovesCash, Cash!CashTypes, Replay!CashTypes,
         Cash!SignedAmount, Replay!SignedAmount,
         Cash!IsFiniteSet, Replay!IsFiniteSet
<1>3. Replay!BalanceIsReplay => BalanceIsLedgerReplay
  BY DEF BalanceIsLedgerReplay, Cash!BalanceIsReplay, Replay!BalanceIsReplay,
         Cash!CashEntries, Replay!CashEntries, Cash!EntryAmount, Replay!EntryAmount,
         Cash!MovesCash, Replay!MovesCash, Cash!CashTypes, Replay!CashTypes,
         Cash!Total, Replay!Total, Cash!AllRials, Replay!AllRials,
         Cash!Rials, Replay!Rials, Cash!Cardinality, Replay!Cardinality
<1>4. Replay!Spec => []Replay!BalanceIsReplay
  BY Replay!LedgerReplay
<1> QED
  BY <1>1, <1>2, <1>3, <1>4, LedgerRefinement, PTL
     DEF ImplementsFundLedger, Cash!Spec, Replay!Spec

-----------------------------------------------------------------------------
(* Every paid rial has one origin.  Issuing a batch adds to paidAmount what *)
(* it takes from credit, so its entry must be the first the batch's items  *)
(* get: credit entries exist only for batches that were issued.            *)

Approved == {p \in Payments : payment[p].status = "APPROVED"}
AllocationsOf(o) == [p \in Payments |-> alloc[p][o]]

FromPayments(o) == Total(Approved, AllocationsOf(o))
FromCredit(o) == Total(CreditAppliedTo(o), EntryAmount)

CreditEntriesIssued ==
    /\ \A e \in ledger : e.type = "CREDIT_APPLIED" =>
           e.ref \in Items /\ batch[e.ref[2]].status \notin {"NONE", "DRAFT"}
    /\ \A o \in Obligations : FromCredit(o) \in Nat

Explained == PaidExplained /\ CreditEntriesIssued

LEMMA ApprovedFinite == IsFiniteSet(Approved)
BY FiniteAssumption, FS_Subset DEF Approved

\* What a payment that is not approved had allocated counts for nothing.
LEMMA SameFromPayments ==
  ASSUME NEW o, \A p \in Payments :
             /\ payment[p].status = "APPROVED" <=> payment'[p].status = "APPROVED"
             /\ payment[p].status = "APPROVED" => alloc'[p][o] = alloc[p][o]
  PROVE  FromPayments(o)' = FromPayments(o)
<1>1. Approved' = Approved
  BY DEF Approved
<1>2. \A p \in Approved : AllocationsOf(o)'[p] = AllocationsOf(o)[p]
  BY DEF Approved, AllocationsOf
<1>3. Total(Approved, AllocationsOf(o)') = Total(Approved, AllocationsOf(o))
  BY <1>2, TotalSame
<1> QED
  BY <1>1, <1>3 DEF FromPayments

\* The credit applied to an obligation depends on its own entries only.
LEMMA SameFromCredit ==
  ASSUME NEW o, ledger \subseteq ledger',
         \A e \in ledger' : e.type = "CREDIT_APPLIED" /\ e.ref = o => e \in ledger
  PROVE  FromCredit(o)' = FromCredit(o)
<1>1. CreditAppliedTo(o)' = CreditAppliedTo(o)
  BY DEF CreditAppliedTo
<1>2. \A e \in CreditAppliedTo(o) : EntryAmount'[e] = EntryAmount[e]
  BY DEF CreditAppliedTo, EntryAmount
<1>3. Total(CreditAppliedTo(o), EntryAmount') = Total(CreditAppliedTo(o), EntryAmount)
  BY <1>2, TotalSame
<1> QED
  BY <1>1, <1>3 DEF FromCredit

\* No new credit entry, and no issued batch goes back to draft.
CreditEntriesKept ==
    /\ ledger \subseteq ledger'
    /\ \A e \in ledger' : e.type = "CREDIT_APPLIED" => e \in ledger
    /\ \A b \in Batches : batch[b].status \notin {"NONE", "DRAFT"} =>
           batch'[b].status \notin {"NONE", "DRAFT"}

LEMMA CreditKept ==
  ASSUME CreditEntriesIssued, CreditEntriesKept
  PROVE  /\ CreditEntriesIssued'
         /\ \A o \in Obligations : FromCredit(o)' = FromCredit(o)
<1>1. ASSUME NEW o
      PROVE  FromCredit(o)' = FromCredit(o)
  BY SameFromCredit DEF CreditEntriesKept
<1>2. ASSUME NEW e \in ledger', e.type = "CREDIT_APPLIED"
      PROVE  e.ref \in Items /\ batch'[e.ref[2]].status \notin {"NONE", "DRAFT"}
  BY <1>2, ObligationNames DEF CreditEntriesKept, CreditEntriesIssued
<1> QED
  BY <1>1, <1>2 DEF CreditEntriesIssued

\* A step that decides no payment: what is paid more is written off.
LEMMA ExplainedUndecided ==
  ASSUME Settled, Explained, CreditEntriesKept,
         \A p \in Payments :
             /\ payment[p].status = "APPROVED" <=> payment'[p].status = "APPROVED"
             /\ payment[p].status = "APPROVED" => alloc'[p] = alloc[p],
         NEW shares \in [Obligations -> Nat],
         \A o \in Obligations : /\ paid'[o] = paid[o] + shares[o]
                                /\ waived'[o] = waived[o] + shares[o]
  PROVE  Explained'
<1> SUFFICES ASSUME NEW o \in Obligations
             PROVE  paid'[o] = FromPayments(o)' + FromCredit(o)' + waived'[o]
  BY CreditKept DEF Explained, PaidExplained, FromPayments, FromCredit, Approved, AllocationsOf
<1>1. FromPayments(o)' = FromPayments(o)
  BY SameFromPayments
<1>2. FromCredit(o)' = FromCredit(o)
  BY CreditKept DEF Explained
<1>3. paid[o] = FromPayments(o) + FromCredit(o) + waived[o]
  BY DEF Explained, PaidExplained, FromPayments, FromCredit, Approved, AllocationsOf
<1>4. FromPayments(o) \in Nat
  <2>1. \A p \in Approved : AllocationsOf(o)[p] \in Int
    BY DEF Settled, TypeOK, Approved, AllocationsOf
  <2> QED
    BY <2>1, ApprovedFinite, TotalType DEF FromPayments
<1>5. FromCredit(o) \in Nat /\ waived[o] \in Nat /\ shares[o] \in Nat
  BY DEF Explained, CreditEntriesIssued, Settled, TypeOK
<1> QED
  BY <1>1, <1>2, <1>3, <1>4, <1>5

\* So does one that pays and writes off nothing.
LEMMA ExplainedQuiet ==
  ASSUME Settled, Explained, CreditEntriesKept, UNCHANGED <<paid, waived>>,
         \A p \in Payments :
             /\ payment[p].status = "APPROVED" <=> payment'[p].status = "APPROVED"
             /\ payment[p].status = "APPROVED" => alloc'[p] = alloc[p]
  PROVE  Explained'
<1> DEFINE none == [o \in Obligations |-> 0]
<1>1. none \in [Obligations -> Nat]
  OBVIOUS
<1>2. \A o \in Obligations : /\ paid'[o] = paid[o] + none[o]
                             /\ waived'[o] = waived[o] + none[o]
  BY DEF Settled, TypeOK
<1> HIDE DEF none
<1> QED
  BY <1>1, <1>2, ExplainedUndecided


\* What approved payments allocated to an obligation, as a number.
LEMMA FromPaymentsType ==
  ASSUME TypeOK, NEW o \in Obligations
  PROVE  /\ \A p \in Payments : AllocationsOf(o)[p] = alloc[p][o] /\ alloc[p][o] \in Nat
         /\ FromPayments(o) \in Nat
<1>1. \A p \in Payments : AllocationsOf(o)[p] = alloc[p][o] /\ alloc[p][o] \in Nat
  BY DEF TypeOK, AllocationsOf
<1>2. \A p \in Approved : AllocationsOf(o)[p] \in Int
  BY <1>1 DEF Approved
<1> QED
  BY <1>1, <1>2, ApprovedFinite, TotalType DEF FromPayments

LEMMA ExplainedAt ==
  ASSUME PaidExplained, NEW o \in Obligations
  PROVE  paid[o] = FromPayments(o) + FromCredit(o) + waived[o]
BY DEF PaidExplained, FromPayments, FromCredit, Approved, AllocationsOf

\* An approval allocates exactly what it adds to paidAmount.
LEMMA ExplainedApprove ==
  ASSUME Settled, Explained, NEW p \in Payments, NEW shares \in [Obligations -> Nat],
         Approve(p, shares), UNCHANGED <<batch, waived>>
  PROVE  Explained'
<1>1. /\ payment[p].status = "PENDING_APPROVAL" /\ payment'[p].status = "APPROVED"
      /\ alloc'[p] = shares
      /\ \A q \in Payments : q # p => payment'[q] = payment[q] /\ alloc'[q] = alloc[q]
  BY DEF Settled, TypeOK, Approve, PaymentRows
<1>2. CreditEntriesKept
  BY DEF Approve, Entry, CreditEntriesKept
<1>3. Approved' = Approved \cup {p} /\ p \notin Approved
  BY <1>1 DEF Approved
<1>4. ASSUME NEW o \in Obligations
      PROVE  paid'[o] = FromPayments(o)' + FromCredit(o)' + waived'[o]
  <2> DEFINE was == AllocationsOf(o)
             now == [q \in Payments |-> alloc'[q][o]]
  <2>1. /\ \A q \in Approved : now[q] = was[q] /\ was[q] \in Nat
        /\ now[p] = shares[o]
    BY <1>1, <1>3, FromPaymentsType DEF Approved, Settled
  <2>2. Total(Approved, now) = FromPayments(o)
    BY <2>1, TotalSame DEF FromPayments
  <2>3. Total(Approved \cup {p}, now) = Total(Approved, now) + AtLeastZero(now[p])
    <3>1. \A q \in Approved : now[q] \in Int
      BY <2>1
    <3>2. now[p] \in Int
      BY <2>1
    <3> HIDE DEF now
    <3> QED
      BY <1>3, <3>1, <3>2, ApprovedFinite, TotalAdd
  <2>4. FromPayments(o)' = Total(Approved', now)
    BY DEF FromPayments, AllocationsOf
  <2>5. AtLeastZero(shares[o]) = shares[o] /\ shares[o] \in Nat
    BY DEF AtLeastZero
  <2>6. FromPayments(o)' = FromPayments(o) + shares[o]
    BY <1>3, <2>1, <2>2, <2>3, <2>4, <2>5
  <2>7. paid'[o] = paid[o] + shares[o]
    BY DEF Approve, WritePaid, AddedTo
  <2>8. paid[o] = FromPayments(o) + FromCredit(o) + waived[o]
    BY ExplainedAt DEF Explained
  <2>9. FromCredit(o)' = FromCredit(o)
    BY <1>2, CreditKept DEF Explained
  <2>10. FromPayments(o) \in Nat /\ FromCredit(o) \in Nat /\ waived[o] \in Nat
    BY FromPaymentsType DEF Settled, TypeOK, Explained, CreditEntriesIssued
  <2> HIDE DEF was, now
  <2> QED
    BY <2>5, <2>6, <2>7, <2>8, <2>9, <2>10
<1>5. PaidExplained'
  BY <1>4 DEF PaidExplained, FromPayments, FromCredit, Approved, AllocationsOf
<1> QED
  BY <1>2, <1>5, CreditKept DEF Explained

\* What an approved payment allocated is still there to be taken back.
LEMMA AllocationStillPaid ==
  ASSUME Settled, Explained, NEW p \in Payments, payment[p].status = "APPROVED",
         NEW o \in Obligations
  PROVE  /\ alloc[p][o] <= paid[o]
         /\ FromPayments(o) = Total(Approved \ {p}, AllocationsOf(o)) + alloc[p][o]
<1>1. p \in Approved
  BY DEF Approved
<1>2. /\ \A q \in Approved : AllocationsOf(o)[q] \in Int
      /\ AllocationsOf(o)[p] = alloc[p][o] /\ alloc[p][o] \in Nat
  BY FromPaymentsType DEF Settled, Approved
<1>3. /\ Total(Approved \ {p}, AllocationsOf(o)) \in Nat
      /\ Total(Approved, AllocationsOf(o))
            = Total(Approved \ {p}, AllocationsOf(o)) + AtLeastZero(AllocationsOf(o)[p])
  BY <1>1, <1>2, ApprovedFinite, TotalWithout
<1>4. AtLeastZero(AllocationsOf(o)[p]) = alloc[p][o]
  BY <1>2 DEF AtLeastZero
<1>5. FromPayments(o) = Total(Approved \ {p}, AllocationsOf(o)) + alloc[p][o]
  BY <1>3, <1>4 DEF FromPayments
<1>6. paid[o] = FromPayments(o) + FromCredit(o) + waived[o]
  BY ExplainedAt DEF Explained
<1>7. FromCredit(o) \in Nat /\ waived[o] \in Nat
  BY DEF Settled, TypeOK, Explained, CreditEntriesIssued
<1>8. alloc[p][o] <= paid[o]
  BY <1>2, <1>3, <1>5, <1>6, <1>7
<1> QED
  BY <1>5, <1>8

\* So the Math.max(0, ...) of a reversal never cuts anything off.
LEMMA ReversedInFull ==
  ASSUME Settled, Explained, NEW p \in Payments, ReversePayment(p)
  PROVE  \A o \in Obligations : paid'[o] = paid[o] - alloc[p][o]
<1> SUFFICES ASSUME NEW o \in Obligations
             PROVE  paid'[o] = paid[o] - alloc[p][o]
  OBVIOUS
<1>1. alloc[p][o] <= paid[o]
  BY AllocationStillPaid DEF ReversePayment
<1>2. paid[o] \in Nat /\ alloc[p][o] \in Nat
  BY DEF Settled, TypeOK
<1>3. paid'[o] = IF alloc[p][o] > 0 THEN Max0(paid[o] - alloc[p][o]) ELSE paid[o]
  BY DEF ReversePayment, WritePaid, Reopened
<1> QED
  BY <1>1, <1>2, <1>3 DEF Max0, AtLeastZero

LEMMA ExplainedReverse ==
  ASSUME Settled, Explained, NEW p \in Payments, ReversePayment(p)
  PROVE  Explained'
<1>1. /\ payment[p].status = "APPROVED" /\ payment'[p].status = "REVERSED"
      /\ \A q \in Payments : q # p => payment'[q] = payment[q]
      /\ UNCHANGED <<alloc, waived>>
  BY DEF Settled, TypeOK, ReversePayment, PaymentRows
<1>2. CreditEntriesKept
  BY DEF ReversePayment, Entry, CreditEntriesKept
<1>3. Approved' = Approved \ {p}
  BY <1>1 DEF Approved
<1>4. ASSUME NEW o \in Obligations
      PROVE  paid'[o] = FromPayments(o)' + FromCredit(o)' + waived'[o]
  <2>1. FromPayments(o)' = Total(Approved \ {p}, AllocationsOf(o))
    BY <1>1, <1>3 DEF FromPayments, AllocationsOf
  <2>2. FromPayments(o) = Total(Approved \ {p}, AllocationsOf(o)) + alloc[p][o]
    BY <1>1, AllocationStillPaid
  <2>3. Total(Approved \ {p}, AllocationsOf(o)) \in Nat
    <3>1. \A q \in Approved \ {p} : AllocationsOf(o)[q] \in Int
      BY FromPaymentsType DEF Approved, Settled
    <3>2. IsFiniteSet(Approved \ {p})
      BY ApprovedFinite, FS_Subset
    <3> QED
      BY <3>1, <3>2, TotalType
  <2>4. FromCredit(o)' = FromCredit(o)
    BY <1>2, CreditKept DEF Explained
  <2>5. paid[o] = FromPayments(o) + FromCredit(o) + waived[o]
    BY ExplainedAt DEF Explained
  <2>6. paid'[o] = paid[o] - alloc[p][o]
    BY ReversedInFull
  <2>7. /\ FromCredit(o) \in Nat /\ waived[o] \in Nat /\ alloc[p][o] \in Nat
        /\ waived'[o] = waived[o]
    BY <1>1 DEF Settled, TypeOK, Explained, CreditEntriesIssued
  <2> QED
    BY <2>1, <2>2, <2>3, <2>4, <2>5, <2>6, <2>7
<1>5. PaidExplained'
  BY <1>4 DEF PaidExplained, FromPayments, FromCredit, Approved, AllocationsOf
<1> QED
  BY <1>2, <1>5, CreditKept DEF Explained


\* The entries an issue posts, by obligation.
LEMMA IssueEntries ==
  ASSUME Settled, NEW b \in Batches, IssueChargeBatch(b),
         NEW e \in ledger' \ ledger, e.type = "CREDIT_APPLIED"
  PROVE  \E u \in Units : /\ e.ref = ItemOf(b, u) /\ CreditApplied(b, u) > 0
                          /\ e = Entry("CREDIT_APPLIED", "CREDIT", ItemOf(b, u),
                                       batch[b].fund, CreditApplied(b, u))
<1> DEFINE applied == [u \in Units |-> CreditApplied(b, u)]
           ce(u) == Entry("CREDIT_APPLIED", "CREDIT", ItemOf(b, u), batch[b].fund, applied[u])
           charge == Entry("CHARGE", "DEBIT", <<"CHARGE_BATCH", b>>, batch[b].fund,
                           Total({ItemOf(b, u) : u \in Units}, amount))
<1>1. ledger' = ledger \cup {ce(u) : u \in {v \in Units : applied[v] > 0}} \cup {charge}
  BY DEF IssueChargeBatch
<1>2. e # charge
  BY DEF Entry
<1>3. PICK u \in {v \in Units : applied[v] > 0} : e = ce(u)
  <2> HIDE DEF ce, charge, applied
  <2> QED
    BY <1>1, <1>2
<1>4. applied[u] = CreditApplied(b, u) /\ CreditApplied(b, u) > 0 /\ u \in Units
  BY <1>3
<1>5. e.ref = ItemOf(b, u)
  BY <1>3 DEF Entry
<1> QED
  BY <1>3, <1>4, <1>5

\* An issue applies credit once: the batch's items have no credit entry yet.
LEMMA IssueCredit ==
  ASSUME Settled, Explained, NEW b \in Batches, IssueChargeBatch(b), NEW u \in Units
  PROVE  /\ CreditApplied(b, u) \in Nat
         /\ FromCredit(ItemOf(b, u)) = 0
         /\ FromCredit(ItemOf(b, u))' = CreditApplied(b, u)
<1> DEFINE o == ItemOf(b, u)
           c == CreditApplied(b, u)
           e == Entry("CREDIT_APPLIED", "CREDIT", o, batch[b].fund, c)
<1>1. o \in Items /\ o \in Obligations /\ o[2] = b
  BY ObligationNames DEF ItemOf
<1>2. c \in Nat
  <2>1. Outstanding[o] = amount[o] - paid[o]
    BY <1>1 DEF Outstanding
  <2>2. /\ credit[u] \in Nat /\ amount[o] \in Int /\ paid[o] \in Nat /\ paid[o] <= amount[o]
    BY <1>1 DEF Settled, TypeOK, ItemsSettleOnlyWhenIssued
  <2> QED
    BY <2>1, <2>2 DEF CreditApplied, Lesser
<1>3. CreditAppliedTo(o) = {}
  <2>1. batch[o[2]].status = "DRAFT"
    BY <1>1 DEF IssueChargeBatch
  <2> QED
    BY <2>1 DEF CreditAppliedTo, Explained, CreditEntriesIssued
<1>4. FromCredit(o) = 0
  BY <1>3, TotalEmpty DEF FromCredit
<1>5. CreditAppliedTo(o)' = IF c > 0 THEN {e} ELSE {}
  <2>1. ASSUME NEW x \in ledger', x.type = "CREDIT_APPLIED", x.ref = o
        PROVE  c > 0 /\ x = e
    <3>1. x \notin ledger
      BY <1>3, <2>1 DEF CreditAppliedTo
    <3>2. PICK v \in Units : /\ x.ref = ItemOf(b, v) /\ CreditApplied(b, v) > 0
                             /\ x = Entry("CREDIT_APPLIED", "CREDIT", ItemOf(b, v),
                                          batch[b].fund, CreditApplied(b, v))
      BY <2>1, <3>1, IssueEntries
    <3>3. v = u
      BY <2>1, <3>2 DEF ItemOf
    <3> QED
      BY <3>2, <3>3
  <2>2. ASSUME c > 0
        PROVE  e \in ledger'
    <3> DEFINE applied == [v \in Units |-> CreditApplied(b, v)]
               ce(v) == Entry("CREDIT_APPLIED", "CREDIT", ItemOf(b, v), batch[b].fund,
                              applied[v])
    <3>1. {ce(v) : v \in {w \in Units : applied[w] > 0}} \subseteq ledger'
      BY DEF IssueChargeBatch
    <3>2. u \in {w \in Units : applied[w] > 0} /\ e = ce(u)
      BY <2>2
    <3> HIDE DEF ce, applied, e
    <3> QED
      BY <3>1, <3>2
  <2>3. e.type = "CREDIT_APPLIED" /\ e.ref = o
    BY DEF Entry
  <2> HIDE DEF e, c, o
  <2> QED
    BY <2>1, <2>2, <2>3 DEF CreditAppliedTo
<1>6. CASE c > 0
  <2>1. e \in ledger' /\ CreditAppliedTo(o)' = {e}
    BY <1>5, <1>6 DEF CreditAppliedTo
  <2>2. EntryAmount'[e] = c
    <3>1. e.amount = c
      BY DEF Entry
    <3> QED
      BY <2>1, <3>1 DEF EntryAmount
  <2>3. /\ IsFiniteSet({}) /\ \A y \in {} : EntryAmount'[y] \in Int
        /\ e \notin {} /\ EntryAmount'[e] \in Int
    BY <1>2, <2>2, FS_EmptySet
  <2>4. Total({} \cup {e}, EntryAmount') = Total({}, EntryAmount') + AtLeastZero(EntryAmount'[e])
    <3> HIDE DEF e
    <3> QED
      BY <2>3, TotalAdd
  <2>5. Total({}, EntryAmount') = 0
    BY TotalEmpty
  <2>6. {} \cup {e} = {e}
    OBVIOUS
  <2>7. Total({e}, EntryAmount') = c
    BY <1>2, <2>2, <2>4, <2>5, <2>6 DEF AtLeastZero
  <2>8. FromCredit(o)' = Total(CreditAppliedTo(o)', EntryAmount')
    BY DEF FromCredit
  <2> QED
    BY <1>2, <1>4, <2>1, <2>7, <2>8
<1>7. CASE ~(c > 0)
  <2>1. CreditAppliedTo(o)' = {} /\ c = 0
    BY <1>2, <1>5, <1>7
  <2>2. FromCredit(o)' = Total({}, EntryAmount')
    BY <2>1 DEF FromCredit
  <2> QED
    BY <1>2, <1>4, <2>1, <2>2, TotalEmpty
<1> QED
  BY <1>6, <1>7

LEMMA ExplainedIssue ==
  ASSUME Settled, Explained, NEW b \in Batches, IssueChargeBatch(b)
  PROVE  Explained'
<1>1. /\ ledger \subseteq ledger'
      /\ batch'[b].status = "ISSUED"
      /\ \A c \in Batches : c # b => batch'[c] = batch[c]
      /\ UNCHANGED <<payment, alloc, waived>>
  BY DEF Settled, TypeOK, IssueChargeBatch, BatchRows
<1>2. ASSUME NEW o \in Obligations
      PROVE  /\ paid'[o] = FromPayments(o)' + FromCredit(o)' + waived'[o]
             /\ FromCredit(o)' \in Nat
  <2>1. FromPayments(o)' = FromPayments(o) /\ FromPayments(o) \in Nat
    BY <1>1, SameFromPayments, FromPaymentsType DEF Settled
  <2>2. paid[o] = FromPayments(o) + FromCredit(o) + waived[o]
    BY ExplainedAt DEF Explained
  <2>3. waived'[o] = waived[o] /\ waived[o] \in Nat /\ FromCredit(o) \in Nat
    BY <1>1 DEF Settled, TypeOK, Explained, CreditEntriesIssued
  <2>4. CASE o \in Items /\ o[2] = b
    <3>1. o[3] \in Units /\ o = ItemOf(b, o[3]) /\ o[1] = "CHARGE_ITEM"
      BY <2>4, ObligationNames
    <3>2. /\ CreditApplied(b, o[3]) \in Nat
          /\ FromCredit(o) = 0 /\ FromCredit(o)' = CreditApplied(b, o[3])
      BY <3>1, IssueCredit
    <3>3. paid'[o] = paid[o] + CreditApplied(b, o[3])
      BY <2>4, <3>1 DEF IssueChargeBatch, WritePaid
    <3> QED
      BY <2>1, <2>2, <2>3, <3>2, <3>3
  <2>5. CASE ~(o \in Items /\ o[2] = b)
    <3>1. paid'[o] = paid[o]
      BY <2>5, ObligationNames DEF IssueChargeBatch, WritePaid
    <3>2. \A e \in ledger' : e.type = "CREDIT_APPLIED" /\ e.ref = o => e \in ledger
      <4> SUFFICES ASSUME NEW e \in ledger', e.type = "CREDIT_APPLIED", e \notin ledger
                   PROVE  e.ref # o
        OBVIOUS
      <4>1. PICK u \in Units : e.ref = ItemOf(b, u)
        BY IssueEntries
      <4>2. ItemOf(b, u) \in Items /\ ItemOf(b, u)[2] = b
        BY ObligationNames DEF ItemOf
      <4> QED
        BY <2>5, <4>1, <4>2
    <3>3. FromCredit(o)' = FromCredit(o)
      BY <1>1, <3>2, SameFromCredit
    <3> QED
      BY <2>1, <2>2, <2>3, <3>1, <3>3
  <2> QED
    BY <2>4, <2>5
<1>3. ASSUME NEW e \in ledger', e.type = "CREDIT_APPLIED"
      PROVE  e.ref \in Items /\ batch'[e.ref[2]].status \notin {"NONE", "DRAFT"}
  <2>1. CASE e \in ledger
    <3>1. e.ref \in Items /\ batch[e.ref[2]].status \notin {"NONE", "DRAFT"}
      BY <1>3, <2>1 DEF Explained, CreditEntriesIssued
    <3> QED
      BY <1>1, <3>1, ObligationNames
  <2>2. CASE e \notin ledger
    <3>1. PICK u \in Units : e.ref = ItemOf(b, u)
      BY <1>3, <2>2, IssueEntries
    <3>2. e.ref \in Items /\ e.ref[2] = b
      BY <3>1, ObligationNames DEF ItemOf
    <3> QED
      BY <1>1, <3>2
  <2> QED
    BY <2>1, <2>2
<1> QED
  BY <1>2, <1>3
     DEF Explained, PaidExplained, CreditEntriesIssued, FromPayments, FromCredit, Approved,
         AllocationsOf


\* A write-off counts as waived what it adds to paidAmount.
LEMMA WriteOffShares ==
  ASSUME TypeOK, NEW S, NEW cash, WriteOff(S, cash)
  PROVE  /\ Shares(S, cash) \in [Obligations -> Nat]
         /\ \A o \in Obligations : /\ paid'[o] = paid[o] + Shares(S, cash)[o]
                                   /\ waived'[o] = waived[o] + Shares(S, cash)[o]
BY SharesBound DEF WriteOff, WritePaid, AddedTo

\* The steps that post nothing to credit and leave batches alone.
LEMMA EntriesKeptBy ==
  ASSUME NEW e, ledger' = ledger \cup {e}, e.type # "CREDIT_APPLIED", UNCHANGED batch
  PROVE  CreditEntriesKept
BY DEF CreditEntriesKept

LEMMA AdjustmentEntryType ==
  ASSUME NEW o, NEW f, NEW a
  PROVE  AdjustmentEntry(o, f, a).type = "ADJUSTMENT"
BY DEF AdjustmentEntry, Entry

LEMMA ExplainedWriteOff ==
  ASSUME Settled, Explained, CreditEntriesKept, UNCHANGED <<payment, alloc>>,
         (\E S, cash : WriteOff(S, cash)) \/ UNCHANGED <<paid, waived>>
  PROVE  Explained'
<1>1. ASSUME NEW S, NEW cash, WriteOff(S, cash)
      PROVE  Explained'
  <2>1. /\ Shares(S, cash) \in [Obligations -> Nat]
        /\ \A o \in Obligations : /\ paid'[o] = paid[o] + Shares(S, cash)[o]
                                  /\ waived'[o] = waived[o] + Shares(S, cash)[o]
    BY <1>1, WriteOffShares DEF Settled
  <2> QED
    BY <2>1, ExplainedUndecided
<1>2. CASE UNCHANGED <<paid, waived>>
  BY <1>2, ExplainedQuiet
<1> QED
  BY <1>1, <1>2

LEMMA ExplainedNext == Settled /\ Explained /\ [Next]_vars => Explained'
<1> SUFFICES ASSUME Settled, Explained, [Next]_vars
             PROVE  Explained'
  OBVIOUS
<1>1. CASE \/ \E f \in ClosableFunds : SetFundActive(f)
           \/ \E b \in Batches : CancelChargeBatch(b)
           \/ \E r \in FeeRequests, item \in Items : CheckLateFee(r, item)
           \/ \E r \in FeeRequests : RefuseLateFee(r)
           \/ UNCHANGED vars
  <2>1. UNCHANGED <<paid, waived, payment, alloc, ledger>>
    BY <1>1 DEF SetFundActive, CancelChargeBatch, CheckLateFee, RefuseLateFee, tables, vars
  <2>2. \A b \in Batches : batch[b].status \notin {"NONE", "DRAFT"} =>
            batch'[b].status \notin {"NONE", "DRAFT"}
    <3>1. ASSUME NEW c \in Batches, CancelChargeBatch(c), NEW b \in Batches
          PROVE  batch'[b] = batch[b] \/ batch'[b].status = "CANCELLED"
      BY <3>1 DEF CancelChargeBatch, Settled, TypeOK, BatchRows
    <3> QED
      BY <1>1, <3>1 DEF SetFundActive, CheckLateFee, RefuseLateFee, tables, vars
  <2>3. CreditEntriesKept
    BY <2>1, <2>2 DEF CreditEntriesKept
  <2> QED
    BY <2>1, <2>3, ExplainedQuiet
<1>2. ASSUME NEW b \in Batches, NEW r \in ChargeRequests, CreateChargeBatch(b, r)
      PROVE  Explained'
  <2>1. UNCHANGED <<paid, waived, payment, alloc, ledger>>
    BY <1>2 DEF CreateChargeBatch
  <2>2. \A c \in Batches : batch[c].status \notin {"NONE", "DRAFT"} => batch'[c] = batch[c]
    BY <1>2 DEF CreateChargeBatch, Settled, TypeOK
  <2>3. CreditEntriesKept
    BY <2>1, <2>2 DEF CreditEntriesKept
  <2> QED
    BY <2>1, <2>3, ExplainedQuiet
<1>3. ASSUME NEW b \in Batches, IssueChargeBatch(b)
      PROVE  Explained'
  BY <1>3, ExplainedIssue
<1>4. ASSUME NEW p \in Payments, payment[p].status \in {"NONE", "PENDING_APPROVAL"},
             payment'[p].status # "APPROVED",
             \A q \in Payments : q # p => payment'[q] = payment[q],
             UNCHANGED <<batch, paid, waived, alloc, ledger>>
      PROVE  Explained'
  <2>1. CreditEntriesKept
    BY <1>4 DEF CreditEntriesKept
  <2> QED
    BY <1>4, <2>1, ExplainedQuiet
<1>5. ASSUME NEW p \in Payments, NEW u \in Units, NEW f \in Funds, NEW a \in Amounts,
             NEW m \in ManualFlags, CreatePayment(p, u, f, a, m)
      PROVE  Explained'
  <2>1. /\ payment[p].status = "NONE" /\ payment'[p].status = "PENDING_APPROVAL"
        /\ \A q \in Payments : q # p => payment'[q] = payment[q]
        /\ UNCHANGED <<batch, paid, waived, alloc, ledger>>
    BY <1>5 DEF CreatePayment, InsertPayment, Settled, TypeOK
  <2> QED
    BY <1>4, <2>1
<1>6. ASSUME NEW p \in Payments, NEW u \in Units, NEW S, CreateExplicitPayment(p, u, S)
      PROVE  Explained'
  <2>1. /\ payment[p].status = "NONE" /\ payment'[p].status = "PENDING_APPROVAL"
        /\ \A q \in Payments : q # p => payment'[q] = payment[q]
        /\ UNCHANGED <<batch, paid, waived, alloc, ledger>>
    BY <1>6 DEF CreateExplicitPayment, ReserveObligations, InsertPayment, Settled, TypeOK
  <2> QED
    BY <1>4, <2>1
<1>7. ASSUME NEW p \in Payments, RejectPayment(p)
      PROVE  Explained'
  <2>1. /\ payment[p].status = "PENDING_APPROVAL" /\ payment'[p].status = "REJECTED"
        /\ \A q \in Payments : q # p => payment'[q] = payment[q]
        /\ UNCHANGED <<batch, paid, waived, alloc, ledger>>
    BY <1>7 DEF RejectPayment, RejectAndRelease, Settled, TypeOK, PaymentRows
  <2> QED
    BY <1>4, <2>1
<1>8. ASSUME NEW p \in Payments, ApproveExplicit(p)
      PROVE  Explained'
  <2> DEFINE shares == [o \in Obligations |-> IF o \in Selection(p) THEN selected[p][o] ELSE 0]
  <2>1. shares \in [Obligations -> Nat]
    BY DEF Settled, TypeOK
  <2>2. Approve(p, shares) /\ UNCHANGED <<batch, waived>>
    BY <1>8 DEF ApproveExplicit
  <2> HIDE DEF shares
  <2> QED
    BY <2>1, <2>2, ExplainedApprove
<1>9. ASSUME NEW p \in Payments, ApproveAutomatic(p)
      PROVE  Explained'
  <2> DEFINE shares == Shares(Debts(payment[p].unit), payment[p].amount)
  <2>1. shares \in [Obligations -> Nat]
    BY SharesBound DEF Settled
  <2>2. Approve(p, shares) /\ UNCHANGED <<batch, waived>>
    BY <1>9 DEF ApproveAutomatic
  <2> HIDE DEF shares
  <2> QED
    BY <2>1, <2>2, ExplainedApprove
<1>10. ASSUME NEW p \in Payments, ReversePayment(p)
       PROVE  Explained'
  BY <1>10, ExplainedReverse
<1>11. ASSUME NEW o \in Adjustments, NEW f \in Funds, NEW a \in AdjustAmounts,
              CreateAdjustment(o, f, a)
       PROVE  Explained'
  <2>1. CreditEntriesKept
    BY <1>11, EntriesKeptBy, AdjustmentEntryType DEF CreateAdjustment, RecordAdjustment
  <2>2. /\ WriteOff(OutstandingItems(o[3]), -a) \/ UNCHANGED <<paid, waived>>
        /\ UNCHANGED <<payment, alloc>>
    BY <1>11 DEF CreateAdjustment, RecordAdjustment
  <2> QED
    BY <2>1, <2>2, ExplainedWriteOff
<1>12. ASSUME NEW r \in FeeRequests, NEW o \in Adjustments, ApplyLateFee(r, o)
       PROVE  Explained'
  <2>1. CreditEntriesKept
    BY <1>12, EntriesKeptBy, AdjustmentEntryType DEF ApplyLateFee
  <2>2. UNCHANGED <<paid, waived, payment, alloc>>
    BY <1>12 DEF ApplyLateFee
  <2> QED
    BY <2>1, <2>2, ExplainedWriteOff
<1>13. ASSUME NEW o \in Adjustments, NEW f \in Funds, NEW t \in OpeningTargets,
              CorrectOpeningBalance(o, f, t)
       PROVE  Explained'
  <2> DEFINE delta == t - OpeningBalance(o[3])
             prior == {x \in Corrections(o[3]) : amount[x] > 0}
  <2>1. CreditEntriesKept
    BY <1>13, EntriesKeptBy, AdjustmentEntryType DEF CorrectOpeningBalance
  <2>2. /\ WriteOff(prior, -delta) \/ UNCHANGED <<paid, waived>>
        /\ UNCHANGED <<payment, alloc>>
    BY <1>13 DEF CorrectOpeningBalance
  <2> QED
    BY <2>1, <2>2, ExplainedWriteOff
<1> QED
  BY <1>1, <1>2, <1>3, <1>5, <1>6, <1>7, <1>8, <1>9, <1>10, <1>11, <1>12, <1>13 DEF Next

LEMMA ExplainedInit == Init => Explained
<1> SUFFICES ASSUME Init
             PROVE  Explained
  OBVIOUS
<1>1. ledger = {}
  BY DEF Init
<1>2. Approved = {}
  BY DEF Init, Approved, NoPayment
<1>3. ASSUME NEW o \in Obligations
      PROVE  /\ FromCredit(o) = 0 /\ FromPayments(o) = 0
             /\ paid[o] = 0 /\ waived[o] = 0
  <2>1. CreditAppliedTo(o) = {}
    BY <1>1 DEF CreditAppliedTo
  <2> QED
    BY <1>2, <2>1, TotalEmpty DEF Init, FromCredit, FromPayments
<1>4. \A o \in Obligations : paid[o] = FromPayments(o) + FromCredit(o) + waived[o]
  BY <1>3
<1>5. PaidExplained
  BY <1>4 DEF PaidExplained, FromPayments, FromCredit, Approved, AllocationsOf
<1>6. CreditEntriesIssued
  BY <1>1, <1>3 DEF CreditEntriesIssued
<1> QED
  BY <1>5, <1>6 DEF Explained

LEMMA ExplainedAlways == Spec => []Explained
BY ExplainedInit, ExplainedNext, SettledAlways, PTL DEF Spec

\* Every paid rial of an obligation was allocated by an approved payment, taken
\* from credit when its batch was issued, or written off.
THEOREM PaidIsExplained == Spec => []PaidExplained
<1>1. Explained => PaidExplained
  BY DEF Explained
<1> QED
  BY <1>1, ExplainedAlways, PTL


\* Only its reversal makes a payment reversed, and only an approval approves one.
LEMMA DecidedBy ==
  ASSUME Settled, [Next]_vars, NEW p \in Payments
  PROVE  /\ payment[p].status # "REVERSED" /\ payment'[p].status = "REVERSED"
                => ReversePayment(p)
         /\ payment[p].status # "APPROVED" /\ payment'[p].status = "APPROVED"
                => ApproveExplicit(p) \/ ApproveAutomatic(p)
<1> SUFFICES ASSUME payment'[p].status # payment[p].status,
                    payment'[p].status \in {"APPROVED", "REVERSED"}
             PROVE  \/ payment'[p].status = "REVERSED" /\ ReversePayment(p)
                    \/ /\ payment'[p].status = "APPROVED"
                       /\ ApproveExplicit(p) \/ ApproveAutomatic(p)
  OBVIOUS
<1> USE DEF Settled
<1>1. ASSUME NEW q \in Payments, NEW mode, NEW u, NEW f, NEW STATE a,
             InsertPayment(q, mode, u, f, a)
      PROVE  FALSE
  <2>1. payment'[p] = payment[p] \/ payment'[p].status = "PENDING_APPROVAL"
    BY <1>1 DEF InsertPayment, TypeOK
  <2> QED
    BY <2>1
<1>2. ASSUME NEW q \in Payments, RejectPayment(q)
      PROVE  FALSE
  <2>1. payment'[p] = payment[p] \/ payment'[p].status = "REJECTED"
    BY <1>2 DEF RejectPayment, RejectAndRelease, TypeOK, PaymentRows
  <2> QED
    BY <2>1
<1>3. ASSUME NEW q \in Payments, ApproveExplicit(q) \/ ApproveAutomatic(q)
      PROVE  q = p /\ payment'[p].status = "APPROVED"
  <2>1. \E shares : Approve(q, shares)
    BY <1>3 DEF ApproveExplicit, ApproveAutomatic
  <2>2. q # p => payment'[p] = payment[p]
    BY <2>1 DEF Approve, TypeOK
  <2>3. q = p => payment'[p].status = "APPROVED"
    BY <2>1 DEF Approve, TypeOK, PaymentRows
  <2> QED
    BY <2>2, <2>3
<1>4. ASSUME NEW q \in Payments, ReversePayment(q)
      PROVE  q = p /\ payment'[p].status = "REVERSED"
  BY <1>4 DEF ReversePayment, TypeOK, PaymentRows
<1>5. ASSUME UNCHANGED payment
      PROVE  FALSE
  BY <1>5
<1>6. ASSUME \/ \E f \in ClosableFunds : SetFundActive(f)
             \/ \E b \in Batches, r \in ChargeRequests : CreateChargeBatch(b, r)
             \/ \E b \in Batches : IssueChargeBatch(b) \/ CancelChargeBatch(b)
             \/ \E o \in Adjustments, f \in Funds, a \in AdjustAmounts : CreateAdjustment(o, f, a)
             \/ \E r \in FeeRequests, item \in Items : CheckLateFee(r, item)
             \/ \E r \in FeeRequests, o \in Adjustments : ApplyLateFee(r, o)
             \/ \E r \in FeeRequests : RefuseLateFee(r)
             \/ \E o \in Adjustments, f \in Funds, t \in OpeningTargets :
                    CorrectOpeningBalance(o, f, t)
             \/ UNCHANGED vars
      PROVE  UNCHANGED payment
  BY <1>6 DEF SetFundActive, CreateChargeBatch, IssueChargeBatch, CancelChargeBatch,
              CreateAdjustment, RecordAdjustment, CheckLateFee, ApplyLateFee, RefuseLateFee,
              CorrectOpeningBalance, tables, vars
<1>7. ASSUME NEW q \in Payments, NEW u \in Units, NEW f \in Funds, NEW a \in Amounts,
             NEW m \in ManualFlags, CreatePayment(q, u, f, a, m)
      PROVE  FALSE
  BY <1>1, <1>7 DEF CreatePayment
<1>8. ASSUME NEW q \in Payments, NEW u \in Units, NEW S, CreateExplicitPayment(q, u, S)
      PROVE  FALSE
  BY <1>1, <1>8 DEF CreateExplicitPayment, ReserveObligations
<1> QED
  BY <1>2, <1>3, <1>4, <1>5, <1>6, <1>7, <1>8 DEF Next

\* A reversal takes back, obligation by obligation, exactly what the payment had
\* allocated; the unit's credit does not move.
THEOREM ReversalsReopen == Spec => ReversalReopens
<1>1. Settled /\ Explained /\ [Next]_vars =>
        [\A p \in Payments :
            payment[p].status = "APPROVED" /\ payment'[p].status = "REVERSED" =>
                /\ credit' = credit
                /\ \A o \in Obligations : paid[o] - paid'[o] = alloc[p][o]]_vars
  <2> SUFFICES ASSUME Settled, Explained, [Next]_vars, NEW p \in Payments,
                      payment[p].status = "APPROVED", payment'[p].status = "REVERSED"
               PROVE  /\ credit' = credit
                      /\ \A o \in Obligations : paid[o] - paid'[o] = alloc[p][o]
    OBVIOUS
  <2>1. ReversePayment(p)
    BY DecidedBy
  <2>2. \A o \in Obligations : paid'[o] = paid[o] - alloc[p][o]
    BY <2>1, ReversedInFull
  <2>3. \A o \in Obligations : paid[o] \in Nat /\ alloc[p][o] \in Nat
    BY DEF Settled, TypeOK
  <2> QED
    BY <2>1, <2>2, <2>3 DEF ReversePayment
<1> QED
  BY <1>1, SettledAlways, ExplainedAlways, PTL DEF Spec, ReversalReopens


-----------------------------------------------------------------------------
(* Whose debts a payment settles, and how far an adjustment is paid.       *)

\* A payment holds and settles debts of its own unit only.
OwnUnitOnly ==
    \A p \in Payments, o \in Obligations :
        reservation[p][o] # "NONE" \/ alloc[p][o] > 0 => payment[p].unit = o[3]

\* A positive adjustment is never paid beyond its amount, a negative one and
\* the row of an adjustment that is not there never at all.
AdjustmentsWithin ==
    \A o \in Adjustments :
        /\ paid[o] <= AtLeastZero(amount[o])
        /\ adjustment[o].source = "NONE" => amount[o] = 0

\* No write pays an obligation more than is outstanding.
LEMMA WithinPaid ==
  ASSUME TypeOK, TypeOK', AdjustmentsWithin,
         \A o \in Adjustments :
             /\ amount'[o] = amount[o] /\ adjustment'[o] = adjustment[o]
             /\ paid'[o] <= paid[o] + AtLeastZero(amount[o] - paid[o])
  PROVE  AdjustmentsWithin'
<1> SUFFICES ASSUME NEW o \in Adjustments
             PROVE  /\ paid'[o] <= AtLeastZero(amount'[o])
                    /\ adjustment'[o].source = "NONE" => amount'[o] = 0
  BY DEF AdjustmentsWithin
<1>1. amount[o] \in Int /\ paid[o] \in Nat /\ paid'[o] \in Nat /\ amount'[o] = amount[o]
  BY ObligationNames DEF TypeOK
<1>2. paid[o] <= AtLeastZero(amount[o])
  BY DEF AdjustmentsWithin
<1>3. paid'[o] <= paid[o] + AtLeastZero(amount[o] - paid[o])
  OBVIOUS
<1>4. paid'[o] <= AtLeastZero(amount'[o])
  BY <1>1, <1>2, <1>3 DEF AtLeastZero
<1> QED
  BY <1>1, <1>4 DEF AdjustmentsWithin

LEMMA WithinInserted ==
  ASSUME TypeOK, TypeOK', AdjustmentsWithin, NEW o \in Adjustments, NEW source, NEW STATE item,
         NEW STATE f, NEW STATE a, source # "NONE", InsertAdjustment(o, source, item, f, a),
         paid'[o] = paid[o],
         \A x \in Adjustments : paid'[x] <= paid[x] + AtLeastZero(amount[x] - paid[x])
  PROVE  AdjustmentsWithin'
<1> SUFFICES ASSUME NEW x \in Adjustments
             PROVE  /\ paid'[x] <= AtLeastZero(amount'[x])
                    /\ adjustment'[x].source = "NONE" => amount'[x] = 0
  BY DEF AdjustmentsWithin
<1>1. /\ amount[x] \in Int /\ amount'[x] \in Int /\ paid[x] \in Nat /\ paid'[x] \in Nat
      /\ paid[x] <= AtLeastZero(amount[x])
      /\ paid'[x] <= paid[x] + AtLeastZero(amount[x] - paid[x])
  BY ObligationNames DEF TypeOK, AdjustmentsWithin
<1>2. CASE x = o
  <2>1. amount[x] = 0 /\ paid'[x] = paid[x]
    BY <1>2 DEF InsertAdjustment, IsNextSlot, AdjustmentsWithin
  <2>2. adjustment'[x].source = source
    BY <1>2 DEF InsertAdjustment, TypeOK
  <2>3. paid'[x] <= AtLeastZero(amount'[x])
    BY <1>1, <2>1 DEF AtLeastZero
  <2> QED
    BY <2>2, <2>3
<1>3. CASE x # o
  <2>1. amount'[x] = amount[x] /\ adjustment'[x] = adjustment[x]
    BY <1>3, ObligationNames DEF InsertAdjustment, TypeOK
  <2>2. paid'[x] <= AtLeastZero(amount'[x])
    BY <1>1, <2>1 DEF AtLeastZero
  <2> QED
    BY <2>1, <2>2 DEF AdjustmentsWithin
<1> QED
  BY <1>2, <1>3

\* What a write-off or an automatic approval adds to paidAmount.
LEMMA SharesWithin ==
  ASSUME TypeOK, NEW S, NEW cash, WritePaid(AddedTo(paid, Shares(S, cash)))
  PROVE  \A o \in Obligations :
             /\ paid'[o] <= paid[o] + AtLeastZero(amount[o] - paid[o])
             /\ o \notin S => paid'[o] = paid[o]
<1> SUFFICES ASSUME NEW o \in Obligations
             PROVE  /\ paid'[o] <= paid[o] + AtLeastZero(amount[o] - paid[o])
                    /\ o \notin S => paid'[o] = paid[o]
  OBVIOUS
<1>1. paid'[o] = paid[o] + Shares(S, cash)[o]
  BY DEF WritePaid, AddedTo
<1>2. /\ Shares(S, cash)[o] \in Nat /\ Shares(S, cash)[o] <= AtLeastZero(Outstanding[o])
      /\ o \notin S => Shares(S, cash)[o] = 0
  BY SharesBound
<1>3. paid[o] \in Nat /\ amount[o] \in Int /\ Outstanding[o] = amount[o] - paid[o]
  BY DEF TypeOK, Outstanding
<1> QED
  BY <1>1, <1>2, <1>3 DEF AtLeastZero

LEMMA WithinNext == Settled /\ AdjustmentsWithin /\ Settled' /\ [Next]_vars => AdjustmentsWithin'
<1> SUFFICES ASSUME Settled, AdjustmentsWithin, Settled', [Next]_vars
             PROVE  AdjustmentsWithin'
  OBVIOUS
<1> USE DEF Settled
<1>1. \A o \in Adjustments : paid[o] \in Nat /\ amount[o] \in Int /\ paid'[o] \in Nat
  BY ObligationNames DEF TypeOK
<1>2. \A o \in Adjustments : paid[o] <= paid[o] + AtLeastZero(amount[o] - paid[o])
  BY <1>1 DEF AtLeastZero
<1>3. ASSUME UNCHANGED <<paid, amount, adjustment>>
      PROVE  AdjustmentsWithin'
  BY <1>2, <1>3, WithinPaid
<1>4. CASE \/ \E f \in ClosableFunds : SetFundActive(f)
           \/ \E b \in Batches : CancelChargeBatch(b)
           \/ \E p \in Payments, u \in Units, f \in Funds, a \in Amounts, m \in ManualFlags :
                  CreatePayment(p, u, f, a, m)
           \/ \E p \in Payments, u \in Units :
                  \E S \in SUBSET {o \in Obligations : o[3] = u /\ Selectable(o)} :
                      CreateExplicitPayment(p, u, S)
           \/ \E p \in Payments : RejectPayment(p)
           \/ \E r \in FeeRequests, item \in Items : CheckLateFee(r, item)
           \/ \E r \in FeeRequests : RefuseLateFee(r)
           \/ UNCHANGED vars
  BY <1>3, <1>4 DEF SetFundActive, CancelChargeBatch, CreatePayment, CreateExplicitPayment,
     ReserveObligations, RejectPayment, RejectAndRelease, CheckLateFee, RefuseLateFee, tables, vars
<1>5. ASSUME NEW b \in Batches, NEW r \in ChargeRequests, CreateChargeBatch(b, r)
      PROVE  AdjustmentsWithin'
  <2>1. \A o \in Adjustments : amount'[o] = amount[o]
    BY <1>5, ObligationNames DEF CreateChargeBatch
  <2>2. UNCHANGED <<paid, adjustment>>
    BY <1>5 DEF CreateChargeBatch
  <2> QED
    BY <1>2, <2>1, <2>2, WithinPaid
<1>6. ASSUME NEW b \in Batches, IssueChargeBatch(b)
      PROVE  AdjustmentsWithin'
  <2>1. \A o \in Adjustments : paid'[o] = paid[o]
    BY <1>6, ObligationNames DEF IssueChargeBatch, WritePaid
  <2>2. UNCHANGED <<amount, adjustment>>
    BY <1>6 DEF IssueChargeBatch
  <2> QED
    BY <1>2, <2>1, <2>2, WithinPaid
<1>7. ASSUME NEW p \in Payments, ApproveExplicit(p)
      PROVE  AdjustmentsWithin'
  <2>1. \A o \in Adjustments :
            paid'[o] = paid[o] + (IF o \in Selection(p) THEN selected[p][o] ELSE 0)
    BY <1>7, ObligationNames DEF ApproveExplicit, Approve, WritePaid, AddedTo
  <2>2. \A o \in Adjustments : o \in Selection(p) => selected[p][o] = amount[o] - paid[o]
    BY <1>7, ObligationNames DEF ApproveExplicit, Outstanding
  <2>3. \A o \in Adjustments : paid'[o] <= paid[o] + AtLeastZero(amount[o] - paid[o])
    BY <1>1, <2>1, <2>2 DEF AtLeastZero
  <2>4. UNCHANGED <<amount, adjustment>>
    BY <1>7 DEF ApproveExplicit
  <2> QED
    BY <2>3, <2>4, WithinPaid
<1>8. ASSUME NEW p \in Payments, ApproveAutomatic(p)
      PROVE  AdjustmentsWithin'
  <2>1. WritePaid(AddedTo(paid, Shares(Debts(payment[p].unit), payment[p].amount)))
    BY <1>8 DEF ApproveAutomatic, Approve
  <2>2. \A o \in Adjustments : paid'[o] <= paid[o] + AtLeastZero(amount[o] - paid[o])
    BY <2>1, SharesWithin, ObligationNames
  <2>3. UNCHANGED <<amount, adjustment>>
    BY <1>8 DEF ApproveAutomatic
  <2> QED
    BY <2>2, <2>3, WithinPaid
<1>9. ASSUME NEW p \in Payments, ReversePayment(p)
      PROVE  AdjustmentsWithin'
  <2>1. \A o \in Adjustments : paid'[o] <= paid[o]
    BY <1>1, <1>9, ObligationNames
       DEF ReversePayment, WritePaid, Reopened, Max0, AtLeastZero, TypeOK
  <2>2. \A o \in Adjustments : paid'[o] <= paid[o] + AtLeastZero(amount[o] - paid[o])
    BY <1>1, <2>1 DEF AtLeastZero
  <2>3. UNCHANGED <<amount, adjustment>>
    BY <1>9 DEF ReversePayment
  <2> QED
    BY <2>2, <2>3, WithinPaid
<1>10. ASSUME NEW o \in Adjustments, NEW f \in Funds, NEW a \in AdjustAmounts,
              CreateAdjustment(o, f, a)
       PROVE  AdjustmentsWithin'
  <2>1. InsertAdjustment(o, "MANUAL", NoItem, f, a)
    BY <1>10 DEF CreateAdjustment, RecordAdjustment
  <2>2. \A x \in Adjustments : /\ paid'[x] = paid[x]
                               /\ paid'[x] <= paid[x] + AtLeastZero(amount[x] - paid[x])
    <3>1. CASE a < 0
      <4>1. WritePaid(AddedTo(paid, Shares(OutstandingItems(o[3]), -a)))
        BY <1>10, <3>1 DEF CreateAdjustment, RecordAdjustment, WriteOff
      <4>2. \A x \in Adjustments : x \in Obligations /\ x \notin OutstandingItems(o[3])
        BY ObligationNames DEF OutstandingItems
      <4> QED
        BY <4>1, <4>2, SharesWithin
    <3>2. CASE ~(a < 0)
      BY <1>2, <1>10, <3>2 DEF CreateAdjustment, RecordAdjustment
    <3> QED
      BY <3>1, <3>2
  <2> QED
    BY <2>1, <2>2, WithinInserted
<1>11. ASSUME NEW r \in FeeRequests, NEW o \in Adjustments, ApplyLateFee(r, o)
       PROVE  AdjustmentsWithin'
  <2>1. /\ InsertAdjustment(o, "LATE_FEE", feeCheck[r], batch[feeCheck[r][2]].fund,
                            batch[feeCheck[r][2]].lateFee)
        /\ paid' = paid
    BY <1>11 DEF ApplyLateFee
  <2> QED
    BY <1>2, <2>1, WithinInserted
<1>12. ASSUME NEW o \in Adjustments, NEW f \in Funds, NEW t \in OpeningTargets,
              CorrectOpeningBalance(o, f, t)
       PROVE  AdjustmentsWithin'
  <2> DEFINE delta == t - OpeningBalance(o[3])
             prior == {x \in Corrections(o[3]) : amount[x] > 0}
  <2>1. InsertAdjustment(o, "OPENING_BALANCE_CORRECTION", NoItem, f, delta)
    BY <1>12 DEF CorrectOpeningBalance
  <2>2. /\ paid'[o] = paid[o]
        /\ \A x \in Adjustments : paid'[x] <= paid[x] + AtLeastZero(amount[x] - paid[x])
    <3>1. CASE delta < 0
      <4>1. WritePaid(AddedTo(paid, Shares(prior, -delta)))
        BY <1>12, <3>1 DEF CorrectOpeningBalance, WriteOff
      <4>2. o \notin prior
        BY <2>1 DEF InsertAdjustment, IsNextSlot, Corrections
      <4> QED
        BY <4>1, <4>2, SharesWithin, ObligationNames
    <3>2. CASE ~(delta < 0)
      BY <1>2, <1>12, <3>2 DEF CorrectOpeningBalance
    <3> QED
      BY <3>1, <3>2
  <2> HIDE DEF delta
  <2> QED
    BY <2>1, <2>2, WithinInserted
<1> QED
  BY <1>4, <1>5, <1>6, <1>7, <1>8, <1>9, <1>10, <1>11, <1>12 DEF Next


LEMMA OwnUnitNext ==
  Settled /\ Reserving /\ OwnUnitOnly /\ Settled' /\ [Next]_vars => OwnUnitOnly'
<1> SUFFICES ASSUME Settled, Reserving, OwnUnitOnly, Settled', [Next]_vars
             PROVE  OwnUnitOnly'
  OBVIOUS
<1> USE DEF Settled
<1>1. ASSUME NEW p \in Payments,
             \A q \in Payments : q # p => /\ payment'[q].unit = payment[q].unit
                                          /\ reservation'[q] = reservation[q]
                                          /\ alloc'[q] = alloc[q],
             \A o \in Obligations :
                 reservation'[p][o] # "NONE" \/ alloc'[p][o] > 0 => payment'[p].unit = o[3]
      PROVE  OwnUnitOnly'
  BY <1>1 DEF OwnUnitOnly
<1>2. ASSUME UNCHANGED <<payment, reservation, alloc>>
      PROVE  OwnUnitOnly'
  BY <1>2 DEF OwnUnitOnly
<1>3. CASE \/ \E f \in ClosableFunds : SetFundActive(f)
           \/ \E b \in Batches, r \in ChargeRequests : CreateChargeBatch(b, r)
           \/ \E b \in Batches : IssueChargeBatch(b)
           \/ \E b \in Batches : CancelChargeBatch(b)
           \/ \E o \in Adjustments, f \in Funds, a \in AdjustAmounts : CreateAdjustment(o, f, a)
           \/ \E r \in FeeRequests, item \in Items : CheckLateFee(r, item)
           \/ \E r \in FeeRequests, o \in Adjustments : ApplyLateFee(r, o)
           \/ \E r \in FeeRequests : RefuseLateFee(r)
           \/ \E o \in Adjustments, f \in Funds, t \in OpeningTargets :
                  CorrectOpeningBalance(o, f, t)
           \/ UNCHANGED vars
  BY <1>2, <1>3 DEF SetFundActive, CreateChargeBatch, IssueChargeBatch, CancelChargeBatch,
     CreateAdjustment, RecordAdjustment, CheckLateFee, ApplyLateFee, RefuseLateFee,
     CorrectOpeningBalance, tables, vars
<1>4. ASSUME NEW p \in Payments, payment[p].status = "NONE"
      PROVE  \A o \in Obligations : reservation[p][o] = "NONE" /\ alloc[p][o] = 0
  BY <1>4 DEF Reserving, ExplicitHolds, ReservationFollowsPayment
<1>5. ASSUME NEW p \in Payments, NEW u \in Units, NEW f \in Funds, NEW a \in Amounts,
             NEW m \in ManualFlags, CreatePayment(p, u, f, a, m)
      PROVE  OwnUnitOnly'
  <2>1. /\ payment[p].status = "NONE" /\ UNCHANGED <<reservation, alloc>>
        /\ \A q \in Payments : q # p => payment'[q] = payment[q]
    BY <1>5 DEF CreatePayment, InsertPayment, TypeOK
  <2> QED
    BY <1>1, <1>4, <2>1
<1>6. ASSUME NEW p \in Payments, NEW u \in Units, NEW S, CreateExplicitPayment(p, u, S)
      PROVE  OwnUnitOnly'
  <2>1. /\ payment[p].status = "NONE" /\ UNCHANGED alloc
        /\ payment'[p].unit = u
        /\ \A q \in Payments : q # p =>
               payment'[q] = payment[q] /\ reservation'[q] = reservation[q]
    BY <1>6 DEF CreateExplicitPayment, ReserveObligations, InsertPayment, TypeOK
  <2>2. ASSUME NEW o \in Obligations, reservation'[p][o] # "NONE"
        PROVE  o[3] = u
    BY <1>6, <2>2 DEF CreateExplicitPayment, ReserveObligations, TypeOK
  <2>3. \A o \in Obligations : alloc'[p][o] = 0
    BY <1>4, <2>1
  <2> QED
    BY <1>1, <2>1, <2>2, <2>3
<1>7. ASSUME NEW p \in Payments, RejectPayment(p)
      PROVE  OwnUnitOnly'
  <2>1. /\ payment'[p].unit = payment[p].unit /\ UNCHANGED alloc
        /\ \A q \in Payments : q # p =>
               payment'[q] = payment[q] /\ reservation'[q] = reservation[q]
        /\ \A o \in Obligations : reservation'[p][o] # "NONE" => reservation[p][o] # "NONE"
    BY <1>7 DEF RejectPayment, RejectAndRelease, MoveReservations, TypeOK, PaymentRows
  <2> QED
    BY <1>1, <2>1 DEF OwnUnitOnly
<1>8. ASSUME NEW p \in Payments, ApproveExplicit(p)
      PROVE  OwnUnitOnly'
  <2> DEFINE shares == [o \in Obligations |-> IF o \in Selection(p) THEN selected[p][o] ELSE 0]
  <2>1. Approve(p, shares) /\ MoveReservations(p, "APPLIED")
    BY <1>8 DEF ApproveExplicit
  <2>2. /\ payment'[p].unit = payment[p].unit /\ alloc'[p] = shares
        /\ \A q \in Payments : q # p => payment'[q] = payment[q] /\ alloc'[q] = alloc[q]
    BY <2>1 DEF Approve, TypeOK, PaymentRows
  <2>3. /\ \A q \in Payments : q # p => reservation'[q] = reservation[q]
        /\ \A o \in Obligations : reservation'[p][o] # "NONE" => reservation[p][o] # "NONE"
    BY <2>1 DEF MoveReservations, TypeOK
  <2>4. \A o \in Obligations : alloc'[p][o] > 0 => reservation[p][o] # "NONE"
    BY <2>2 DEF Selection
  <2> QED
    BY <1>1, <2>2, <2>3, <2>4 DEF OwnUnitOnly
<1>9. ASSUME NEW p \in Payments, ApproveAutomatic(p)
      PROVE  OwnUnitOnly'
  <2> DEFINE shares == Shares(Debts(payment[p].unit), payment[p].amount)
  <2>1. Approve(p, shares) /\ UNCHANGED reservation
    BY <1>9 DEF ApproveAutomatic
  <2>2. /\ payment'[p].unit = payment[p].unit /\ alloc'[p] = shares
        /\ \A q \in Payments : q # p => payment'[q] = payment[q] /\ alloc'[q] = alloc[q]
    <3> HIDE DEF shares
    <3> QED
      BY <2>1 DEF Approve, TypeOK, PaymentRows
  <2>3. ASSUME NEW o \in Obligations, alloc'[p][o] > 0
        PROVE  o[3] = payment[p].unit
    <3>1. o \in Debts(payment[p].unit)
      BY <2>2, <2>3, SharesBound
    <3> QED
      BY <3>1 DEF Debts, OutstandingItems, PositiveAdjustments
  <2> QED
    BY <1>1, <2>1, <2>2, <2>3 DEF OwnUnitOnly
<1>10. ASSUME NEW p \in Payments, ReversePayment(p)
       PROVE  OwnUnitOnly'
  <2>1. /\ \A q \in Payments : payment'[q].unit = payment[q].unit
        /\ UNCHANGED <<reservation, alloc>>
    BY <1>10 DEF ReversePayment, TypeOK, PaymentRows
  <2> QED
    BY <2>1 DEF OwnUnitOnly
<1> QED
  BY <1>3, <1>5, <1>6, <1>7, <1>8, <1>9, <1>10 DEF Next

\* Everything that is known of an obligation, its adjustments and payments.
Accounted ==
    Settled /\ Reserving /\ Explained /\ OwnUnitOnly /\ AdjustmentsWithin

LEMMA AccountedAlways == Spec => []Accounted
<1>1. Init => OwnUnitOnly /\ AdjustmentsWithin
  BY ObligationNames DEF Init, OwnUnitOnly, AdjustmentsWithin, AtLeastZero
<1>2. Settled /\ Reserving /\ OwnUnitOnly /\ AdjustmentsWithin /\ Settled' /\ [Next]_vars =>
          OwnUnitOnly' /\ AdjustmentsWithin'
  BY WithinNext, OwnUnitNext
<1>3. Settled /\ Reserving /\ Explained /\ OwnUnitOnly /\ AdjustmentsWithin => Accounted
  BY DEF Accounted
<1> QED
  BY <1>1, <1>2, <1>3, SettledAlways, ReservingAlways, ExplainedAlways, PTL DEF Spec


-----------------------------------------------------------------------------
(* Oldest debt first.  The debts of a unit are paid in a strict order; a    *)
(* debt is reached when the sum of the ones before it is covered.          *)

LEMMA PaidBeforeOrder ==
  ASSUME TypeOK, NEW x \in Obligations, NEW y \in Obligations, NEW z \in Obligations
  PROVE  /\ ~PaidBefore(x, x)
         /\ PaidBefore(x, y) /\ PaidBefore(y, z) => PaidBefore(x, z)
         /\ x[3] = y[3] /\ x # y => PaidBefore(x, y) \/ PaidBefore(y, x)
<1>1. ASSUME NEW o \in Obligations
      PROVE  /\ \/ o[1] = "CHARGE_ITEM" /\ o = <<"CHARGE_ITEM", o[2], o[3]>>
                \/ o[1] = "ADJUSTMENT" /\ o = <<"ADJUSTMENT", o[2], o[3]>>
             /\ o[2] \in Nat
             /\ o[1] = "CHARGE_ITEM" => batch[o[2]].due \in Nat
  <2>1. CASE o \in Items
    <3>1. o = <<"CHARGE_ITEM", o[2], o[3]>> /\ o[1] = "CHARGE_ITEM" /\ o[2] \in Batches
      BY <2>1 DEF Items
    <3> QED
      BY <3>1, NumberedAssumption DEF TypeOK, BatchRows
  <2>2. CASE o \in Adjustments
    <3>1. o = <<"ADJUSTMENT", o[2], o[3]>> /\ o[1] = "ADJUSTMENT" /\ o[2] \in Slots
      BY <2>2 DEF Adjustments
    <3> QED
      BY <3>1, NumberedAssumption
  <2> QED
    BY <2>1, <2>2, ObligationNames
<1>2. ~PaidBefore(x, x)
  BY <1>1 DEF PaidBefore
<1>3. PaidBefore(x, y) /\ PaidBefore(y, z) => PaidBefore(x, z)
  BY <1>1 DEF PaidBefore
<1>4. x[3] = y[3] /\ x # y => PaidBefore(x, y) \/ PaidBefore(y, x)
  <2> SUFFICES ASSUME x[3] = y[3], x # y
               PROVE  PaidBefore(x, y) \/ PaidBefore(y, x)
    OBVIOUS
  <2>1. CASE x[1] = y[1]
    <3>1. x[2] # y[2]
      BY <1>1, <2>1
    <3> QED
      BY <1>1, <2>1, <3>1 DEF PaidBefore
  <2>2. CASE x[1] # y[1]
    BY <1>1, <2>2 DEF PaidBefore
  <2> QED
    BY <2>1, <2>2
<1> QED
  BY <1>2, <1>3, <1>4

LEMMA OutstandingType ==
  ASSUME TypeOK
  PROVE  \A o \in Obligations : /\ Outstanding[o] \in Int
                                /\ Outstanding[o] = amount[o] - paid[o]
BY DEF TypeOK, Outstanding

\* What the debts of S before o come to.
Earlier(S, o) == Total({x \in S : PaidBefore(x, o)}, Outstanding)

LEMMA EarlierBound ==
  ASSUME TypeOK, NEW S \in SUBSET Obligations, NEW x \in S
  PROVE  /\ Earlier(S, x) \in Nat
         /\ Total(S, Outstanding) \in Nat
         /\ Earlier(S, x) + AtLeastZero(Outstanding[x]) <= Total(S, Outstanding)
         /\ \A y \in S : PaidBefore(x, y) =>
                Earlier(S, x) + AtLeastZero(Outstanding[x]) <= Earlier(S, y)
<1> DEFINE B(o) == {w \in S : PaidBefore(w, o)}
<1>1. \A o \in S : Outstanding[o] \in Int
  BY DEF TypeOK, Outstanding
<1>2. IsFiniteSet(S) /\ IsFiniteSet(B(x))
  BY SubsetFinite
<1>3. x \notin B(x) /\ B(x) \cup {x} \in SUBSET S
  BY PaidBeforeOrder
<1>4. Total(B(x) \cup {x}, Outstanding) = Total(B(x), Outstanding) + AtLeastZero(Outstanding[x])
  BY <1>1, <1>2, <1>3, TotalAdd
<1>5. Total(B(x), Outstanding) \in Nat /\ Total(S, Outstanding) \in Nat
  BY <1>1, <1>2, TotalType
<1>6. Total(B(x) \cup {x}, Outstanding) <= Total(S, Outstanding)
  <2> HIDE DEF B
  <2> QED
    BY <1>1, <1>2, <1>3, TotalSubset
<1>7. ASSUME NEW y \in S, PaidBefore(x, y)
      PROVE  Total(B(x) \cup {x}, Outstanding) <= Total(B(y), Outstanding)
  <2>1. B(x) \cup {x} \in SUBSET B(y)
    BY <1>7, PaidBeforeOrder
  <2>2. IsFiniteSet(B(y)) /\ \A o \in B(y) : Outstanding[o] \in Int
    BY <1>1, SubsetFinite
  <2> HIDE DEF B
  <2> QED
    BY <2>1, <2>2, TotalSubset
<1> QED
  BY <1>4, <1>5, <1>6, <1>7 DEF Earlier

\* What a debt receives: the cash left when it is reached, up to what it owes.
LEMMA ShareAmount ==
  ASSUME TypeOK, NEW S \in SUBSET Obligations, NEW cash \in Nat, NEW x \in S
  PROVE  Shares(S, cash)[x] = AtLeastZero(Lesser(Outstanding[x], cash - Earlier(S, x)))
<1>1. Outstanding[x] \in Int /\ Earlier(S, x) \in Nat
  BY EarlierBound, OutstandingType
<1>2. Shares(S, cash)[x] = Covered(Outstanding[x], Earlier(S, x), cash)
  BY DEF Shares, Earlier
<1> QED
  BY <1>1, <1>2, CoveredAmount

\* All the cash goes to the debts, up to what they come to.
LEMMA SharesTotal ==
  ASSUME TypeOK, NEW u, NEW S \in SUBSET {o \in Obligations : o[3] = u}, NEW cash \in Nat,
         \A x \in S : Outstanding[x] >= 0
  PROVE  Total(S, Shares(S, cash)) = Lesser(cash, Total(S, Outstanding))
<1> DEFINE earlier == [x \in S |-> Earlier(S, x)]
           g == Shares(S, cash)
<1>1. S \in SUBSET Obligations /\ IsFiniteSet(S)
  BY SubsetFinite
<1>2. \A x \in S : Outstanding[x] \in Nat
  BY OutstandingType
<1>3. \A x \in S : AtLeastZero(Outstanding[x]) = Outstanding[x]
  BY <1>2 DEF AtLeastZero
<1>4. \A x \in S : /\ earlier[x] \in Nat
                   /\ earlier[x] + Outstanding[x] <= Total(S, Outstanding)
                   /\ \A y \in S : PaidBefore(x, y) => earlier[x] + Outstanding[x] <= earlier[y]
  BY <1>1, <1>3, EarlierBound
<1>5. \A x \in S : g[x] = Covered(Outstanding[x], earlier[x], cash)
  BY DEF Shares, Earlier
<1>6. \A x, y \in S : x # y => \/ earlier[x] + Outstanding[x] <= earlier[y]
                               \/ earlier[y] + Outstanding[y] <= earlier[x]
  <2> SUFFICES ASSUME NEW x \in S, NEW y \in S, x # y
               PROVE  \/ earlier[x] + Outstanding[x] <= earlier[y]
                      \/ earlier[y] + Outstanding[y] <= earlier[x]
    OBVIOUS
  <2>1. PaidBefore(x, y) \/ PaidBefore(y, x)
    BY PaidBeforeOrder
  <2> QED
    BY <1>4, <2>1
<1> HIDE DEF earlier, g
<1>7. Total(S, g) = Lesser(cash, Total(S, Outstanding))
  BY <1>1, <1>2, <1>4, <1>5, <1>6, TotalCovered
<1> QED
  BY <1>7 DEF g

\* A debt is paid up when more cash comes than the debts up to it take.
LEMMA PaidUp ==
  ASSUME TypeOK, NEW S \in SUBSET Obligations, NEW cash \in Nat, NEW x \in S,
         paid[x] <= AtLeastZero(amount[x]), amount[x] > 0,
         Earlier(S, x) + AtLeastZero(Outstanding[x]) <= cash
  PROVE  paid[x] + Shares(S, cash)[x] = amount[x]
<1>1. /\ amount[x] \in Int /\ paid[x] \in Nat /\ Outstanding[x] = amount[x] - paid[x]
      /\ Earlier(S, x) \in Nat
  BY EarlierBound, OutstandingType DEF TypeOK
<1>2. Shares(S, cash)[x] = AtLeastZero(Lesser(Outstanding[x], cash - Earlier(S, x)))
  BY ShareAmount
<1> QED
  BY <1>1, <1>2 DEF AtLeastZero, Lesser

\* An automatic approval reaches a debt only when every older debt of the unit
\* is paid up, and leaves credit only when all of them are.
THEOREM OldestFirst == Spec => OldestDebtFirst
<1>1. Accounted /\ [Next]_vars =>
        [\A p \in Payments :
          LET u == payment[p].unit IN
          /\ payment[p].status = "PENDING_APPROVAL" /\ payment'[p].status = "APPROVED"
          /\ payment[p].mode = "LEGACY_AUTOMATIC"
          => /\ \A x, o \in Debts(u) :
                    alloc'[p][o] > 0 /\ PaidBefore(x, o) => paid'[x] = amount[x]
             /\ credit'[u] > credit[u] => \A x \in Debts(u) : paid'[x] = amount[x]]_vars
  <2> SUFFICES ASSUME Accounted, [Next]_vars, NEW p \in Payments,
                      payment[p].status = "PENDING_APPROVAL", payment'[p].status = "APPROVED",
                      payment[p].mode = "LEGACY_AUTOMATIC"
               PROVE  LET u == payment[p].unit IN
                      /\ \A x, o \in Debts(u) :
                            alloc'[p][o] > 0 /\ PaidBefore(x, o) => paid'[x] = amount[x]
                      /\ credit'[u] > credit[u] => \A x \in Debts(u) : paid'[x] = amount[x]
    OBVIOUS
  <2>1. PICK u \in Units, cash \in Nat : u = payment[p].unit /\ cash = payment[p].amount
    BY DEF Accounted, Settled, TypeOK, PaymentRows
  <2>2. PICK S \in SUBSET Obligations : S = Debts(u)
    BY ObligationNames DEF Debts, OutstandingItems, PositiveAdjustments
  <2>3. ApproveAutomatic(p)
    BY DecidedBy DEF Accounted, ApproveExplicit
  <2>4. TypeOK
    BY DEF Accounted, Settled
  <2>5. /\ alloc'[p] = Shares(S, cash)
        /\ \A x \in Obligations : paid'[x] = paid[x] + Shares(S, cash)[x]
    <3>1. Approve(p, Shares(S, cash))
      BY <2>1, <2>2, <2>3 DEF ApproveAutomatic
    <3> QED
      BY <2>4, <3>1 DEF Approve, WritePaid, AddedTo, TypeOK
  <2>6. credit'[u] = credit[u] + LeftOver(Total(S, Outstanding), cash)
    BY <2>1, <2>2, <2>3, <2>4 DEF ApproveAutomatic, TypeOK
  <2>7. \A x \in S : amount[x] > 0 /\ paid[x] <= AtLeastZero(amount[x])
    <3> SUFFICES ASSUME NEW x \in S
                 PROVE  amount[x] > 0 /\ paid[x] <= AtLeastZero(amount[x])
      OBVIOUS
    <3>1. amount[x] > 0 /\ amount[x] \in Int
      BY <2>2, <2>4 DEF Debts, OutstandingItems, PositiveAdjustments, TypeOK
    <3>2. CASE x \in Items
      BY <3>1, <3>2 DEF Accounted, Settled, ItemsSettleOnlyWhenIssued, AtLeastZero
    <3>3. CASE x \in Adjustments
      BY <3>1, <3>3 DEF Accounted, AdjustmentsWithin
    <3> QED
      BY <3>1, <3>2, <3>3, ObligationNames
  <2>8. ASSUME NEW x \in S, NEW o \in S, alloc'[p][o] > 0, PaidBefore(x, o)
        PROVE  paid'[x] = amount[x]
    <3>1. Shares(S, cash)[o] = AtLeastZero(Lesser(Outstanding[o], cash - Earlier(S, o)))
      BY <2>4, ShareAmount
    <3>2. Outstanding[o] \in Int /\ Earlier(S, o) \in Nat /\ Earlier(S, x) \in Nat
      BY <2>4, EarlierBound, OutstandingType
    <3>3. Earlier(S, o) < cash
      BY <2>5, <2>8, <3>1, <3>2 DEF AtLeastZero, Lesser
    <3>4. Earlier(S, x) + AtLeastZero(Outstanding[x]) <= Earlier(S, o)
      BY <2>4, <2>8, EarlierBound
    <3>5. AtLeastZero(Outstanding[x]) \in Nat
      BY <2>4, OutstandingType DEF AtLeastZero
    <3>6. Earlier(S, x) + AtLeastZero(Outstanding[x]) <= cash
      BY <3>2, <3>3, <3>4, <3>5
    <3>7. paid[x] + Shares(S, cash)[x] = amount[x]
      BY <2>4, <2>7, <3>6, PaidUp
    <3> QED
      BY <2>5, <3>7
  <2>9. ASSUME credit'[u] > credit[u], NEW x \in S
        PROVE  paid'[x] = amount[x]
    <3>1. Total(S, Outstanding) \in Nat /\ Earlier(S, x) \in Nat
          /\ Earlier(S, x) + AtLeastZero(Outstanding[x]) <= Total(S, Outstanding)
      BY <2>4, EarlierBound
    <3>2. LeftOver(Total(S, Outstanding), cash) = AtLeastZero(cash - Total(S, Outstanding))
      BY <3>1, LeftOverAmount
    <3>3. credit[u] \in Nat
      BY <2>4 DEF TypeOK
    <3>4. Total(S, Outstanding) < cash
      BY <2>6, <2>9, <3>1, <3>2, <3>3 DEF AtLeastZero
    <3>5. AtLeastZero(Outstanding[x]) \in Nat
      BY <2>4, OutstandingType DEF AtLeastZero
    <3>6. Earlier(S, x) + AtLeastZero(Outstanding[x]) <= cash
      BY <3>1, <3>4, <3>5
    <3>7. paid[x] + Shares(S, cash)[x] = amount[x]
      BY <2>4, <2>7, <3>6, PaidUp
    <3> QED
      BY <2>5, <3>7
  <2> QED
    BY <2>1, <2>2, <2>8, <2>9
<1> QED
  BY <1>1, AccountedAlways, PTL DEF Spec, OldestDebtFirst


-----------------------------------------------------------------------------
(* The net position of a unit.  What was charged and what is outstanding   *)
(* differ by what is paid, so the position stands exactly when what the    *)
(* unit's obligations are paid, with its credit, is what its approved      *)
(* payments brought, its items were written down and its negative          *)
(* corrections grant.  This balance is what each step keeps.               *)

Of(u) == {o \in Obligations : o[3] = u}
WaivedItems == [o \in Obligations |-> IF o \in Items THEN waived[o] ELSE 0]
ApprovedOf(u) ==
    {p \in Payments : payment[p].unit = u /\ payment[p].status = "APPROVED"}

PaidOf(u)    == Total(Of(u), paid)
WaivedOf(u)  == Total(Of(u), WaivedItems)
BroughtBy(u) == Total(ApprovedOf(u), PaymentAmount)
GrantedTo(u) == Total(Corrections(u), Negated(amount))

Balanced ==
    \A u \in Units : PaidOf(u) + credit[u] = BroughtBy(u) + WaivedOf(u) + GrantedTo(u)

LEMMA BalanceTypes ==
  ASSUME TypeOK, NEW u \in Units
  PROVE  /\ PaidOf(u) \in Nat /\ WaivedOf(u) \in Nat /\ BroughtBy(u) \in Nat
         /\ GrantedTo(u) \in Nat /\ credit[u] \in Nat
<1>1. IsFiniteSet(Of(u)) /\ IsFiniteSet(Corrections(u)) /\ IsFiniteSet(ApprovedOf(u))
  <2>1. Of(u) \subseteq Obligations /\ Corrections(u) \subseteq Obligations
    BY ObligationNames DEF Of, Corrections
  <2> QED
    BY <2>1, SubsetFinite, FiniteAssumption, FS_Subset DEF ApprovedOf
<1>2. \A o \in Of(u) : paid[o] \in Int /\ WaivedItems[o] \in Int
  BY DEF TypeOK, Of, WaivedItems
<1>3. \A p \in ApprovedOf(u) : PaymentAmount[p] \in Int
  BY DEF TypeOK, PaymentRows, ApprovedOf, PaymentAmount
<1>4. \A o \in Corrections(u) : Negated(amount)[o] \in Int
  BY ObligationNames DEF TypeOK, Corrections, Negated
<1>5. PaidOf(u) \in Nat /\ WaivedOf(u) \in Nat
  BY <1>1, <1>2, TotalType DEF PaidOf, WaivedOf
<1>6. BroughtBy(u) \in Nat
  BY <1>1, <1>3, TotalType DEF BroughtBy
<1>7. GrantedTo(u) \in Nat
  BY <1>1, <1>4, TotalType DEF GrantedTo
<1> QED
  BY <1>5, <1>6, <1>7 DEF TypeOK

\* What a unit's obligations are paid grows by what is added to them.
LEMMA PaidRaised ==
  ASSUME TypeOK, NEW u \in Units, NEW g \in [Obligations -> Nat],
         \A o \in Of(u) : paid'[o] = paid[o] + g[o]
  PROVE  PaidOf(u)' = PaidOf(u) + Total(Of(u), g)
<1>1. Of(u)' = Of(u) /\ IsFiniteSet(Of(u))
  BY SubsetFinite DEF Of
<1>2. \A o \in Of(u) : paid[o] \in Nat /\ g[o] \in Nat /\ paid'[o] = paid[o] + g[o]
  BY DEF TypeOK, Of
<1>3. Total(Of(u), paid') = Total(Of(u), paid) + Total(Of(u), g)
  BY <1>1, <1>2, TotalSum
<1> QED
  BY <1>1, <1>3 DEF PaidOf

LEMMA WaivedRaised ==
  ASSUME TypeOK, NEW u \in Units, NEW g \in [Obligations -> Nat],
         \A o \in Of(u) : WaivedItems'[o] = WaivedItems[o] + g[o]
  PROVE  WaivedOf(u)' = WaivedOf(u) + Total(Of(u), g)
<1>1. Of(u)' = Of(u) /\ IsFiniteSet(Of(u))
  BY SubsetFinite DEF Of
<1>2. \A o \in Of(u) :
          /\ WaivedItems[o] \in Nat /\ g[o] \in Nat
          /\ WaivedItems'[o] = WaivedItems[o] + g[o]
  BY DEF TypeOK, Of, WaivedItems
<1>3. Total(Of(u), WaivedItems') = Total(Of(u), WaivedItems) + Total(Of(u), g)
  BY <1>1, <1>2, TotalSum
<1> QED
  BY <1>1, <1>3 DEF WaivedOf

LEMMA PaidSame ==
  ASSUME NEW u, \A o \in Of(u) : paid'[o] = paid[o]
  PROVE  PaidOf(u)' = PaidOf(u)
<1>1. Total(Of(u), paid') = Total(Of(u), paid)
  BY TotalSame
<1> QED
  BY <1>1 DEF PaidOf, Of

LEMMA WaivedSame ==
  ASSUME NEW u, \A o \in Of(u) : o \in Items => waived'[o] = waived[o]
  PROVE  WaivedOf(u)' = WaivedOf(u)
<1>1. \A o \in Of(u) : WaivedItems'[o] = WaivedItems[o]
  BY DEF WaivedItems, Of
<1>2. Total(Of(u), WaivedItems') = Total(Of(u), WaivedItems)
  BY <1>1, TotalSame
<1> QED
  BY <1>2 DEF WaivedOf, Of

LEMMA BroughtSame ==
  ASSUME NEW u,
         \A p \in Payments :
             /\ payment'[p].status = "APPROVED" <=> payment[p].status = "APPROVED"
             /\ payment[p].status = "APPROVED" => payment'[p] = payment[p]
  PROVE  BroughtBy(u)' = BroughtBy(u)
<1>1. ApprovedOf(u)' = ApprovedOf(u)
  BY DEF ApprovedOf
<1>2. \A p \in ApprovedOf(u) : PaymentAmount'[p] = PaymentAmount[p]
  BY DEF ApprovedOf, PaymentAmount
<1>3. Total(ApprovedOf(u), PaymentAmount') = Total(ApprovedOf(u), PaymentAmount)
  BY <1>2, TotalSame
<1> QED
  BY <1>1, <1>3 DEF BroughtBy

\* Corrections are never changed, only added.
LEMMA GrantedSame ==
  ASSUME NEW u,
         \A o \in Adjustments :
             /\ adjustment[o].source = "OPENING_BALANCE_CORRECTION" /\ o[3] = u =>
                    adjustment'[o] = adjustment[o] /\ amount'[o] = amount[o]
             /\ adjustment'[o].source = "OPENING_BALANCE_CORRECTION" /\ o[3] = u =>
                    adjustment[o].source = "OPENING_BALANCE_CORRECTION"
  PROVE  GrantedTo(u)' = GrantedTo(u)
<1>1. Corrections(u)' = Corrections(u)
  BY DEF Corrections
<1>2. \A o \in Corrections(u) : Negated(amount)'[o] = Negated(amount)[o]
  BY ObligationNames DEF Corrections, Negated
<1>3. Total(Corrections(u), Negated(amount)') = Total(Corrections(u), Negated(amount))
  BY <1>2, TotalSame
<1> QED
  BY <1>1, <1>3 DEF GrantedTo

\* An issue pays one item of each unit from that unit's credit.
LEMMA BalancedIssue ==
  ASSUME Settled, Balanced, NEW b \in Batches, IssueChargeBatch(b), NEW u \in Units
  PROVE  PaidOf(u)' + credit'[u] = BroughtBy(u)' + WaivedOf(u)' + GrantedTo(u)'
<1> DEFINE g == [o \in Obligations |->
                    IF o[1] = "CHARGE_ITEM" /\ o[2] = b THEN CreditApplied(b, o[3]) ELSE 0]
<1>1. \A v \in Units : CreditApplied(b, v) \in Nat
  <2> SUFFICES ASSUME NEW v \in Units
               PROVE  CreditApplied(b, v) \in Nat
    OBVIOUS
  <2>1. ItemOf(b, v) \in Items /\ ItemOf(b, v) \in Obligations
    BY ObligationNames
  <2>2. /\ credit[v] \in Nat /\ amount[ItemOf(b, v)] \in Int /\ paid[ItemOf(b, v)] \in Nat
        /\ paid[ItemOf(b, v)] <= amount[ItemOf(b, v)]
    BY <2>1 DEF Settled, TypeOK, ItemsSettleOnlyWhenIssued
  <2>3. Outstanding[ItemOf(b, v)] = amount[ItemOf(b, v)] - paid[ItemOf(b, v)]
    BY <2>1 DEF Outstanding
  <2> QED
    BY <2>2, <2>3 DEF CreditApplied, Lesser
<1>2. g \in [Obligations -> Nat]
  BY <1>1, ObligationNames
<1>3. \A o \in Of(u) : paid'[o] = paid[o] + g[o]
  <2> SUFFICES ASSUME NEW o \in Of(u)
               PROVE  paid'[o] = paid[o] + g[o]
    OBVIOUS
  <2>1. o \in Obligations /\ paid[o] \in Nat
    BY DEF Of, Settled, TypeOK
  <2>2. CASE o[1] = "CHARGE_ITEM" /\ o[2] = b
    BY <2>1, <2>2, ObligationNames DEF IssueChargeBatch, WritePaid
  <2>3. CASE ~(o[1] = "CHARGE_ITEM" /\ o[2] = b)
    BY <2>1, <2>3 DEF IssueChargeBatch, WritePaid
  <2> QED
    BY <2>2, <2>3
<1>4. Total(Of(u), g) = CreditApplied(b, u)
  <2>1. /\ {ItemOf(b, u)} \in SUBSET Of(u)
        /\ ItemOf(b, u) \in Obligations /\ g[ItemOf(b, u)] = CreditApplied(b, u)
    BY ObligationNames DEF Of, ItemOf
  <2>2. \A o \in Of(u) \ {ItemOf(b, u)} : g[o] \in Int /\ g[o] <= 0
    BY ObligationNames DEF Of, ItemOf
  <2> HIDE DEF g
  <2>3. Total(Of(u), g) = Total({ItemOf(b, u)}, g)
    BY <2>1, <2>2, TotalWhere
  <2>4. Total({ItemOf(b, u)}, g) = AtLeastZero(g[ItemOf(b, u)])
    BY <1>1, <2>1, TotalOne
  <2> QED
    BY <1>1, <2>1, <2>3, <2>4 DEF AtLeastZero
<1>5. PaidOf(u)' = PaidOf(u) + CreditApplied(b, u)
  <2> HIDE DEF g
  <2> QED
    BY <1>2, <1>3, <1>4, PaidRaised DEF Settled
<1>6. credit'[u] = credit[u] - CreditApplied(b, u)
  BY DEF IssueChargeBatch
<1>7. /\ WaivedOf(u)' = WaivedOf(u)
      /\ BroughtBy(u)' = BroughtBy(u)
      /\ GrantedTo(u)' = GrantedTo(u)
  <2>1. UNCHANGED <<waived, payment, adjustment, amount>>
    BY DEF IssueChargeBatch
  <2> QED
    BY <2>1, WaivedSame, BroughtSame, GrantedSame
<1>8. PaidOf(u) + credit[u] = BroughtBy(u) + WaivedOf(u) + GrantedTo(u)
  BY DEF Balanced
<1> QED
  BY <1>1, <1>5, <1>6, <1>7, <1>8, BalanceTypes DEF Settled


\* An approval: of its unit, what the debts and the credit receive is what the
\* payment reports; other units receive nothing.
LEMMA BalancedApprove ==
  ASSUME Settled, Balanced, NEW p \in Payments, NEW shares \in [Obligations -> Nat],
         Approve(p, shares), UNCHANGED <<amount, adjustment, waived>>,
         NEW u \in Units, credit'[u] \in Nat,
         IF u = payment[p].unit
         THEN Total(Of(u), shares) + credit'[u] = credit[u] + payment[p].amount
         ELSE Total(Of(u), shares) = 0 /\ credit'[u] = credit[u]
  PROVE  PaidOf(u)' + credit'[u] = BroughtBy(u)' + WaivedOf(u)' + GrantedTo(u)'
<1>1. \A o \in Of(u) : paid'[o] = paid[o] + shares[o]
  BY DEF Of, Approve, WritePaid, AddedTo
<1>2. PaidOf(u)' = PaidOf(u) + Total(Of(u), shares)
  BY <1>1, PaidRaised DEF Settled
<1>3. Total(Of(u), shares) \in Nat
  <2>1. IsFiniteSet(Of(u)) /\ \A o \in Of(u) : shares[o] \in Int
    BY SubsetFinite DEF Of
  <2> QED
    BY <2>1, TotalType
<1>4. WaivedOf(u)' = WaivedOf(u) /\ GrantedTo(u)' = GrantedTo(u)
  BY WaivedSame, GrantedSame
<1>5. /\ payment[p].status = "PENDING_APPROVAL" /\ payment'[p].status = "APPROVED"
      /\ payment'[p].unit = payment[p].unit /\ payment'[p].amount = payment[p].amount
      /\ payment[p].amount \in Nat
      /\ \A q \in Payments : q # p => payment'[q] = payment[q]
  BY DEF Settled, TypeOK, Approve, PaymentRows
<1>6. \A q \in Payments : payment'[q].amount = payment[q].amount
  BY <1>5
<1>7. /\ IsFiniteSet(ApprovedOf(u)) /\ p \notin ApprovedOf(u)
      /\ \A q \in ApprovedOf(u) : PaymentAmount[q] \in Int
      /\ PaymentAmount[p] = payment[p].amount
  BY <1>5, FiniteAssumption, FS_Subset
     DEF Settled, TypeOK, PaymentRows, ApprovedOf, PaymentAmount
<1>8. PaymentAmount' = PaymentAmount
  BY <1>6 DEF PaymentAmount
<1>9. BroughtBy(u)' = BroughtBy(u) + (IF u = payment[p].unit THEN payment[p].amount ELSE 0)
  <2>1. CASE u = payment[p].unit
    <3>1. ApprovedOf(u)' = ApprovedOf(u) \cup {p}
      BY <1>5, <2>1 DEF ApprovedOf
    <3>2. Total(ApprovedOf(u) \cup {p}, PaymentAmount)
            = Total(ApprovedOf(u), PaymentAmount) + AtLeastZero(payment[p].amount)
      BY <1>5, <1>7, TotalAdd
    <3> QED
      BY <1>5, <1>8, <2>1, <3>1, <3>2 DEF BroughtBy, AtLeastZero
  <2>2. CASE u # payment[p].unit
    <3>1. ApprovedOf(u)' = ApprovedOf(u)
      BY <1>5, <2>2 DEF ApprovedOf
    <3>2. BroughtBy(u)' = BroughtBy(u)
      BY <1>8, <3>1 DEF BroughtBy
    <3>3. BroughtBy(u) \in Nat
      BY BalanceTypes DEF Settled
    <3> QED
      BY <2>2, <3>2, <3>3
  <2> QED
    BY <2>1, <2>2
<1>10. PaidOf(u) + credit[u] = BroughtBy(u) + WaivedOf(u) + GrantedTo(u)
  BY DEF Balanced
<1>11. /\ PaidOf(u) \in Nat /\ WaivedOf(u) \in Nat /\ BroughtBy(u) \in Nat
       /\ GrantedTo(u) \in Nat /\ credit[u] \in Nat
  BY BalanceTypes DEF Settled
<1>12. CASE u = payment[p].unit
  BY <1>2, <1>3, <1>4, <1>5, <1>9, <1>10, <1>11, <1>12
<1>13. CASE u # payment[p].unit
  BY <1>2, <1>3, <1>4, <1>9, <1>10, <1>11, <1>13
<1> QED
  BY <1>12, <1>13

LEMMA SharesElsewhere ==
  ASSUME NEW u, NEW shares \in [Obligations -> Nat],
         \A o \in Obligations : shares[o] > 0 => o[3] # u
  PROVE  Total(Of(u), shares) = 0
<1>1. \A o \in Of(u) : shares[o] \in Int /\ shares[o] <= 0
  BY DEF Of
<1> QED
  BY <1>1, TotalZero

LEMMA BalancedApproveExplicit ==
  ASSUME Accounted, Balanced, NEW p \in Payments, ApproveExplicit(p), NEW u \in Units
  PROVE  PaidOf(u)' + credit'[u] = BroughtBy(u)' + WaivedOf(u)' + GrantedTo(u)'
<1> DEFINE shares == [o \in Obligations |-> IF o \in Selection(p) THEN selected[p][o] ELSE 0]
<1>1. shares \in [Obligations -> Nat] /\ \A o \in Obligations : o \notin Selection(p) => shares[o] = 0
  BY DEF Accounted, Settled, TypeOK
<1>2. Approve(p, shares) /\ UNCHANGED <<amount, adjustment, waived, credit>>
  BY DEF ApproveExplicit
<1>3. credit[u] \in Nat /\ payment[p].amount \in Nat
  BY DEF Accounted, Settled, TypeOK, PaymentRows
<1>4. Selection(p) \in SUBSET Of(payment[p].unit)
  BY DEF Accounted, OwnUnitOnly, Selection, Of
<1>5. Total(Selection(p), shares) = payment[p].amount
  <2>1. \A o \in Selection(p) : shares[o] = selected[p][o]
    BY DEF Selection
  <2>2. Total(Selection(p), shares) = Total(Selection(p), selected[p])
    <3> HIDE DEF shares
    <3> QED
      BY <2>1, TotalSame
  <2>3. Total(Selection(p), selected[p]) = payment[p].amount
    BY DEF ApproveExplicit
  <2> HIDE DEF shares
  <2> QED
    BY <2>2, <2>3
<1> HIDE DEF shares
<1>6. CASE u = payment[p].unit
  <2>1. \A o \in Of(u) \ Selection(p) : shares[o] \in Int /\ shares[o] <= 0
    BY <1>1 DEF Of
  <2>2. Total(Of(u), shares) = payment[p].amount
    BY <1>4, <1>5, <1>6, <2>1, TotalWhere
  <2>3. Total(Of(u), shares) + credit'[u] = credit[u] + payment[p].amount
    BY <1>2, <1>3, <2>2
  <2> QED
    BY <1>1, <1>2, <1>3, <1>6, <2>3, BalancedApprove DEF Accounted
<1>7. CASE u # payment[p].unit
  <2>1. \A o \in Obligations : shares[o] > 0 => o[3] # u
    BY <1>1, <1>4, <1>7 DEF Of
  <2>2. Total(Of(u), shares) = 0 /\ credit'[u] = credit[u]
    BY <1>1, <1>2, <2>1, SharesElsewhere
  <2> QED
    BY <1>1, <1>2, <1>3, <1>7, <2>2, BalancedApprove DEF Accounted
<1> QED
  BY <1>6, <1>7

\* The debts of a unit are outstanding by a positive or zero amount.
LEMMA DebtsOwed ==
  ASSUME Accounted, NEW u
  PROVE  /\ Debts(u) \in SUBSET {o \in Obligations : o[3] = u}
         /\ \A x \in Debts(u) : Outstanding[x] >= 0
<1>1. Debts(u) \in SUBSET {o \in Obligations : o[3] = u}
  BY ObligationNames DEF Debts, OutstandingItems, PositiveAdjustments
<1>2. ASSUME NEW x \in Debts(u)
      PROVE  Outstanding[x] >= 0
  <2>1. /\ amount[x] > 0 /\ amount[x] \in Int /\ paid[x] \in Nat
        /\ Outstanding[x] = amount[x] - paid[x]
    BY <1>1, OutstandingType
       DEF Accounted, Settled, TypeOK, Debts, OutstandingItems, PositiveAdjustments
  <2>2. paid[x] <= amount[x]
    <3>1. CASE x \in Items
      BY <3>1 DEF Accounted, Settled, ItemsSettleOnlyWhenIssued
    <3>2. CASE x \in Adjustments
      <4>1. paid[x] <= AtLeastZero(amount[x])
        BY <3>2 DEF Accounted, AdjustmentsWithin
      <4> QED
        BY <2>1, <4>1 DEF AtLeastZero
    <3> QED
      BY <1>1, <3>1, <3>2, ObligationNames
  <2> QED
    BY <2>1, <2>2
<1> QED
  BY <1>1, <1>2

LEMMA BalancedApproveAutomatic ==
  ASSUME Accounted, Balanced, NEW p \in Payments, ApproveAutomatic(p), NEW u \in Units
  PROVE  PaidOf(u)' + credit'[u] = BroughtBy(u)' + WaivedOf(u)' + GrantedTo(u)'
<1>1. PICK v \in Units, cash \in Nat : v = payment[p].unit /\ cash = payment[p].amount
  BY DEF Accounted, Settled, TypeOK, PaymentRows
<1>2. PICK S \in SUBSET {o \in Obligations : o[3] = v} : S = Debts(v)
  BY DebtsOwed
<1>3. PICK shares \in [Obligations -> Nat] : shares = Shares(S, cash)
  BY SharesBound DEF Accounted, Settled
<1>4. /\ Approve(p, shares) /\ UNCHANGED <<amount, adjustment, waived>>
      /\ credit' = [credit EXCEPT ![v] = @ + LeftOver(Total(S, Outstanding), cash)]
  BY <1>1, <1>2, <1>3 DEF ApproveAutomatic
<1>5. TypeOK
  BY DEF Accounted, Settled
<1>6. \A o \in Obligations : o \notin S => shares[o] = 0
  BY <1>3, <1>5, SharesBound
<1>7. Total(S, Outstanding) \in Nat
  <2>1. IsFiniteSet(S) /\ \A o \in S : Outstanding[o] \in Int
    BY <1>5, OutstandingType, SubsetFinite
  <2> QED
    BY <2>1, TotalType
<1>8. LeftOver(Total(S, Outstanding), cash) = AtLeastZero(cash - Total(S, Outstanding))
  BY <1>7, LeftOverAmount
<1>9. credit[u] \in Nat /\ credit'[u] \in Nat
  BY <1>4, <1>5, <1>7, <1>8 DEF TypeOK, AtLeastZero
<1>10. CASE u = v
  <2>1. S \in SUBSET Of(u) /\ \A o \in Of(u) \ S : shares[o] \in Int /\ shares[o] <= 0
    BY <1>6, <1>10 DEF Of
  <2>2. Total(Of(u), shares) = Total(S, shares)
    BY <2>1, TotalWhere
  <2>3. Total(S, shares) = Lesser(cash, Total(S, Outstanding))
    BY <1>2, <1>3, <1>5, DebtsOwed, SharesTotal
  <2>4. credit'[u] = credit[u] + AtLeastZero(cash - Total(S, Outstanding))
    BY <1>4, <1>5, <1>8, <1>10 DEF TypeOK
  <2>5. Total(Of(u), shares) + credit'[u] = credit[u] + cash
    BY <1>7, <1>9, <2>2, <2>3, <2>4 DEF Lesser, AtLeastZero
  <2> QED
    BY <1>1, <1>4, <1>9, <1>10, <2>5, BalancedApprove DEF Accounted
<1>11. CASE u # v
  <2>1. \A o \in Obligations : shares[o] > 0 => o[3] # u
    BY <1>6, <1>11
  <2>2. Total(Of(u), shares) = 0
    BY <2>1, SharesElsewhere
  <2>3. credit'[u] = credit[u]
    BY <1>4, <1>5, <1>11 DEF TypeOK
  <2> QED
    BY <1>1, <1>4, <1>9, <1>11, <2>2, <2>3, BalancedApprove DEF Accounted
<1> QED
  BY <1>10, <1>11

\* A reversal takes back what the payment allocated, which is all it reported.
LEMMA BalancedReverse ==
  ASSUME Accounted, Balanced, NEW p \in Payments, ReversePayment(p), NEW u \in Units
  PROVE  PaidOf(u)' + credit'[u] = BroughtBy(u)' + WaivedOf(u)' + GrantedTo(u)'
<1>1. TypeOK /\ Settled
  BY DEF Accounted, Settled
<1>2. /\ payment[p].status = "APPROVED" /\ payment'[p].status = "REVERSED"
      /\ payment[p].amount \in Nat
      /\ \A q \in Payments : q # p => payment'[q] = payment[q]
      /\ \A q \in Payments : payment'[q].amount = payment[q].amount
      /\ UNCHANGED <<alloc, waived, amount, adjustment, credit>>
  BY <1>1 DEF TypeOK, ReversePayment, PaymentRows
<1>3. PICK given \in [Obligations -> Nat] : given = alloc[p]
  BY <1>1 DEF TypeOK
<1>4. \A o \in Obligations : paid[o] = paid'[o] + given[o] /\ paid'[o] \in Nat
  <2>1. \A o \in Obligations : /\ paid'[o] = paid[o] - given[o]
                               /\ given[o] <= paid[o] /\ paid[o] \in Nat
    BY <1>1, <1>2, <1>3, ReversedInFull, AllocationStillPaid DEF Accounted, TypeOK
  <2> QED
    BY <2>1
<1>5. PaidOf(u) = PaidOf(u)' + Total(Of(u), given) /\ PaidOf(u)' \in Nat
  <2>1. IsFiniteSet(Of(u)) /\ Of(u)' = Of(u)
    BY SubsetFinite DEF Of
  <2>2. \A o \in Of(u) : paid'[o] \in Nat /\ given[o] \in Nat /\ paid[o] = paid'[o] + given[o]
    BY <1>4 DEF Of
  <2>3. Total(Of(u), paid) = Total(Of(u), paid') + Total(Of(u), given)
    BY <2>1, <2>2, TotalSum
  <2>4. Total(Of(u), paid') \in Nat
    <3>1. \A o \in Of(u) : paid'[o] \in Int
      BY <2>2
    <3> QED
      BY <2>1, <3>1, TotalType
  <2> QED
    BY <2>1, <2>3, <2>4 DEF PaidOf
<1>6. \A o \in Obligations : given[o] > 0 => o[3] = payment[p].unit
  BY <1>3 DEF Accounted, OwnUnitOnly
<1>7. Total(Of(u), given) = IF u = payment[p].unit THEN payment[p].amount ELSE 0
  <2>1. CASE u = payment[p].unit
    <3>1. /\ Of(u) \in SUBSET Obligations
          /\ \A o \in Obligations \ Of(u) : given[o] \in Int /\ given[o] <= 0
      BY <1>6, <2>1 DEF Of
    <3>2. Total(Obligations, given) = Total(Of(u), given)
      BY <3>1, TotalWhere
    <3>3. Total(Obligations, given) = payment[p].amount
      BY <1>3 DEF ReversePayment, Allocated
    <3> QED
      BY <2>1, <3>2, <3>3
  <2>2. CASE u # payment[p].unit
    BY <1>6, <2>2, SharesElsewhere
  <2> QED
    BY <2>1, <2>2
<1>8. BroughtBy(u) = BroughtBy(u)' + Total(Of(u), given)
  <2>1. PaymentAmount' = PaymentAmount
    BY <1>2 DEF PaymentAmount
  <2>2. CASE u = payment[p].unit
    <3>1. /\ p \in ApprovedOf(u) /\ IsFiniteSet(ApprovedOf(u))
          /\ \A q \in ApprovedOf(u) : PaymentAmount[q] \in Int
          /\ PaymentAmount[p] = payment[p].amount
      BY <1>1, <1>2, <2>2, FiniteAssumption, FS_Subset
         DEF TypeOK, PaymentRows, ApprovedOf, PaymentAmount
    <3>2. ApprovedOf(u)' = ApprovedOf(u) \ {p}
      BY <1>2 DEF ApprovedOf
    <3>3. Total(ApprovedOf(u), PaymentAmount)
            = Total(ApprovedOf(u) \ {p}, PaymentAmount) + AtLeastZero(PaymentAmount[p])
      BY <3>1, TotalWithout
    <3> QED
      BY <1>2, <1>7, <2>1, <2>2, <3>1, <3>2, <3>3 DEF BroughtBy, AtLeastZero
  <2>3. CASE u # payment[p].unit
    <3>1. ApprovedOf(u)' = ApprovedOf(u)
      BY <1>2, <2>3 DEF ApprovedOf
    <3>2. BroughtBy(u)' = BroughtBy(u) /\ BroughtBy(u) \in Nat
      BY <1>1, <2>1, <3>1, BalanceTypes DEF BroughtBy
    <3> QED
      BY <1>7, <2>3, <3>2
  <2> QED
    BY <2>2, <2>3
<1>9. WaivedOf(u)' = WaivedOf(u) /\ GrantedTo(u)' = GrantedTo(u)
  BY <1>2, WaivedSame, GrantedSame
<1>10. PaidOf(u) + credit[u] = BroughtBy(u) + WaivedOf(u) + GrantedTo(u)
  BY DEF Balanced
<1>11. Total(Of(u), given) \in Nat /\ BroughtBy(u)' \in Nat
  <2>1. Total(Of(u), given) \in Nat
    BY <1>2, <1>7
  <2>2. IsFiniteSet(ApprovedOf(u)') /\ \A q \in ApprovedOf(u)' : PaymentAmount'[q] \in Int
    BY <1>1, <1>2, FiniteAssumption, FS_Subset DEF TypeOK, PaymentRows, ApprovedOf, PaymentAmount
  <2>3. Total(ApprovedOf(u)', PaymentAmount') \in Nat
    BY <2>2, TotalType
  <2> QED
    BY <2>1, <2>3 DEF BroughtBy
<1> QED
  BY <1>1, <1>2, <1>5, <1>8, <1>9, <1>10, <1>11, BalanceTypes


\* An adjustment that is no opening-balance correction of u grants u nothing.
LEMMA GrantedInserted ==
  ASSUME TypeOK, NEW o \in Adjustments, NEW source, NEW STATE item, NEW STATE f, NEW STATE a,
         InsertAdjustment(o, source, item, f, a), NEW u,
         source # "OPENING_BALANCE_CORRECTION" \/ o[3] # u
  PROVE  GrantedTo(u)' = GrantedTo(u)
<1>1. /\ adjustment[o].source = "NONE"
      /\ adjustment'[o].source = source
      /\ \A x \in Adjustments : x # o => adjustment'[x] = adjustment[x] /\ amount'[x] = amount[x]
  BY ObligationNames DEF InsertAdjustment, IsNextSlot, TypeOK
<1>2. \A x \in Adjustments :
          /\ adjustment[x].source = "OPENING_BALANCE_CORRECTION" /\ x[3] = u =>
                 adjustment'[x] = adjustment[x] /\ amount'[x] = amount[x]
          /\ adjustment'[x].source = "OPENING_BALANCE_CORRECTION" /\ x[3] = u =>
                 adjustment[x].source = "OPENING_BALANCE_CORRECTION"
  BY <1>1
<1> QED
  BY <1>2, GrantedSame

\* A waiver pays items with what it counts as written off.
LEMMA BalancedCreateAdjustment ==
  ASSUME Settled, Balanced, NEW o \in Adjustments, NEW f \in Funds, NEW a \in AdjustAmounts,
         CreateAdjustment(o, f, a), NEW u \in Units
  PROVE  PaidOf(u)' + credit'[u] = BroughtBy(u)' + WaivedOf(u)' + GrantedTo(u)'
<1>1. /\ InsertAdjustment(o, "MANUAL", NoItem, f, a)
      /\ UNCHANGED <<payment, credit>>
  BY DEF CreateAdjustment, RecordAdjustment
<1>2. GrantedTo(u)' = GrantedTo(u) /\ BroughtBy(u)' = BroughtBy(u)
  BY <1>1, GrantedInserted, BroughtSame DEF Settled
<1>3. PaidOf(u) + credit[u] = BroughtBy(u) + WaivedOf(u) + GrantedTo(u)
  BY DEF Balanced
<1>4. \E n \in Nat : PaidOf(u)' = PaidOf(u) + n /\ WaivedOf(u)' = WaivedOf(u) + n
  <2>1. CASE a < 0
    <3> DEFINE S == OutstandingItems(o[3])
               shares == Shares(S, -a)
    <3>1. WriteOff(S, -a)
      BY <2>1 DEF CreateAdjustment, RecordAdjustment
    <3>2. shares \in [Obligations -> Nat] /\ \A x \in Obligations : x \notin S => shares[x] = 0
      BY SharesBound DEF Settled
    <3>3. \A x \in Of(u) : /\ x \in Obligations /\ paid'[x] = paid[x] + shares[x]
                           /\ waived'[x] = waived[x] + shares[x]
                           /\ waived[x] \in Nat
      BY <3>1, WriteOffShares DEF Settled, TypeOK, Of
    <3>4. S \subseteq Items
      BY DEF OutstandingItems
    <3> HIDE DEF shares, S
    <3>5. \A x \in Of(u) : WaivedItems'[x] = WaivedItems[x] + shares[x]
      BY <3>2, <3>3, <3>4 DEF WaivedItems, Of
    <3>6. PaidOf(u)' = PaidOf(u) + Total(Of(u), shares)
      BY <3>2, <3>3, PaidRaised DEF Settled
    <3>7. WaivedOf(u)' = WaivedOf(u) + Total(Of(u), shares)
      BY <3>2, <3>5, WaivedRaised DEF Settled
    <3>8. IsFiniteSet(Of(u)) /\ \A x \in Of(u) : shares[x] \in Int
      BY <3>2, SubsetFinite DEF Of
    <3>9. Total(Of(u), shares) \in Nat
      BY <3>8, TotalType
    <3> QED
      BY <3>6, <3>7, <3>9
  <2>2. CASE ~(a < 0)
    <3>1. UNCHANGED <<paid, waived>>
      BY <2>2 DEF CreateAdjustment, RecordAdjustment
    <3>2. PaidOf(u)' = PaidOf(u) /\ WaivedOf(u)' = WaivedOf(u)
      BY <3>1, PaidSame, WaivedSame
    <3>3. PaidOf(u) \in Nat /\ WaivedOf(u) \in Nat
      BY BalanceTypes DEF Settled
    <3>4. PaidOf(u)' = PaidOf(u) + 0 /\ WaivedOf(u)' = WaivedOf(u) + 0
      BY <3>2, <3>3
    <3> QED
      BY <3>4
  <2> QED
    BY <2>1, <2>2
<1>5. credit'[u] = credit[u]
  BY <1>1
<1>6. /\ PaidOf(u) \in Nat /\ WaivedOf(u) \in Nat /\ BroughtBy(u) \in Nat
      /\ GrantedTo(u) \in Nat /\ credit[u] \in Nat
  BY BalanceTypes DEF Settled
<1> QED
  BY <1>2, <1>3, <1>4, <1>5, <1>6

\* A correction downwards pays earlier upward corrections, and what is left of
\* it becomes credit: together, all it grants.
LEMMA BalancedCorrection ==
  ASSUME Accounted, Balanced, NEW o \in Adjustments, NEW f \in Funds, NEW t \in OpeningTargets,
         CorrectOpeningBalance(o, f, t), NEW u \in Units
  PROVE  PaidOf(u)' + credit'[u] = BroughtBy(u)' + WaivedOf(u)' + GrantedTo(u)'
<1>1. PICK v \in Units : v = o[3]
  BY ObligationNames
<1>2. TypeOK
  BY DEF Accounted, Settled
<1>3. PICK delta \in Int : delta = t - OpeningBalance(v)
  BY <1>2, OpeningBalanceType, AmountAssumption
<1>4. PICK S \in SUBSET {x \in Obligations : x[3] = v} :
          S = {x \in Corrections(v) : amount[x] > 0}
  BY ObligationNames DEF Corrections
<1>5. /\ InsertAdjustment(o, "OPENING_BALANCE_CORRECTION", NoItem, f, delta)
      /\ IF delta < 0
         THEN /\ WriteOff(S, -delta)
              /\ credit' = [credit EXCEPT ![v] = @ + LeftOver(Total(S, Outstanding), -delta)]
         ELSE UNCHANGED <<paid, itemStatus, waived, credit>>
      /\ UNCHANGED payment
  BY <1>1, <1>3, <1>4 DEF CorrectOpeningBalance
<1>6. \A x \in S : x \in Adjustments /\ x # o
  BY <1>4, <1>5 DEF Corrections, InsertAdjustment, IsNextSlot
<1>7. BroughtBy(u)' = BroughtBy(u)
  BY <1>5, BroughtSame
<1>8. PaidOf(u) + credit[u] = BroughtBy(u) + WaivedOf(u) + GrantedTo(u)
  BY DEF Balanced
<1>9. /\ PaidOf(u) \in Nat /\ WaivedOf(u) \in Nat /\ BroughtBy(u) \in Nat
      /\ GrantedTo(u) \in Nat /\ credit[u] \in Nat
  BY <1>2, BalanceTypes
<1>10. WaivedOf(u)' = WaivedOf(u)
  <2>1. \A x \in Of(u) : x \in Items => waived'[x] = waived[x]
    <3>1. CASE delta < 0
      <4> SUFFICES ASSUME NEW x \in Items
                   PROVE  waived'[x] = waived[x]
        OBVIOUS
      <4>1. x \in Obligations /\ x \notin S
        BY <1>6, ObligationNames
      <4>2. waived'[x] = waived[x] + Shares(S, -delta)[x] /\ Shares(S, -delta)[x] = 0
        BY <1>2, <1>5, <3>1, <4>1, WriteOffShares, SharesBound
      <4> QED
        BY <1>2, <4>1, <4>2 DEF TypeOK
    <3>2. CASE ~(delta < 0)
      BY <1>5, <3>2
    <3> QED
      BY <3>1, <3>2
  <2> QED
    BY <2>1, WaivedSame
<1>11. u = v => GrantedTo(u)' = GrantedTo(u) + AtLeastZero(-delta)
  <2> SUFFICES ASSUME u = v
               PROVE  GrantedTo(v)' = GrantedTo(v) + AtLeastZero(-delta)
    OBVIOUS
  <2>1. /\ adjustment[o].source = "NONE"
        /\ adjustment'[o].source = "OPENING_BALANCE_CORRECTION" /\ amount'[o] = delta
        /\ \A x \in Adjustments : x # o =>
               adjustment'[x] = adjustment[x] /\ amount'[x] = amount[x]
    BY <1>2, <1>5, ObligationNames DEF InsertAdjustment, IsNextSlot, TypeOK
  <2>2. Corrections(v)' = Corrections(v) \cup {o} /\ o \notin Corrections(v)
    BY <1>1, <2>1 DEF Corrections
  <2>3. Corrections(v) \subseteq Obligations /\ IsFiniteSet(Corrections(v)) /\ o \in Obligations
    BY ObligationNames, SubsetFinite DEF Corrections
  <2> DEFINE was == Negated(amount)
             now == [x \in Obligations |-> -amount'[x]]
  <2>4. \A x \in Corrections(v) : now[x] = was[x] /\ was[x] \in Int /\ now[x] \in Int
    BY <1>2, <2>1, <2>2, <2>3 DEF Negated, Corrections, TypeOK
  <2>5. now[o] = -delta /\ now[o] \in Int
    BY <2>1, <2>3
  <2>6. Negated(amount)' = now
    BY DEF Negated
  <2> HIDE DEF was, now
  <2>7. Total(Corrections(v), now) = Total(Corrections(v), was)
    BY <2>4, TotalSame
  <2>8. Total(Corrections(v) \cup {o}, now) = Total(Corrections(v), now) + AtLeastZero(now[o])
    BY <2>2, <2>3, <2>4, <2>5, TotalAdd
  <2>9. GrantedTo(v)' = Total(Corrections(v)', now)
    BY <2>6 DEF GrantedTo
  <2>10. GrantedTo(v) = Total(Corrections(v), was)
    BY DEF GrantedTo, was
  <2> QED
    BY <2>2, <2>5, <2>7, <2>8, <2>9, <2>10
<1>12. u # v => GrantedTo(u)' = GrantedTo(u)
  BY <1>1, <1>2, <1>5, GrantedInserted
<1>13. CASE delta < 0
  <2>1. PICK cash \in Nat : cash = -delta
    BY <1>13
  <2>2. PICK shares \in [Obligations -> Nat] : shares = Shares(S, cash)
    BY <1>2, SharesBound
  <2>3. \A x \in Of(u) : paid'[x] = paid[x] + shares[x]
    BY <1>2, <1>5, <1>13, <2>1, <2>2, WriteOffShares DEF Of
  <2>4. PaidOf(u)' = PaidOf(u) + Total(Of(u), shares)
    BY <1>2, <2>3, PaidRaised
  <2>5. \A x \in Obligations : x \notin S => shares[x] = 0
    BY <1>2, <2>2, SharesBound
  <2>6. Total(S, Outstanding) \in Nat
    <3>1. IsFiniteSet(S) /\ \A x \in S : Outstanding[x] \in Int
      BY <1>2, OutstandingType, SubsetFinite
    <3> QED
      BY <3>1, TotalType
  <2>7. credit' = [credit EXCEPT ![v] = @ + AtLeastZero(cash - Total(S, Outstanding))]
    BY <1>5, <1>13, <2>1, <2>6, LeftOverAmount
  <2>8. CASE u = v
    <3>1. S \in SUBSET Of(u) /\ \A x \in Of(u) \ S : shares[x] \in Int /\ shares[x] <= 0
      BY <1>4, <2>5, <2>8 DEF Of
    <3>2. Total(Of(u), shares) = Total(S, shares)
      BY <3>1, TotalWhere
    <3>3. \A x \in S : Outstanding[x] >= 0
      <4> SUFFICES ASSUME NEW x \in S
                   PROVE  Outstanding[x] >= 0
        OBVIOUS
      <4>1. /\ paid[x] <= AtLeastZero(amount[x]) /\ amount[x] > 0
            /\ amount[x] \in Int /\ paid[x] \in Nat /\ Outstanding[x] = amount[x] - paid[x]
        BY <1>2, <1>4, <1>6, OutstandingType DEF Accounted, AdjustmentsWithin, TypeOK
      <4> QED
        BY <4>1 DEF AtLeastZero
    <3>4. Total(S, shares) = Lesser(cash, Total(S, Outstanding))
      BY <1>2, <2>2, <3>3, SharesTotal
    <3>5. credit'[u] = credit[u] + AtLeastZero(cash - Total(S, Outstanding))
      BY <1>2, <2>7, <2>8 DEF TypeOK
    <3>6. GrantedTo(u)' = GrantedTo(u) + cash
      BY <1>11, <2>1, <2>8 DEF AtLeastZero
    <3>7. Total(Of(u), shares) + AtLeastZero(cash - Total(S, Outstanding)) = cash
          /\ Total(Of(u), shares) \in Nat /\ AtLeastZero(cash - Total(S, Outstanding)) \in Nat
      BY <2>6, <3>2, <3>4 DEF Lesser, AtLeastZero
    <3> QED
      BY <1>7, <1>8, <1>9, <1>10, <2>4, <3>5, <3>6, <3>7
  <2>9. CASE u # v
    <3>1. Total(Of(u), shares) = 0
      <4>1. \A x \in Obligations : shares[x] > 0 => x[3] # u
        BY <1>4, <2>5, <2>9
      <4> QED
        BY <4>1, SharesElsewhere
    <3>2. credit'[u] = credit[u]
      BY <1>2, <2>7, <2>9 DEF TypeOK
    <3> QED
      BY <1>7, <1>8, <1>9, <1>10, <1>12, <2>4, <2>9, <3>1, <3>2
  <2> QED
    BY <2>8, <2>9
<1>14. CASE ~(delta < 0)
  <2>1. UNCHANGED <<paid, credit>>
    BY <1>5, <1>14
  <2>2. PaidOf(u)' = PaidOf(u) /\ credit'[u] = credit[u]
    BY <2>1, PaidSame
  <2>3. AtLeastZero(-delta) = 0
    BY <1>14 DEF AtLeastZero
  <2>4. GrantedTo(u)' = GrantedTo(u)
    BY <1>9, <1>11, <1>12, <2>3
  <2> QED
    BY <1>7, <1>8, <1>10, <2>2, <2>4
<1> QED
  BY <1>13, <1>14

LEMMA BalancedNext == Accounted /\ Balanced /\ [Next]_vars => Balanced'
<1> SUFFICES ASSUME Accounted, Balanced, [Next]_vars, NEW u \in Units
             PROVE  PaidOf(u)' + credit'[u] = BroughtBy(u)' + WaivedOf(u)' + GrantedTo(u)'
  BY DEF Balanced
<1>1. TypeOK /\ Settled
  BY DEF Accounted, Settled
<1>2. PaidOf(u) + credit[u] = BroughtBy(u) + WaivedOf(u) + GrantedTo(u)
  BY DEF Balanced
<1>3. ASSUME UNCHANGED <<paid, waived, credit>>, BroughtBy(u)' = BroughtBy(u),
             GrantedTo(u)' = GrantedTo(u)
      PROVE  PaidOf(u)' + credit'[u] = BroughtBy(u)' + WaivedOf(u)' + GrantedTo(u)'
  <2>1. PaidOf(u)' = PaidOf(u) /\ WaivedOf(u)' = WaivedOf(u)
    BY <1>3, PaidSame, WaivedSame
  <2> QED
    BY <1>2, <1>3, <2>1
<1>4. CASE \/ \E f \in ClosableFunds : SetFundActive(f)
           \/ \E b \in Batches, r \in ChargeRequests : CreateChargeBatch(b, r)
           \/ \E b \in Batches : CancelChargeBatch(b)
           \/ \E r \in FeeRequests, item \in Items : CheckLateFee(r, item)
           \/ \E r \in FeeRequests : RefuseLateFee(r)
           \/ UNCHANGED vars
  <2>1. UNCHANGED <<paid, waived, credit, payment, adjustment>>
    BY <1>4 DEF SetFundActive, CreateChargeBatch, CancelChargeBatch, CheckLateFee,
                RefuseLateFee, tables, vars
  <2>2. \A o \in Adjustments : amount'[o] = amount[o]
    <3>1. ASSUME NEW b \in Batches, NEW r \in ChargeRequests, CreateChargeBatch(b, r),
                 NEW o \in Adjustments
          PROVE  amount'[o] = amount[o]
      BY <3>1, ObligationNames DEF CreateChargeBatch
    <3> QED
      BY <1>4, <3>1 DEF SetFundActive, CancelChargeBatch, CheckLateFee, RefuseLateFee,
                        tables, vars
  <2> QED
    BY <1>3, <2>1, <2>2, BroughtSame, GrantedSame
<1>5. ASSUME NEW p \in Payments, payment[p].status # "APPROVED",
             payment'[p].status # "APPROVED",
             \A q \in Payments : q # p => payment'[q] = payment[q],
             UNCHANGED <<amount, adjustment, paid, waived, credit>>
      PROVE  PaidOf(u)' + credit'[u] = BroughtBy(u)' + WaivedOf(u)' + GrantedTo(u)'
  <2>1. BroughtBy(u)' = BroughtBy(u)
    BY <1>5, BroughtSame
  <2>2. GrantedTo(u)' = GrantedTo(u)
    BY <1>5, GrantedSame
  <2> QED
    BY <1>3, <1>5, <2>1, <2>2
<1>6. ASSUME NEW p \in Payments, NEW v \in Units, NEW f \in Funds, NEW a \in Amounts,
             NEW m \in ManualFlags, CreatePayment(p, v, f, a, m)
      PROVE  PaidOf(u)' + credit'[u] = BroughtBy(u)' + WaivedOf(u)' + GrantedTo(u)'
  <2>1. /\ payment[p].status = "NONE" /\ payment'[p].status = "PENDING_APPROVAL"
        /\ \A q \in Payments : q # p => payment'[q] = payment[q]
        /\ UNCHANGED <<amount, adjustment, paid, waived, credit>>
    BY <1>1, <1>6 DEF CreatePayment, InsertPayment, TypeOK
  <2> QED
    BY <1>5, <2>1
<1>7. ASSUME NEW p \in Payments, NEW v \in Units, NEW S, CreateExplicitPayment(p, v, S)
      PROVE  PaidOf(u)' + credit'[u] = BroughtBy(u)' + WaivedOf(u)' + GrantedTo(u)'
  <2>1. /\ payment[p].status = "NONE" /\ payment'[p].status = "PENDING_APPROVAL"
        /\ \A q \in Payments : q # p => payment'[q] = payment[q]
        /\ UNCHANGED <<amount, adjustment, paid, waived, credit>>
    BY <1>1, <1>7 DEF CreateExplicitPayment, ReserveObligations, InsertPayment, TypeOK
  <2> QED
    BY <1>5, <2>1
<1>8. ASSUME NEW p \in Payments, RejectPayment(p)
      PROVE  PaidOf(u)' + credit'[u] = BroughtBy(u)' + WaivedOf(u)' + GrantedTo(u)'
  <2>1. /\ payment[p].status = "PENDING_APPROVAL" /\ payment'[p].status = "REJECTED"
        /\ \A q \in Payments : q # p => payment'[q] = payment[q]
        /\ UNCHANGED <<amount, adjustment, paid, waived, credit>>
    BY <1>1, <1>8 DEF RejectPayment, RejectAndRelease, TypeOK, PaymentRows
  <2> QED
    BY <1>5, <2>1
<1>9. ASSUME NEW r \in FeeRequests, NEW o \in Adjustments, ApplyLateFee(r, o)
      PROVE  PaidOf(u)' + credit'[u] = BroughtBy(u)' + WaivedOf(u)' + GrantedTo(u)'
  <2>1. /\ InsertAdjustment(o, "LATE_FEE", feeCheck[r], batch[feeCheck[r][2]].fund,
                            batch[feeCheck[r][2]].lateFee)
        /\ UNCHANGED <<payment, paid, waived, credit>>
    BY <1>9 DEF ApplyLateFee
  <2> DEFINE item == feeCheck[r]
             fund == batch[feeCheck[r][2]].fund
             fee == batch[feeCheck[r][2]].lateFee
  <2>2. InsertAdjustment(o, "LATE_FEE", item, fund, fee)
    BY <2>1
  <2> HIDE DEF item, fund, fee
  <2>3. GrantedTo(u)' = GrantedTo(u)
    BY <1>1, <2>2, GrantedInserted
  <2>4. BroughtBy(u)' = BroughtBy(u)
    BY <2>1, BroughtSame
  <2> QED
    BY <1>3, <2>1, <2>3, <2>4
<1> QED
  BY <1>1, <1>4, <1>6, <1>7, <1>8, <1>9, BalancedIssue, BalancedApproveExplicit,
     BalancedApproveAutomatic, BalancedReverse, BalancedCreateAdjustment,
     BalancedCorrection DEF Next

LEMMA BalancedInit == Init => Balanced
<1> SUFFICES ASSUME Init, NEW u \in Units
             PROVE  PaidOf(u) + credit[u] = BroughtBy(u) + WaivedOf(u) + GrantedTo(u)
  BY DEF Balanced
<1>1. \A o \in Of(u) : paid[o] = 0 /\ WaivedItems[o] = 0
  BY DEF Init, Of, WaivedItems
<1>2. PaidOf(u) = 0 /\ WaivedOf(u) = 0
  BY <1>1, TotalZero DEF PaidOf, WaivedOf
<1>3. ApprovedOf(u) = {}
  BY DEF Init, NoPayment, ApprovedOf
<1>4. Corrections(u) = {}
  BY DEF Init, NoAdjustment, Corrections
<1>5. BroughtBy(u) = 0 /\ GrantedTo(u) = 0
  BY <1>3, <1>4, TotalEmpty DEF BroughtBy, GrantedTo
<1>6. credit[u] = 0
  BY DEF Init
<1> QED
  BY <1>2, <1>5, <1>6

LEMMA BalancedAlways == Spec => []Balanced
BY BalancedInit, BalancedNext, AccountedAlways, PTL DEF Spec

\* What a unit's obligations were charged: nothing for an item whose batch is
\* not collectible, nor for a correction downwards.
Live(o) == o[1] = "CHARGE_ITEM" => Collectible(o[2])

Charged == [o \in Obligations |-> IF Live(o) THEN AtLeastZero(amount[o]) ELSE 0]
Owed    == [o \in Obligations |-> Charged[o] - paid[o]]

\* Nothing is paid or written off beyond what was charged.
LEMMA OwedType ==
  ASSUME Accounted, NEW o \in Obligations
  PROVE  /\ amount[o] \in Int /\ paid[o] \in Nat /\ waived[o] \in Nat
         /\ Charged[o] \in Nat /\ Owed[o] \in Nat
         /\ Charged[o] = Owed[o] + paid[o]
         /\ waived[o] <= paid[o]
         /\ ~Live(o) => paid[o] = 0
<1>1. TypeOK
  BY DEF Accounted, Settled
<1>2. amount[o] \in Int /\ paid[o] \in Nat /\ waived[o] \in Nat
  BY <1>1 DEF TypeOK
<1>3. waived[o] <= paid[o]
  <2>1. FromPayments(o) \in Nat /\ FromCredit(o) \in Nat
    BY <1>1, FromPaymentsType DEF Accounted, Explained, CreditEntriesIssued
  <2>2. paid[o] = FromPayments(o) + FromCredit(o) + waived[o]
    BY ExplainedAt DEF Accounted, Explained
  <2> QED
    BY <1>2, <2>1, <2>2
<1>4. /\ paid[o] <= AtLeastZero(amount[o])
      /\ ~Live(o) => paid[o] = 0
  <2>1. CASE o \in Items
    BY <1>2, <2>1 DEF Accounted, Settled, ItemsSettleOnlyWhenIssued, Live, AtLeastZero
  <2>2. CASE o \in Adjustments
    BY <2>2, ObligationNames DEF Accounted, AdjustmentsWithin, Live
  <2> QED
    BY <2>1, <2>2, ObligationNames
<1>5. Charged[o] = (IF Live(o) THEN AtLeastZero(amount[o]) ELSE 0)
  BY DEF Charged
<1>6. Owed[o] = Charged[o] - paid[o]
  BY DEF Owed
<1> QED
  BY <1>2, <1>3, <1>4, <1>5, <1>6 DEF AtLeastZero

\* What a unit was charged is what it still owes and what it is paid.
LEMMA ChargedOwedPaid ==
  ASSUME Accounted, NEW u
  PROVE  Total(Of(u), Charged) = Total(Of(u), Owed) + PaidOf(u)
<1>1. IsFiniteSet(Of(u))
  BY SubsetFinite DEF Of
<1>2. \A o \in Of(u) : Owed[o] \in Nat /\ paid[o] \in Nat /\ Charged[o] = Owed[o] + paid[o]
  BY OwedType DEF Of
<1>3. Total(Of(u), Charged) = Total(Of(u), Owed) + Total(Of(u), paid)
  BY <1>1, <1>2, TotalSum
<1> QED
  BY <1>3 DEF PaidOf

\* What a unit owes is what its debts are outstanding by.
LEMMA OwedByDebts ==
  ASSUME Accounted, NEW u
  PROVE  Total(Of(u), Owed) = Total(Debts(u), Outstanding)
<1>1. Debts(u) \in SUBSET Of(u)
  BY DebtsOwed DEF Of
<1>2. TypeOK
  BY DEF Accounted, Settled
<1>3. ASSUME NEW o \in Of(u) \ Debts(u)
      PROVE  Owed[o] = 0
  <2>1. o \in Obligations /\ o[3] = u
    BY DEF Of
  <2>2. /\ amount[o] \in Int /\ paid[o] \in Nat /\ Owed[o] \in Nat
        /\ Charged[o] = (IF Live(o) THEN AtLeastZero(amount[o]) ELSE 0)
        /\ Owed[o] = Charged[o] - paid[o]
    BY <2>1, OwedType DEF Charged, Owed
  <2>3. CASE ~Live(o) \/ ~(amount[o] > 0)
    BY <2>2, <2>3 DEF AtLeastZero
  <2>4. CASE Live(o) /\ amount[o] > 0
    <3>1. o \in Items /\ itemStatus[o] = "PAID"
      BY <1>3, <2>1, <2>4, ObligationNames
         DEF Debts, OutstandingItems, PositiveAdjustments, Live
    <3>2. paid[o] >= amount[o]
      BY <2>2, <3>1 DEF Accounted, Settled, ItemsSettleOnlyWhenIssued, ComputeItemStatus
    <3> QED
      BY <2>2, <2>4, <3>2 DEF AtLeastZero
  <2> QED
    BY <2>3, <2>4
<1>4. Total(Of(u), Owed) = Total(Debts(u), Owed)
  <2>1. \A o \in Of(u) \ Debts(u) : Owed[o] \in Int /\ Owed[o] <= 0
    BY <1>3
  <2> QED
    BY <1>1, <2>1, TotalWhere
<1>5. \A o \in Debts(u) : Owed[o] = Outstanding[o]
  <2> SUFFICES ASSUME NEW o \in Debts(u)
               PROVE  Owed[o] = Outstanding[o]
    OBVIOUS
  <2>1. o \in Obligations /\ Outstanding[o] = amount[o] - paid[o] /\ amount[o] \in Int
    BY <1>1, <1>2, OutstandingType DEF Of, TypeOK
  <2>2. Live(o) /\ amount[o] > 0
    BY ObligationNames DEF Debts, OutstandingItems, PositiveAdjustments, Live
  <2> QED
    BY <2>1, <2>2 DEF Owed, Charged, AtLeastZero
<1>6. Total(Debts(u), Owed) = Total(Debts(u), Outstanding)
  BY <1>5, TotalSame
<1> QED
  BY <1>4, <1>6

\* What a unit was charged: its collectible items and positive adjustments.
LEMMA ChargedAmounts ==
  ASSUME Accounted, NEW u, NEW S, S = {o \in Items : o[3] = u /\ Collectible(o[2])}
  PROVE  /\ Total(Of(u), Charged) = Total(S \cup PositiveAdjustments(u), amount)
         /\ WaivedOf(u) = Total(S, waived)
<1> DEFINE T == S \cup PositiveAdjustments(u)
<1>1. S \in SUBSET Of(u) /\ T \in SUBSET Of(u)
  BY ObligationNames DEF Of, PositiveAdjustments
<1>2. \A o \in Of(u) : /\ o \in Obligations /\ amount[o] \in Int
                       /\ Charged[o] = (IF Live(o) THEN AtLeastZero(amount[o]) ELSE 0)
  BY OwedType DEF Of, Charged
<1>3. \A o \in Of(u) \ T : Charged[o] \in Int /\ Charged[o] <= 0
  <2> SUFFICES ASSUME NEW o \in Of(u) \ T
               PROVE  Charged[o] = 0
    OBVIOUS
  <2>1. Live(o) => ~(amount[o] > 0)
    BY ObligationNames DEF Of, PositiveAdjustments, Live
  <2> QED
    BY <1>2, <2>1 DEF AtLeastZero
<1>4. \A o \in T : Charged[o] = AtLeastZero(amount[o])
  <2>1. \A o \in T : Live(o)
    BY ObligationNames DEF PositiveAdjustments, Live
  <2> QED
    BY <1>1, <1>2, <2>1
<1> HIDE DEF T
<1>5. Total(Of(u), Charged) = Total(T, Charged)
  BY <1>1, <1>3, TotalWhere
<1>6. Total(T, Charged) = Total(T, amount)
  <2> DEFINE U == {o \in T : amount[o] > 0}
  <2>1. /\ U \in SUBSET T
        /\ \A o \in T \ U : Charged[o] \in Int /\ Charged[o] <= 0
                            /\ amount[o] \in Int /\ amount[o] <= 0
    BY <1>1, <1>2, <1>4 DEF AtLeastZero
  <2>2. \A o \in U : Charged[o] = amount[o]
    BY <1>1, <1>2, <1>4 DEF AtLeastZero
  <2> HIDE DEF U
  <2>3. Total(T, Charged) = Total(U, Charged) /\ Total(T, amount) = Total(U, amount)
    BY <2>1, TotalWhere
  <2>4. Total(U, Charged) = Total(U, amount)
    BY <2>2, TotalSame
  <2> QED
    BY <2>3, <2>4
<1>7. WaivedOf(u) = Total(S, WaivedItems)
  <2>1. \A o \in Of(u) \ S : WaivedItems[o] \in Int /\ WaivedItems[o] <= 0
    <3> SUFFICES ASSUME NEW o \in Of(u) \ S
                 PROVE  WaivedItems[o] = 0
      OBVIOUS
    <3>1. CASE o \in Items
      <4>1. o \in Obligations /\ ~Live(o)
        BY <3>1, ObligationNames DEF Of, Live
      <4>2. waived[o] = 0
        BY <4>1, OwedType
      <4> QED
        BY <3>1, <4>1, <4>2 DEF WaivedItems
    <3>2. CASE o \notin Items
      BY <3>2 DEF WaivedItems, Of
    <3> QED
      BY <3>1, <3>2
  <2> QED
    BY <1>1, <2>1, TotalWhere DEF WaivedOf
<1>8. Total(S, WaivedItems) = Total(S, waived)
  <2>1. \A o \in S : WaivedItems[o] = waived[o]
    BY ObligationNames DEF WaivedItems
  <2> QED
    BY <2>1, TotalSame
<1> QED
  BY <1>5, <1>6, <1>7, <1>8 DEF T

\* A unit owes, less its credit, what it was charged less what it paid, what
\* its items were written down and what its corrections grant.
THEOREM PositionKept == Spec => []NetPosition
<1>1. ASSUME Accounted, Balanced
      PROVE  NetPosition
  <2> SUFFICES ASSUME NEW u \in Units, NEW S,
                      S = {o \in Items : o[3] = u /\ Collectible(o[2])}
               PROVE  Total(Debts(u), Outstanding) - credit[u] =
                        Total(S \cup PositiveAdjustments(u), amount)
                        - Total(Corrections(u), Negated(amount))
                        - Total(S, waived)
                        - Total(ApprovedOf(u), PaymentAmount)
    BY DEF NetPosition, ApprovedOf
  <2>1. /\ PaidOf(u) \in Nat /\ WaivedOf(u) \in Nat /\ BroughtBy(u) \in Nat
        /\ GrantedTo(u) \in Nat /\ credit[u] \in Nat
    BY <1>1, BalanceTypes DEF Accounted, Settled
  <2>2. PaidOf(u) + credit[u] = BroughtBy(u) + WaivedOf(u) + GrantedTo(u)
    BY <1>1 DEF Balanced
  <2>3. Total(Of(u), Charged) = Total(Of(u), Owed) + PaidOf(u)
    BY <1>1, ChargedOwedPaid
  <2>4. Total(Of(u), Owed) = Total(Debts(u), Outstanding)
    BY <1>1, OwedByDebts
  <2>5. /\ Total(Of(u), Charged) = Total(S \cup PositiveAdjustments(u), amount)
        /\ WaivedOf(u) = Total(S, waived)
    BY <1>1, ChargedAmounts
  <2>6. Total(Of(u), Owed) \in Nat
    <3>1. IsFiniteSet(Of(u)) /\ \A o \in Of(u) : Owed[o] \in Int
      BY <1>1, OwedType, SubsetFinite DEF Of
    <3> QED
      BY <3>1, TotalType
  <2> QED
    BY <2>1, <2>2, <2>3, <2>4, <2>5, <2>6 DEF BroughtBy, GrantedTo
<1> QED
  BY <1>1, AccountedAlways, BalancedAlways, PTL


-----------------------------------------------------------------------------
(* Months are reserved in order.  The check of a gap compares ranks among   *)
(* the outstanding charges of a series; it leaves no older month out, even  *)
(* where two charges of a unit had the same period.                         *)

\* Charges with a period have an earliest one.
LEMMA EarliestCharge ==
  ASSUME NEW T, T # {}, NEW f, \A x \in T : f[x] \in Nat
  PROVE  \E x \in T : \A y \in T : ~(f[y] < f[x])
<1> DEFINE M == {f[x] : x \in T}
<1>1. M \subseteq Nat /\ M # {}
  OBVIOUS
<1>2. PICK m \in M : \A k \in M : <<k, m>> \notin OpToRel(<, Nat)
  BY <1>1, WFMin, NatLessThanWellFounded, Zenon
<1>3. \A k \in M : ~(k < m)
  BY <1>1, <1>2, Zenon DEF OpToRel
<1> QED
  BY <1>2, <1>3

\* A selection S in which each of the due charges that has fewer older ones than
\* S has charges is in S, takes no charge without every older one.
LEMMA NoneOlderLeftOut ==
  ASSUME NEW due, IsFiniteSet(due), NEW S, NEW period,
         \A x \in due : period[x] \in Nat,
         \A o \in due :
             Cardinality({x \in due : period[x] < period[o]}) < Cardinality(due \cap S)
                 => o \in S,
         NEW o \in due, o \in S, NEW x \in due, period[x] < period[o]
  PROVE  x \in S
<1> DEFINE T == {y \in due : y \notin S /\ period[y] < period[o]}
<1> SUFFICES ASSUME T # {}
             PROVE  FALSE
  OBVIOUS
<1>1. PICK z \in T : \A y \in T : ~(period[y] < period[z])
  <2>1. \A y \in T : period[y] \in Nat
    OBVIOUS
  <2> HIDE DEF T
  <2> QED
    BY <2>1, EarliestCharge
<1> DEFINE older == {y \in due : period[y] < period[z]}
<1>2. z \in due /\ z \notin S /\ period[z] < period[o]
  BY <1>1
<1>3. \A y \in older : y \in S
  BY <1>1, <1>2
<1>4. older \subseteq (due \cap S) \ {o}
  BY <1>2, <1>3
<1>5. /\ IsFiniteSet(due \cap S)
      /\ IsFiniteSet((due \cap S) \ {o})
      /\ Cardinality((due \cap S) \ {o}) = Cardinality(due \cap S) - 1
      /\ Cardinality(due \cap S) \in Nat
  <2>1. IsFiniteSet(due \cap S)
    BY FS_Subset
  <2> QED
    BY <2>1, FS_RemoveElement, FS_CardinalityType
<1>6. Cardinality(older) <= Cardinality((due \cap S) \ {o}) /\ Cardinality(older) \in Nat
  BY <1>4, <1>5, FS_Subset, FS_CardinalityType
<1>7. Cardinality(older) < Cardinality(due \cap S)
  BY <1>5, <1>6
<1> QED
  BY <1>2, <1>7

\* Only an explicit payment reserves anything.
LEMMA ReservedBy ==
  ASSUME TypeOK, [Next]_vars, NEW p \in Payments, NEW o \in Obligations,
         reservation[p][o] = "NONE", reservation'[p][o] = "ACTIVE"
  PROVE  \E u \in Units :
             \E S \in SUBSET {x \in Obligations : x[3] = u /\ Selectable(x)} :
                 CreateExplicitPayment(p, u, S)
<1>1. reservation' # reservation
  OBVIOUS
<1>2. ASSUME NEW q \in Payments, NEW state \in {"RELEASED", "APPLIED"},
             MoveReservations(q, state)
      PROVE  FALSE
  BY <1>2 DEF MoveReservations, TypeOK
<1>3. ASSUME NEW q \in Payments,
             RejectPayment(q) \/ ApproveExplicit(q)
      PROVE  FALSE
  BY <1>1, <1>2, <1>3 DEF RejectPayment, RejectAndRelease, ApproveExplicit
<1>4. ASSUME \/ \E f \in ClosableFunds : SetFundActive(f)
             \/ \E b \in Batches, r \in ChargeRequests : CreateChargeBatch(b, r)
             \/ \E b \in Batches : IssueChargeBatch(b) \/ CancelChargeBatch(b)
             \/ \E q \in Payments, u \in Units, f \in Funds, a \in Amounts, m \in ManualFlags :
                    CreatePayment(q, u, f, a, m)
             \/ \E q \in Payments : ApproveAutomatic(q) \/ ReversePayment(q)
             \/ \E x \in Adjustments, f \in Funds, a \in AdjustAmounts : CreateAdjustment(x, f, a)
             \/ \E r \in FeeRequests, item \in Items : CheckLateFee(r, item)
             \/ \E r \in FeeRequests, x \in Adjustments : ApplyLateFee(r, x)
             \/ \E r \in FeeRequests : RefuseLateFee(r)
             \/ \E x \in Adjustments, f \in Funds, t \in OpeningTargets :
                    CorrectOpeningBalance(x, f, t)
             \/ UNCHANGED vars
      PROVE  FALSE
  BY <1>1, <1>4
     DEF SetFundActive, CreateChargeBatch, IssueChargeBatch, CancelChargeBatch, CreatePayment,
         ApproveAutomatic, ReversePayment, CreateAdjustment, RecordAdjustment, CheckLateFee,
         ApplyLateFee, RefuseLateFee, CorrectOpeningBalance, tables, vars
<1>5. ASSUME NEW q \in Payments, NEW u \in Units, NEW S, CreateExplicitPayment(q, u, S)
      PROVE  q = p
  BY <1>5 DEF CreateExplicitPayment, ReserveObligations, TypeOK
<1> QED
  BY <1>3, <1>4, <1>5 DEF Next

\* Whatever a payment reserves of a monthly series, it reserves every older
\* outstanding charge of that series with it.
THEOREM MonthsInOrder == Spec => MonthlyOldestFirst
<1>1. Settled /\ [Next]_vars =>
        [\A p \in Payments, o \in Items :
            reservation[p][o] = "NONE" /\ reservation'[p][o] = "ACTIVE"
                /\ batch[o[2]].series # NoSeries =>
                \A x \in OutstandingItems(o[3]) :
                    batch[x[2]].series = batch[o[2]].series
                        /\ batch[x[2]].period < batch[o[2]].period
                    => reservation'[p][x] = "ACTIVE"]_vars
  <2> SUFFICES ASSUME Settled, [Next]_vars, NEW p \in Payments, NEW o \in Items,
                      reservation[p][o] = "NONE", reservation'[p][o] = "ACTIVE",
                      batch[o[2]].series # NoSeries,
                      NEW x \in OutstandingItems(o[3]),
                      batch[x[2]].series = batch[o[2]].series,
                      batch[x[2]].period < batch[o[2]].period
               PROVE  reservation'[p][x] = "ACTIVE"
    OBVIOUS
  <2>1. o \in Obligations /\ x \in Obligations
    BY ObligationNames DEF OutstandingItems
  <2> PICK u \in Units :
          \E S \in SUBSET {y \in Obligations : y[3] = u /\ Selectable(y)} :
              CreateExplicitPayment(p, u, S)
    BY <2>1, ReservedBy DEF Settled
  <2>2. PICK S \in SUBSET {y \in Obligations : y[3] = u /\ Selectable(y)} :
            CreateExplicitPayment(p, u, S)
    OBVIOUS
  <2>3. reservation'[p] = [y \in Obligations |-> IF y \in S THEN "ACTIVE" ELSE "NONE"]
    BY <2>2 DEF CreateExplicitPayment, ReserveObligations, Settled, TypeOK
  <2>4. o \in S /\ o[3] = u /\ Selectable(o)
    BY <2>1, <2>2, <2>3
  <2> DEFINE s == batch[o[2]].series
             due == {y \in OutstandingItems(u) : batch[y[2]].series = s}
             period == [y \in Items |-> batch[y[2]].period]
  <2>5. o \in OutstandingItems(u)
    <3>1. /\ amount[o] \in Int /\ paid[o] \in Nat /\ amount[o] - paid[o] > 0
          /\ Collectible(o[2])
      BY <2>1, <2>4, ObligationNames DEF Settled, TypeOK, Selectable, Outstanding
    <3>2. amount[o] > 0 /\ itemStatus[o] # "PAID"
      BY <3>1 DEF Settled, ItemsSettleOnlyWhenIssued, ComputeItemStatus
    <3> QED
      BY <2>4, <3>1, <3>2 DEF OutstandingItems
  <2>6. o \in due /\ x \in due
    BY <2>4, <2>5
  <2>7. IsFiniteSet(due) /\ due \subseteq Items
    <3>1. due \subseteq Items /\ due \subseteq Obligations
      BY ObligationNames DEF OutstandingItems
    <3> QED
      BY <3>1, SubsetFinite
  <2>8. \A y \in due : period[y] \in Nat /\ period[y] = batch[y[2]].period
    BY <2>7, ObligationNames DEF Settled, TypeOK, BatchRows
  <2>9. \A y \in due :
            Cardinality({z \in due : batch[z[2]].period < batch[y[2]].period})
                < Cardinality(due \cap S) => y \in S
    <3>1. s \in {batch[y[2]].series : y \in S \cap Items} \ {NoSeries}
      BY <2>4
    <3>2. NoMonthlyGap(u, S)
      BY <2>2 DEF CreateExplicitPayment, ReserveObligations
    <3> QED
      BY <3>1, <3>2 DEF NoMonthlyGap
  <2>10. \A y \in due :
             Cardinality({z \in due : period[z] < period[y]}) < Cardinality(due \cap S)
                 => y \in S
    <3> SUFFICES ASSUME NEW y \in due,
                        Cardinality({z \in due : period[z] < period[y]}) < Cardinality(due \cap S)
                 PROVE  y \in S
      OBVIOUS
    <3>1. {z \in due : period[z] < period[y]}
            = {z \in due : batch[z[2]].period < batch[y[2]].period}
      BY <2>8
    <3> QED
      BY <2>9, <3>1
  <2>11. period[x] < period[o]
    BY <2>6, <2>8
  <2> HIDE DEF due, period
  <2>12. x \in S
    BY <2>4, <2>6, <2>7, <2>8, <2>10, <2>11, NoneOlderLeftOut
  <2> QED
    BY <2>1, <2>3, <2>12
<1> QED
  BY <1>1, SettledAlways, PTL DEF Spec, MonthlyOldestFirst

=============================================================================

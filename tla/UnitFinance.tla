---------------------------- MODULE UnitFinance ----------------------------
(***************************************************************************)
(* The receivables of a building's units: charge batches and their items,  *)
(* adjustments, payments with their reservations and allocations, the      *)
(* unit's credit balance, the ledger and the funds' cached balances        *)
(* (finance.repository.ts, called by finance.service.ts).                  *)
(*                                                                         *)
(* Every mutation below runs in one database transaction that first takes  *)
(* the advisory lock of each unit it touches and then re-reads what it     *)
(* decides on, so it is one atomic step here.  Reads a service makes       *)
(* before that transaction are steps of their own when the transaction     *)
(* does not repeat them (the eligibility check of a late fee).             *)
(***************************************************************************)
EXTENDS Money

CONSTANTS
    Units,           \* units of one building
    Funds,           \* its funds
    Batches,         \* charge batches, numbered in creation order
    Payments,        \* one element per (payer, building, idempotency key)
    Slots,           \* adjustments of a unit, numbered in creation order
    ChargeRequests,  \* bodies of createChargeBatch requests
    Amounts,         \* amounts a payer reports
    ManualFlags,     \* values of isManualAmount
    AdjustAmounts,   \* amounts of manual adjustments, negative for a waiver
    OpeningTargets,  \* target balances of opening-balance corrections
    FeeRequests,     \* late-fee requests in flight at the same time
    ClosableFunds,   \* funds a manager may deactivate and reactivate
    NoSeries,        \* seriesId of a batch that is not monthly
    NoItem           \* "no charge item"

ASSUME NumberedAssumption ==
    /\ Batches \subseteq Nat /\ IsFiniteSet(Batches)
    /\ Slots \subseteq Nat /\ IsFiniteSet(Slots)

ASSUME FiniteAssumption ==
    /\ IsFiniteSet(Units) /\ Units # {}
    /\ IsFiniteSet(Payments)
    /\ Funds # {}
    /\ ClosableFunds \subseteq Funds

\* Every charge item amount is a positive rial amount; 0 is "no row".
ASSUME AmountAssumption ==
    /\ Amounts \subseteq Nat \ {0}
    /\ AdjustAmounts \subseteq Int \ {0}
    /\ OpeningTargets \subseteq Int
    /\ ManualFlags \subseteq BOOLEAN

\* An obligation is named by its kind and its primary key: a ChargeItem by
\* (batch, unit), an Adjustment by its number among its unit's adjustments.
Items       == {"CHARGE_ITEM"} \X Batches \X Units
Adjustments == {"ADJUSTMENT"} \X Slots \X Units
Obligations == Items \cup Adjustments

ItemOf(b, u) == <<"CHARGE_ITEM", b, u>>

ASSUME NoItemAssumption == NoItem \notin Items

ASSUME RequestAssumption ==
    \A r \in ChargeRequests :
        /\ r.fund \in Funds
        /\ r.due \in Nat
        /\ r.period \in Nat
        /\ r.lateFee \in Nat
        /\ r.items \in [Units -> Nat]

VARIABLES
    batch,        \* charge_batches
    amount,       \* amount of a charge item or adjustment, 0 when no row
    paid,         \* its paidAmount
    itemStatus,   \* ChargeItem.status
    adjustment,   \* adjustments: source, sourceId, fund
    payment,      \* payments
    selected,     \* payment_debt_selections.selectedAmount, 0 when no row
    reservation,  \* payment_debt_selections.reservationState
    alloc,        \* payment_allocations.amount, 0 when no row
    credit,       \* credit_balances.balance of a unit
    balance,      \* funds.balance
    active,       \* funds.isActive
    ledger,       \* ledger_entries
    feeCheck,     \* item a late-fee request found eligible and will charge
    waived        \* history: rials of an obligation written off, never paid

tables == <<batch, amount, paid, itemStatus, adjustment, payment, selected,
            reservation, alloc, credit, balance, active, ledger>>
vars == <<tables, feeCheck, waived>>

-----------------------------------------------------------------------------
(* What the queries select.                                                *)

Max0(n) == AtLeastZero(n)

ComputeItemStatus(paidAmount, full) ==
    IF paidAmount <= 0 THEN "UNPAID"
    ELSE IF paidAmount >= full THEN "PAID" ELSE "PARTIALLY_PAID"

Collectible(b) == batch[b].status \in {"ISSUED", "CLOSED"}

Outstanding == [o \in Obligations |-> amount[o] - paid[o]]

\* Mutant: the batch status filter is missing.
ItemsOfAnyBatch(u) ==
    {o \in Items : o[3] = u /\ amount[o] > 0 /\ itemStatus[o] # "PAID"}

OutstandingItems(u) ==
    {o \in Items : /\ o[3] = u /\ Collectible(o[2])
                   /\ amount[o] > 0 /\ itemStatus[o] # "PAID"}

PositiveAdjustments(u) == {o \in Adjustments : o[3] = u /\ amount[o] > 0}

Debts(u) == OutstandingItems(u) \cup PositiveAdjustments(u)

Pending(u) ==
    {p \in Payments : payment[p].status = "PENDING_APPROVAL" /\ payment[p].unit = u}

PaymentAmount == [p \in Payments |-> payment[p].amount]

\* buildDebtSnapshot: what an auto-filled payment may still report.
RemainingPayable(u) ==
    Max0(Total(Debts(u), Outstanding) - credit[u] - Total(Pending(u), PaymentAmount))

\* Oldest debt first: earliest due date, then earliest created; adjustments
\* by creation, after every charge item.
PaidBefore(x, o) ==
    \/ x[1] = "CHARGE_ITEM" /\ o[1] = "ADJUSTMENT"
    \/ /\ x[1] = "CHARGE_ITEM" /\ o[1] = "CHARGE_ITEM"
       /\ \/ batch[x[2]].due < batch[o[2]].due
          \/ batch[x[2]].due = batch[o[2]].due /\ x[2] < o[2]
    \/ x[1] = "ADJUSTMENT" /\ o[1] = "ADJUSTMENT" /\ x[2] < o[2]

\* Mutant: the newest debt is paid first.
NewestFirstShares(S, cash) ==
    [o \in Obligations |->
        IF o \in S
        THEN Covered(Outstanding[o],
                     Total({x \in S : PaidBefore(o, x)}, Outstanding), cash)
        ELSE 0]

\* The allocation loop: what each debt of S receives from cash.
Shares(S, cash) ==
    [o \in Obligations |->
        IF o \in S
        THEN Covered(Outstanding[o],
                     Total({x \in S : PaidBefore(x, o)}, Outstanding), cash)
        ELSE 0]

Reserved(o) == \E p \in Payments : reservation[p][o] = "ACTIVE"
-----------------------------------------------------------------------------
(* Rows written by the operations.                                         *)

AnyUnit == CHOOSE u \in Units : TRUE
AnyFund == CHOOSE f \in Funds : TRUE

NoBatch   == [status |-> "NONE", fund |-> AnyFund, due |-> 0,
              series |-> NoSeries, period |-> 0, lateFee |-> 0]
NoPayment == [status |-> "NONE", mode |-> "LEGACY_AUTOMATIC", unit |-> AnyUnit,
              fund |-> AnyFund, amount |-> 0]
NoAdjustment == [source |-> "NONE", item |-> NoItem, fund |-> AnyFund]

\* Mutant: every entry is posted as a credit.
CreditEntry(type, direction, ref, f, a) ==
    [type |-> type, direction |-> "CREDIT", ref |-> ref, fund |-> f, amount |-> a]

Entry(type, direction, ref, f, a) ==
    [type |-> type, direction |-> direction, ref |-> ref, fund |-> f, amount |-> a]

\* paidAmount and status of the items it changes are written together.
WritePaid(new) ==
    /\ paid' = new
    /\ itemStatus' = [o \in Items |->
           IF new[o] = paid[o] THEN itemStatus[o]
           ELSE ComputeItemStatus(new[o], amount[o])]

\* Mutant: paidAmount is set to the new share instead of incremented by it.
ReplacedBy(f, g) == [o \in Obligations |-> IF g[o] > 0 THEN g[o] ELSE f[o]]

AddedTo(f, g) == [o \in Obligations |-> f[o] + g[o]]

\* The next adjustment row of a unit.
IsNextSlot(o) ==
    /\ adjustment[o].source = "NONE"
    /\ \A k \in Slots : k < o[2] => adjustment[<<"ADJUSTMENT", k, o[3]>>].source # "NONE"

InsertAdjustment(o, source, item, f, a) ==
    /\ IsNextSlot(o)
    /\ adjustment' = [adjustment EXCEPT ![o] = [source |-> source, item |-> item, fund |-> f]]
    /\ amount' = [amount EXCEPT ![o] = a]

AdjustmentEntry(o, f, a) ==
    IF a < 0 THEN Entry("ADJUSTMENT", "CREDIT", o, f, -a)
    ELSE Entry("ADJUSTMENT", "DEBIT", o, f, a)

Init ==
    /\ batch = [b \in Batches |-> NoBatch]
    /\ amount = [o \in Obligations |-> 0]
    /\ paid = [o \in Obligations |-> 0]
    /\ itemStatus = [o \in Items |-> "UNPAID"]
    /\ adjustment = [o \in Adjustments |-> NoAdjustment]
    /\ payment = [p \in Payments |-> NoPayment]
    /\ selected = [p \in Payments |-> [o \in Obligations |-> 0]]
    /\ reservation = [p \in Payments |-> [o \in Obligations |-> "NONE"]]
    /\ alloc = [p \in Payments |-> [o \in Obligations |-> 0]]
    /\ credit = [u \in Units |-> 0]
    /\ balance = [f \in Funds |-> 0]
    /\ active = [f \in Funds |-> TRUE]
    /\ ledger = {}
    /\ feeCheck = [r \in FeeRequests |-> NoItem]
    /\ waived = [o \in Obligations |-> 0]

-----------------------------------------------------------------------------
(* Funds and charge batches.                                               *)

\* deactivateFund / reactivateFund.
SetFundActive(f) ==
    /\ active' = [active EXCEPT ![f] = ~active[f]]
    /\ UNCHANGED <<batch, amount, paid, itemStatus, adjustment, payment, selected,
                   reservation, alloc, credit, balance, ledger, feeCheck, waived>>

\* The partial unique index on (seriesId, periodStart) covers monthly batches
\* of every status.  Only a classified charge re-checks the fund under lock.
CreateChargeBatch(b, r) ==
    /\ batch[b].status = "NONE"
    /\ \A c \in Batches : c < b => batch[c].status # "NONE"
    /\ r.series # NoSeries =>
           /\ active[r.fund]
           /\ \A c \in Batches : <<batch[c].series, batch[c].period>> # <<r.series, r.period>>
    /\ batch' = [batch EXCEPT ![b] =
           [status |-> "DRAFT", fund |-> r.fund, due |-> r.due,
            series |-> r.series, period |-> r.period, lateFee |-> r.lateFee]]
    /\ amount' = [o \in Obligations |->
           IF o[1] = "CHARGE_ITEM" /\ o[2] = b THEN r.items[o[3]] ELSE amount[o]]
    /\ UNCHANGED <<paid, itemStatus, adjustment, payment, selected, reservation,
                   alloc, credit, balance, active, ledger, feeCheck, waived>>

\* The credit issuing b consumes for unit u.
CreditApplied(b, u) == Lesser(credit[u], Outstanding[ItemOf(b, u)])

IssueChargeBatch(b) ==
    LET total == Total({ItemOf(b, u) : u \in Units}, amount)
        applied == [u \in Units |-> CreditApplied(b, u)]
    IN
    /\ batch[b].status = "DRAFT"
    /\ total > 0
    /\ batch' = [batch EXCEPT ![b].status = "ISSUED"]
    /\ WritePaid([o \in Obligations |->
           IF o[1] = "CHARGE_ITEM" /\ o[2] = b THEN paid[o] + applied[o[3]] ELSE paid[o]])
    /\ credit' = [u \in Units |-> credit[u] - applied[u]]
    /\ ledger' = ledger
           \cup {Entry("CREDIT_APPLIED", "CREDIT", ItemOf(b, u), batch[b].fund, applied[u]) :
                    u \in {v \in Units : applied[v] > 0}}
           \cup {Entry("CHARGE", "DEBIT", <<"CHARGE_BATCH", b>>, batch[b].fund, total)}
    /\ UNCHANGED <<amount, adjustment, payment, selected, reservation, alloc,
                   balance, active, feeCheck, waived>>

CancelChargeBatch(b) ==
    /\ batch[b].status \in {"DRAFT", "ISSUED"}
    /\ \A u \in Units : paid[ItemOf(b, u)] = 0
    /\ batch' = [batch EXCEPT ![b].status = "CANCELLED"]
    /\ UNCHANGED <<amount, paid, itemStatus, adjustment, payment, selected,
                   reservation, alloc, credit, balance, active, ledger, feeCheck, waived>>
-----------------------------------------------------------------------------
(* Payments.  A retry of a key that is already there writes nothing: it     *)
(* returns the first payment or fails with a conflict.                     *)

InsertPayment(p, mode, u, f, a) ==
    /\ payment[p].status = "NONE"
    /\ payment' = [payment EXCEPT ![p] =
           [status |-> "PENDING_APPROVAL", mode |-> mode, unit |-> u, fund |-> f, amount |-> a]]

\* The fund's isActive was read before the transaction and is not read again.
CreatePayment(p, u, f, a, manual) ==
    /\ ~manual => a <= RemainingPayable(u)
    /\ InsertPayment(p, "LEGACY_AUTOMATIC", u, f, a)
    /\ UNCHANGED <<batch, amount, paid, itemStatus, adjustment, selected, reservation,
                   alloc, credit, balance, active, ledger, feeCheck, waived>>

\* Mutant: the check of active reservations is missing.
SelectableWhileReserved(o) ==
    /\ o[1] = "CHARGE_ITEM" => Collectible(o[2])
    /\ Outstanding[o] > 0

Selectable(o) ==
    /\ o[1] = "CHARGE_ITEM" => Collectible(o[2])
    /\ Outstanding[o] > 0
    /\ ~Reserved(o)

FundOf(o) == IF o[1] = "CHARGE_ITEM" THEN batch[o[2]].fund ELSE adjustment[o].fund

\* Mutant: months may be selected in any order.
AnyMonths(u, S) == TRUE

\* The items of S in a monthly series are the first ones of the unit's
\* outstanding items of that series, by period.
NoMonthlyGap(u, S) ==
    \A s \in {batch[o[2]].series : o \in S \cap Items} \ {NoSeries} :
        LET due == {o \in OutstandingItems(u) : batch[o[2]].series = s}
            older(o) == {x \in due : batch[x[2]].period < batch[o[2]].period}
        IN \A o \in due : Cardinality(older(o)) < Cardinality(due \cap S) => o \in S

\* The transaction, under the unit's lock: every check is made on what it reads there.
ReserveObligations(p, u, S) ==
    LET f == FundOf(CHOOSE o \in S : TRUE) IN
    /\ \A o \in S : o[3] = u /\ Selectable(o)
    /\ NoMonthlyGap(u, S)
    /\ \A o \in S : FundOf(o) = f
    /\ active[f]
    /\ InsertPayment(p, "EXPLICIT_SELECTION", u, f, Total(S, Outstanding))
    /\ selected' = [selected EXCEPT ![p] =
           [o \in Obligations |-> IF o \in S THEN Outstanding[o] ELSE 0]]
    /\ reservation' = [reservation EXCEPT ![p] =
           [o \in Obligations |-> IF o \in S THEN "ACTIVE" ELSE "NONE"]]
    /\ UNCHANGED <<batch, amount, paid, itemStatus, adjustment, alloc, credit,
                   balance, active, ledger, feeCheck, waived>>

\* The identifiers of the request name different obligations, at least one.
CreateExplicitPayment(p, u, S) == S # {} /\ ReserveObligations(p, u, S)

\* Mutant: the reservations of a decided payment stay active.
KeepReservations(p, state) == UNCHANGED reservation

MoveReservations(p, state) ==
    reservation' = [reservation EXCEPT ![p] =
        [o \in Obligations |->
            IF reservation[p][o] = "ACTIVE" THEN state ELSE reservation[p][o]]]

\* What the transaction writes.
RejectAndRelease(p) ==
    /\ payment' = [payment EXCEPT ![p].status = "REJECTED"]
    /\ IF payment[p].mode = "EXPLICIT_SELECTION"
       THEN MoveReservations(p, "RELEASED")
       ELSE UNCHANGED reservation
    /\ UNCHANGED <<batch, amount, paid, itemStatus, adjustment, selected, alloc,
                   credit, balance, active, ledger, feeCheck, waived>>

\* Pending when the request reads it, and again under the unit's lock.
RejectPayment(p) == payment[p].status = "PENDING_APPROVAL" /\ RejectAndRelease(p)

Selection(p) == {o \in Obligations : reservation[p][o] # "NONE"}

\* Approval posts the full amount to the ledger and to the fund.
Approve(p, shares) ==
    /\ payment[p].status = "PENDING_APPROVAL"
    /\ payment' = [payment EXCEPT ![p].status = "APPROVED"]
    /\ alloc' = [alloc EXCEPT ![p] = shares]
    /\ WritePaid(AddedTo(paid, shares))
    /\ ledger' = ledger \cup
           {Entry("PAYMENT", "CREDIT", p, payment[p].fund, payment[p].amount)}
    /\ balance' = [balance EXCEPT ![payment[p].fund] = @ + payment[p].amount]

ApproveExplicit(p) ==
    /\ payment[p].mode = "EXPLICIT_SELECTION"
    /\ Selection(p) # {}
    /\ \A o \in Selection(p) :
           /\ reservation[p][o] = "ACTIVE"
           /\ Outstanding[o] = selected[p][o]
           /\ o[1] = "CHARGE_ITEM" => Collectible(o[2])
    /\ Total(Selection(p), selected[p]) = payment[p].amount
    /\ Approve(p, [o \in Obligations |->
                      IF o \in Selection(p) THEN selected[p][o] ELSE 0])
    /\ MoveReservations(p, "APPLIED")
    /\ UNCHANGED <<batch, amount, adjustment, selected, credit, active, feeCheck, waived>>

\* Reservations of other payments are not looked at.
ApproveAutomatic(p) ==
    LET u == payment[p].unit
        surplus == LeftOver(Total(Debts(u), Outstanding), payment[p].amount)
    IN
    /\ payment[p].mode = "LEGACY_AUTOMATIC"
    /\ Approve(p, Shares(Debts(u), payment[p].amount))
    /\ credit' = [credit EXCEPT ![u] = @ + surplus]
    /\ UNCHANGED <<batch, amount, adjustment, selected, reservation, active,
                   feeCheck, waived>>

\* Mutant: the part of a payment that became credit counts as allocated.
WholePayment(p) == payment[p].amount

Allocated(p) == Total(Obligations, alloc[p])

\* Mutant: a reversal leaves the settled debts paid.
StillPaid(p) == paid

\* paidAmount once the allocations of p are taken back.
Reopened(p) ==
    [o \in Obligations |->
        IF alloc[p][o] > 0 THEN Max0(paid[o] - alloc[p][o]) ELSE paid[o]]

ReversePayment(p) ==
    /\ payment[p].status = "APPROVED"
    /\ Allocated(p) = payment[p].amount
    /\ payment' = [payment EXCEPT ![p].status = "REVERSED"]
    /\ WritePaid(Reopened(p))
    /\ ledger' = ledger \cup
           {Entry("REVERSAL", "DEBIT", p, payment[p].fund, payment[p].amount)}
    /\ balance' = [balance EXCEPT ![payment[p].fund] = @ - payment[p].amount]
    /\ UNCHANGED <<batch, amount, adjustment, selected, reservation, alloc, credit,
                   active, feeCheck, waived>>

\* Mutant: an allocated payment may be refunded.
RefundableOnceApproved(p) ==
    /\ payment[p].status = "APPROVED"
    /\ ~(payment[p].amount - Allocated(p) > 0)

\* What createRefund demands of a payment before it writes anything.
Refundable(p) ==
    /\ payment[p].status = "APPROVED"
    /\ Allocated(p) <= payment[p].amount
    /\ ~(payment[p].amount - Allocated(p) > 0)
    /\ ~(Allocated(p) > 0)
-----------------------------------------------------------------------------
(* Adjustments.                                                            *)

\* cash of debt is written off the debts of S, oldest first.
WriteOff(S, cash) ==
    /\ WritePaid(AddedTo(paid, Shares(S, cash)))
    /\ waived' = AddedTo(waived, Shares(S, cash))

\* A waiver larger than the unit's outstanding items is cut off at them.
RecordAdjustment(o, f, a) ==
    /\ InsertAdjustment(o, "MANUAL", NoItem, f, a)
    /\ IF a < 0 THEN WriteOff(OutstandingItems(o[3]), -a)
       ELSE UNCHANGED <<paid, itemStatus, waived>>
    /\ ledger' = ledger \cup {AdjustmentEntry(o, f, a)}
    /\ UNCHANGED <<batch, payment, selected, reservation, alloc, credit, balance,
                   active, feeCheck>>

\* assertValidAdjustmentAmount; the fund's isActive was read before the transaction.
CreateAdjustment(o, f, a) == a # 0 /\ RecordAdjustment(o, f, a)

\* Mutant: the lookup and the index are on the wrong source type.
FeeChargedByHand(item) ==
    \E o \in Adjustments : adjustment[o].source = "MANUAL" /\ adjustment[o].item = item

FeeCharged(item) ==
    \E o \in Adjustments : adjustment[o].source = "LATE_FEE" /\ adjustment[o].item = item

\* computeLateFeeEligibility, except that dueDate + graceDays may have passed
\* at any time after issue.
FeeEligible(item) ==
    /\ batch[item[2]].status = "ISSUED"
    /\ batch[item[2]].lateFee > 0
    /\ Outstanding[item] > 0
    /\ ~FeeCharged(item)

\* applyLateFee up to the transaction.
CheckLateFee(r, item) ==
    /\ feeCheck[r] = NoItem
    /\ FeeEligible(item)
    /\ feeCheck' = [feeCheck EXCEPT ![r] = item]
    /\ UNCHANGED <<tables, waived>>

\* The transaction: createAdjustment with sourceType LATE_FEE.
ApplyLateFee(r, o) ==
    LET item == feeCheck[r]
        b == batch[item[2]]
    IN
    /\ item # NoItem
    /\ item[3] = o[3]
    /\ Collectible(item[2])
    /\ ~FeeCharged(item)
    /\ InsertAdjustment(o, "LATE_FEE", item, b.fund, b.lateFee)
    /\ ledger' = ledger \cup {AdjustmentEntry(o, b.fund, b.lateFee)}
    /\ feeCheck' = [feeCheck EXCEPT ![r] = NoItem]
    /\ UNCHANGED <<batch, paid, itemStatus, payment, selected, reservation, alloc,
                   credit, balance, active, waived>>

\* It rolls back when the batch was cancelled or the unique index on
\* (sourceType, sourceId) already holds the item.
RefuseLateFee(r) ==
    /\ feeCheck[r] # NoItem
    /\ ~Collectible(feeCheck[r][2]) \/ FeeCharged(feeCheck[r])
    /\ feeCheck' = [feeCheck EXCEPT ![r] = NoItem]
    /\ UNCHANGED <<tables, waived>>

Corrections(u) ==
    {o \in Adjustments : o[3] = u /\ adjustment[o].source = "OPENING_BALANCE_CORRECTION"}

Negated(f) == [o \in Obligations |-> -f[o]]

\* The effective opening balance: the signed sum of the unit's corrections.
OpeningBalance(u) ==
    Total(Corrections(u), amount) - Total(Corrections(u), Negated(amount))

CorrectOpeningBalance(o, f, target) ==
    LET u == o[3]
        delta == target - OpeningBalance(u)
        prior == {x \in Corrections(u) : amount[x] > 0}
    IN
    /\ delta # 0
    /\ InsertAdjustment(o, "OPENING_BALANCE_CORRECTION", NoItem, f, delta)
    /\ IF delta < 0
       THEN /\ WriteOff(prior, -delta)
            /\ credit' = [credit EXCEPT
                   ![u] = @ + LeftOver(Total(prior, Outstanding), -delta)]
       ELSE UNCHANGED <<paid, itemStatus, waived, credit>>
    /\ ledger' = ledger \cup {AdjustmentEntry(o, f, delta)}
    /\ UNCHANGED <<batch, payment, selected, reservation, alloc, balance, active,
                   feeCheck>>

-----------------------------------------------------------------------------
Next ==
    \/ \E f \in ClosableFunds : SetFundActive(f)
    \/ \E b \in Batches, r \in ChargeRequests : CreateChargeBatch(b, r)
    \/ \E b \in Batches : IssueChargeBatch(b)
    \/ \E b \in Batches : CancelChargeBatch(b)
    \/ \E p \in Payments, u \in Units, f \in Funds, a \in Amounts, m \in ManualFlags :
           CreatePayment(p, u, f, a, m)
    \/ \E p \in Payments, u \in Units :
           \E S \in SUBSET {o \in Obligations : o[3] = u /\ Selectable(o)} :
               CreateExplicitPayment(p, u, S)
    \/ \E p \in Payments : RejectPayment(p)
    \/ \E p \in Payments : ApproveExplicit(p)
    \/ \E p \in Payments : ApproveAutomatic(p)
    \/ \E p \in Payments : ReversePayment(p)
    \/ \E o \in Adjustments, f \in Funds, a \in AdjustAmounts : CreateAdjustment(o, f, a)
    \/ \E r \in FeeRequests, item \in Items : CheckLateFee(r, item)
    \/ \E r \in FeeRequests, o \in Adjustments : ApplyLateFee(r, o)
    \/ \E r \in FeeRequests : RefuseLateFee(r)
    \/ \E o \in Adjustments, f \in Funds, t \in OpeningTargets :
           CorrectOpeningBalance(o, f, t)

Spec == Init /\ [][Next]_vars
-----------------------------------------------------------------------------
(* Properties.                                                             *)

BatchRows == [status : {"NONE", "DRAFT", "ISSUED", "CLOSED", "CANCELLED"},
              fund : Funds, due : Nat, series : {r.series : r \in ChargeRequests} \cup {NoSeries},
              period : Nat, lateFee : Nat]
PaymentRows == [status : {"NONE", "PENDING_APPROVAL", "APPROVED", "REJECTED", "REVERSED"},
                mode : {"LEGACY_AUTOMATIC", "EXPLICIT_SELECTION"},
                unit : Units, fund : Funds, amount : Nat]
AdjustmentRows ==
    [source : {"NONE", "MANUAL", "LATE_FEE", "OPENING_BALANCE_CORRECTION"},
     item : Items \cup {NoItem}, fund : Funds]
ItemStatuses == {"UNPAID", "PARTIALLY_PAID", "PAID"}
ReservationStates == {"NONE", "ACTIVE", "APPLIED", "RELEASED"}

\* Every column holds a value of its type; only paid amounts and credit are
\* stated to be natural, which the code's subtractions must preserve.
TypeOK ==
    /\ batch \in [Batches -> BatchRows]
    /\ amount \in [Obligations -> Int]
    /\ paid \in [Obligations -> Nat]
    /\ itemStatus \in [Items -> ItemStatuses]
    /\ adjustment \in [Adjustments -> AdjustmentRows]
    /\ payment \in [Payments -> PaymentRows]
    /\ selected \in [Payments -> [Obligations -> Nat]]
    /\ reservation \in [Payments -> [Obligations -> ReservationStates]]
    /\ alloc \in [Payments -> [Obligations -> Nat]]
    /\ credit \in [Units -> Nat]
    /\ balance \in [Funds -> Int]
    /\ active \in [Funds -> BOOLEAN]
    /\ feeCheck \in [FeeRequests -> Items \cup {NoItem}]
    /\ waived \in [Obligations -> Nat]

\* An obligation is held by at most one live reservation, whatever mix of
\* explicit payments, rejections and approvals ran before.
ReservationExclusive ==
    \A p, q \in Payments, o \in Obligations :
        reservation[p][o] = "ACTIVE" /\ reservation[q][o] = "ACTIVE" => p = q

\* A reservation lives exactly as long as its payment is pending; the
\* approval that applies it allocates what was reserved and nothing else.
ReservationFollowsPayment ==
    \A p \in Payments, o \in Obligations :
        LET s == payment[p].status IN
        /\ reservation[p][o] = "ACTIVE" => s = "PENDING_APPROVAL"
        /\ reservation[p][o] = "RELEASED" => s = "REJECTED"
        /\ reservation[p][o] = "APPLIED" =>
               s \in {"APPROVED", "REVERSED"} /\ alloc[p][o] = selected[p][o]
        /\ s \in {"NONE", "PENDING_APPROVAL", "REJECTED"} => alloc[p][o] = 0

\* A charge item is never paid beyond its amount, and its status column, which
\* every query filters on, tells whether principal is outstanding; only an
\* issued batch has paid items, so a cancelled charge keeps nobody's money.
ItemsSettleOnlyWhenIssued ==
    \A o \in Items :
        /\ paid[o] <= amount[o]
        /\ itemStatus[o] = ComputeItemStatus(paid[o], amount[o])
        /\ paid[o] > 0 => Collectible(o[2])

CreditAppliedTo(o) ==
    {e \in ledger : e.type = "CREDIT_APPLIED" /\ e.ref = o}

EntryAmount == [e \in ledger |-> e.amount]

\* Every paid rial of an obligation has exactly one origin: a live allocation
\* of an approved payment, credit applied at issue, or a write-off.  A reversal
\* therefore never hits the Math.max(0, ...) that would hide a lost rial.
PaidExplained ==
    \A o \in Obligations :
        paid[o] = Total({p \in Payments : payment[p].status = "APPROVED"},
                        [p \in Payments |-> alloc[p][o]])
                  + Total(CreditAppliedTo(o), EntryAmount)
                  + waived[o]

\* What the unit was charged, less what it paid and what its charges were
\* written down, is what it owes less its credit: no interleaving of issues,
\* approvals, reversals and corrections creates or destroys debt.
NetPosition ==
    \A u \in Units :
        LET charged == {o \in Items : o[3] = u /\ Collectible(o[2])}
            corrections == Corrections(u)
            approved == {p \in Payments :
                            payment[p].unit = u /\ payment[p].status = "APPROVED"}
        IN Total(Debts(u), Outstanding) - credit[u] =
             Total(charged \cup PositiveAdjustments(u), amount)
             - Total(corrections, Negated(amount))
             - Total(charged, waived)
             - Total(approved, PaymentAmount)

Cash == INSTANCE FundLedger

\* The ledger is append-only, no cash entry is posted twice, and each one
\* moves its fund's balance by its amount in the same transaction.
ImplementsFundLedger == Cash!Spec

\* Fund.balance is a cache: replaying the ledger's cash entries rebuilds it.
BalanceIsLedgerReplay == Cash!BalanceIsReplay

\* However many requests race, a charge item carries at most one late fee.
LateFeeOnce ==
    \A x, y \in Adjustments :
        /\ adjustment[x].source = "LATE_FEE" /\ adjustment[y].source = "LATE_FEE"
        /\ adjustment[x].item = adjustment[y].item
        => x = y

\* The refund guards exclude each other: an approved payment is either fully
\* allocated or left credit, so no payment can ever be refunded.
NoPaymentRefundable == \A p \in Payments : ~Refundable(p)

\* A reversal is only of a payment that left no credit, and it reopens the
\* debts the payment settled: afterwards the fund and the debts stand as if the
\* payment had never been approved.
ReversalReopens ==
    [][\A p \in Payments :
          payment[p].status = "APPROVED" /\ payment'[p].status = "REVERSED" =>
              /\ credit' = credit
              /\ \A o \in Obligations : paid[o] - paid'[o] = alloc[p][o]]_vars

\* Cash reaches an obligation only when every older debt of its unit is
\* settled, and turns into credit only when nothing at all is owed.
OldestDebtFirst ==
    [][\A p \in Payments :
          LET u == payment[p].unit IN
          /\ payment[p].status = "PENDING_APPROVAL" /\ payment'[p].status = "APPROVED"
          /\ payment[p].mode = "LEGACY_AUTOMATIC"
          => /\ \A x, o \in Debts(u) :
                    alloc'[p][o] > 0 /\ PaidBefore(x, o) => paid'[x] = amount[x]
             /\ credit'[u] > credit[u] => \A x \in Debts(u) : paid'[x] = amount[x]]_vars

\* No payment reserves a monthly charge while an older outstanding charge of
\* the same series is left out of it.
MonthlyOldestFirst ==
    [][\A p \in Payments, o \in Items :
          reservation[p][o] = "NONE" /\ reservation'[p][o] = "ACTIVE"
              /\ batch[o[2]].series # NoSeries =>
              \A x \in OutstandingItems(o[3]) :
                  batch[x[2]].series = batch[o[2]].series
                      /\ batch[x[2]].period < batch[o[2]].period
                  => reservation'[p][x] = "ACTIVE"]_vars

\* A late fee charges an item that still has outstanding principal.
LateFeeOnOutstanding ==
    [][\A o \in Adjustments :
          adjustment[o].source = "NONE" /\ adjustment'[o].source = "LATE_FEE" =>
              Outstanding[adjustment'[o].item] > 0]_vars
=============================================================================

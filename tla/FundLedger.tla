----------------------------- MODULE FundLedger -----------------------------
(***************************************************************************)
(* What the finance module promises of its ledger (the notes above the     *)
(* Finance section of schema.prisma): entries are only ever added, and     *)
(* Fund.balance is a cache that each transaction moves together with the   *)
(* entry that explains the movement.  UnitFinance and FundCash are shown   *)
(* to implement this specification.                                        *)
(***************************************************************************)
EXTENDS Money

CONSTANT Funds

VARIABLES
    ledger,   \* ledger_entries
    balance   \* funds.balance

\* affectsFundBalance, and OPENING_BALANCE, which createFund applies itself.
CashTypes == {"OPENING_BALANCE", "PAYMENT", "REFUND", "REVERSAL", "EXPENSE"}

MovesCash(e) == e.type \in CashTypes

SignedAmount(e) == IF e.direction = "CREDIT" THEN e.amount ELSE -e.amount

IsEntry(e) ==
    e.direction \in {"CREDIT", "DEBIT"} /\ e.amount \in Nat /\ e.fund \in Funds

Init == ledger = {} /\ balance = [f \in Funds |-> 0]

\* A transaction posts entries that move no cash (a charge, an adjustment,
\* credit applied to a charge).
PostReceivable ==
    /\ ledger \subseteq ledger'
    /\ IsFiniteSet(ledger' \ ledger)
    /\ \A e \in ledger' \ ledger : IsEntry(e) /\ ~MovesCash(e)
    /\ balance' = balance

\* A transaction posts one cash entry, that was not there, and moves its fund.
PostCash ==
    \E e \in ledger' \ ledger :
        /\ ledger' = ledger \cup {e}
        /\ IsEntry(e) /\ MovesCash(e)
        /\ balance' = [balance EXCEPT ![e.fund] = @ + SignedAmount(e)]

Next == PostReceivable \/ PostCash

Spec == Init /\ [][Next]_<<ledger, balance>>

-----------------------------------------------------------------------------
EntryAmount == [e \in ledger |-> e.amount]

CashEntries(f, direction) ==
    {e \in ledger : MovesCash(e) /\ e.fund = f /\ e.direction = direction}

\* Fund.balance can be rebuilt by replaying the ledger: it is the credits
\* less the debits of the fund's cash entries.
BalanceIsReplay ==
    \A f \in Funds :
        balance[f] = Total(CashEntries(f, "CREDIT"), EntryAmount)
                     - Total(CashEntries(f, "DEBIT"), EntryAmount)
=============================================================================

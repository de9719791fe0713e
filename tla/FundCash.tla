------------------------------ MODULE FundCash ------------------------------
(***************************************************************************)
(* The cash of a building's funds: opening balances, payments received,    *)
(* expenses and their voids, and the reads these operations decide on.     *)
(*                                                                         *)
(* Unlike the unit-locked operations of UnitFinance, an expense takes no   *)
(* lock: the service resolves the fund and checks its balance, a READ      *)
(* COMMITTED transaction reads the balance again, and only then inserts    *)
(* the expense and decrements the balance.  Each of these is a step, so    *)
(* other requests run between them.  A payment resolves its fund before    *)
(* the transaction that inserts it.                                        *)
(***************************************************************************)
EXTENDS Money

CONSTANTS
    Funds,            \* funds of one building
    DefaultFund,      \* the isDefault one, which is never deactivated
    OpeningBalances,  \* values of initialBalance
    ExpenseRequests,  \* expense requests, retries included
    Body,             \* Body[r]: fund, amount and idempotency key of r
    VoidRequests,     \* void requests
    PaymentRequests,  \* payment reports
    PaymentBody,      \* PaymentBody[p]: fund and amount of p
    NoExpense         \* "no expense"

ASSUME BodyAssumption ==
    /\ DefaultFund \in Funds
    /\ OpeningBalances \subseteq Nat
    /\ \A r \in ExpenseRequests : Body[r].fund \in Funds /\ Body[r].amount \in Nat \ {0}
    /\ \A p \in PaymentRequests :
           PaymentBody[p].fund \in Funds /\ PaymentBody[p].amount \in Nat \ {0}
    /\ NoExpense \notin ExpenseRequests
    /\ ExpenseRequests \cap PaymentRequests = {}

VARIABLES
    exists,      \* funds that have been created
    active,      \* funds.isActive
    balance,     \* funds.balance
    ledger,      \* ledger_entries
    request,     \* where an expense request stands in createExpense
    answer,      \* the expense it returned
    expense,     \* expenses.status; an expense is named by its request
    voiding,     \* the POSTED expense a void request has read
    payment      \* where a payment stands

vars == <<exists, active, balance, ledger, request, answer, expense, voiding, payment>>

Entry(type, direction, ref, f, a) ==
    [type |-> type, direction |-> direction, ref |-> ref, fund |-> f, amount |-> a]

\* Mutant: the entry is a debit even when the fund is credited.
PostAsDebit(type, direction, ref, f, a) ==
    /\ ledger' = ledger \cup {Entry(type, "DEBIT", ref, f, a)}
    /\ balance' = [balance EXCEPT ![f] = IF direction = "CREDIT" THEN @ + a ELSE @ - a]

\* A cash entry and the movement of its fund's cached balance.
Post(type, direction, ref, f, a) ==
    /\ ledger' = ledger \cup {Entry(type, direction, ref, f, a)}
    /\ balance' = [balance EXCEPT ![f] = IF direction = "CREDIT" THEN @ + a ELSE @ - a]

Init ==
    /\ exists = {}
    /\ active = [f \in Funds |-> TRUE]
    /\ balance = [f \in Funds |-> 0]
    /\ ledger = {}
    /\ request = [r \in ExpenseRequests |-> "SENT"]
    /\ answer = [r \in ExpenseRequests |-> NoExpense]
    /\ expense = [r \in ExpenseRequests |-> "NONE"]
    /\ voiding = [v \in VoidRequests |-> NoExpense]
    /\ payment = [p \in PaymentRequests |-> "NONE"]

-----------------------------------------------------------------------------
(* Funds.                                                                  *)

PostOpening(f, opening) ==
    IF opening > 0 THEN Post("OPENING_BALANCE", "CREDIT", f, f, opening)
    ELSE UNCHANGED <<ledger, balance>>

CreateFund(f, opening) ==
    /\ f \notin exists
    /\ exists' = exists \cup {f}
    /\ PostOpening(f, opening)
    /\ UNCHANGED <<active, request, answer, expense, voiding, payment>>

DeactivateFund(f) ==
    /\ f \in exists /\ f # DefaultFund
    /\ active' = [active EXCEPT ![f] = FALSE]
    /\ UNCHANGED <<exists, balance, ledger, request, answer, expense, voiding, payment>>

ReactivateFund(f) ==
    /\ f \in exists
    /\ active' = [active EXCEPT ![f] = TRUE]
    /\ UNCHANGED <<exists, balance, ledger, request, answer, expense, voiding, payment>>

-----------------------------------------------------------------------------
(* Expenses.                                                               *)

Step(r, from, to) == request[r] = from /\ request' = [request EXCEPT ![r] = to]

Covers(r) == balance[Body[r].fund] >= Body[r].amount

\* resolveFundForWrite and assertSufficientFundBalance.
ResolveExpense(r) ==
    /\ Body[r].fund \in exists
    /\ Step(r, "SENT", IF active[Body[r].fund] /\ Covers(r) THEN "RESOLVED" ELSE "REFUSED")
    /\ UNCHANGED <<exists, active, balance, ledger, answer, expense, voiding, payment>>

\* The transaction's own read of the balance.
ReadBalance(r) ==
    /\ Step(r, "RESOLVED", IF Covers(r) THEN "COVERED" ELSE "REFUSED")
    /\ UNCHANGED <<exists, active, balance, ledger, answer, expense, voiding, payment>>

\* Mutant: a voided expense frees its key.
PostedKeyHolders(r) ==
    {x \in ExpenseRequests : expense[x] = "POSTED" /\ Body[x].key = Body[r].key}

KeyHolders(r) ==
    {x \in ExpenseRequests : expense[x] # "NONE" /\ Body[x].key = Body[r].key}

PostExpense(r) ==
    /\ Step(r, "COVERED", "ANSWERED")
    /\ KeyHolders(r) = {}
    /\ expense' = [expense EXCEPT ![r] = "POSTED"]
    /\ answer' = [answer EXCEPT ![r] = r]
    /\ Post("EXPENSE", "DEBIT", r, Body[r].fund, Body[r].amount)
    /\ UNCHANGED <<exists, active, voiding, payment>>

\* The insert violates the unique idempotencyKey: the transaction rolls back
\* and the service answers with the expense that holds the key.
ReplayExpense(r) ==
    /\ Step(r, "COVERED", "ANSWERED")
    /\ \E x \in KeyHolders(r) : answer' = [answer EXCEPT ![r] = x]
    /\ UNCHANGED <<exists, active, balance, ledger, expense, voiding, payment>>

\* Mutant: an expense can be voided again.
AnyExpense(x) == expense[x] # "NONE"

Voidable(x) == expense[x] = "POSTED"

\* assertVoidable, on a read made before the transaction.
CheckVoid(v, x) ==
    /\ voiding[v] = NoExpense
    /\ Voidable(x)
    /\ voiding' = [voiding EXCEPT ![v] = x]
    /\ UNCHANGED <<exists, active, balance, ledger, request, answer, expense, payment>>

\* updateMany({id, status: 'POSTED'}) claims the expense or finds no row.
VoidExpense(v) ==
    LET x == voiding[v] IN
    /\ x # NoExpense
    /\ voiding' = [voiding EXCEPT ![v] = NoExpense]
    /\ IF Voidable(x)
       THEN /\ expense' = [expense EXCEPT ![x] = "VOIDED"]
            /\ Post("EXPENSE", "CREDIT", x, Body[x].fund, Body[x].amount)
       ELSE UNCHANGED <<expense, ledger, balance>>
    /\ UNCHANGED <<exists, active, request, answer, payment>>

-----------------------------------------------------------------------------
(* Payments, as far as the funds see them.                                 *)

Move(p, from, to) == payment[p] = from /\ payment' = [payment EXCEPT ![p] = to]

ResolvePaymentFund(p) ==
    /\ PaymentBody[p].fund \in exists
    /\ active[PaymentBody[p].fund]
    /\ Move(p, "NONE", "RESOLVED")
    /\ UNCHANGED <<exists, active, balance, ledger, request, answer, expense, voiding>>

CreatePayment(p) ==
    /\ Move(p, "RESOLVED", "PENDING_APPROVAL")
    /\ UNCHANGED <<exists, active, balance, ledger, request, answer, expense, voiding>>

ApprovePayment(p) ==
    /\ Move(p, "PENDING_APPROVAL", "APPROVED")
    /\ Post("PAYMENT", "CREDIT", p, PaymentBody[p].fund, PaymentBody[p].amount)
    /\ UNCHANGED <<exists, active, request, answer, expense, voiding>>

ReversePayment(p) ==
    /\ Move(p, "APPROVED", "REVERSED")
    /\ Post("REVERSAL", "DEBIT", p, PaymentBody[p].fund, PaymentBody[p].amount)
    /\ UNCHANGED <<exists, active, request, answer, expense, voiding>>

-----------------------------------------------------------------------------
Next ==
    \/ \E f \in Funds, a \in OpeningBalances : CreateFund(f, a)
    \/ \E f \in Funds : DeactivateFund(f)
    \/ \E f \in Funds : ReactivateFund(f)
    \/ \E r \in ExpenseRequests : ResolveExpense(r)
    \/ \E r \in ExpenseRequests : ReadBalance(r)
    \/ \E r \in ExpenseRequests : PostExpense(r)
    \/ \E r \in ExpenseRequests : ReplayExpense(r)
    \/ \E v \in VoidRequests, x \in ExpenseRequests : CheckVoid(v, x)
    \/ \E v \in VoidRequests : VoidExpense(v)
    \/ \E p \in PaymentRequests : ResolvePaymentFund(p)
    \/ \E p \in PaymentRequests : CreatePayment(p)
    \/ \E p \in PaymentRequests : ApprovePayment(p)
    \/ \E p \in PaymentRequests : ReversePayment(p)

Spec == Init /\ [][Next]_vars
-----------------------------------------------------------------------------
(* Properties.                                                             *)

\* Every column holds a value of its type; an entry has a positive amount and
\* names a fund that was created.
TypeOK ==
    /\ exists \subseteq Funds
    /\ active \in [Funds -> BOOLEAN]
    /\ balance \in [Funds -> Int]
    /\ \A e \in ledger : e.fund \in exists /\ e.amount \in Nat \ {0}
    /\ request \in [ExpenseRequests ->
                       {"SENT", "RESOLVED", "COVERED", "ANSWERED", "REFUSED"}]
    /\ answer \in [ExpenseRequests -> ExpenseRequests \cup {NoExpense}]
    /\ expense \in [ExpenseRequests -> {"NONE", "POSTED", "VOIDED"}]
    /\ voiding \in [VoidRequests -> ExpenseRequests \cup {NoExpense}]
    /\ payment \in [PaymentRequests ->
                       {"NONE", "RESOLVED", "PENDING_APPROVAL", "APPROVED", "REVERSED"}]

Cash == INSTANCE FundLedger

\* No race of expenses, voids, approvals and reversals posts a cash entry twice
\* or moves a fund without its entry.
ImplementsFundLedger == Cash!Spec

\* The cached balance of each fund is the replay of its ledger.
BalanceIsLedgerReplay == Cash!BalanceIsReplay

Posted(x, direction) ==
    Entry("EXPENSE", direction, x, Body[x].fund, Body[x].amount) \in ledger

\* A posted expense took its amount from the fund once; a voided one also gave
\* it back once, even when two managers void it at the same time.
ExpenseEntriesMatchStatus ==
    \A x \in ExpenseRequests :
        /\ Posted(x, "DEBIT") <=> expense[x] # "NONE"
        /\ Posted(x, "CREDIT") <=> expense[x] = "VOIDED"

\* However often a request is retried, and in whatever order the retries run,
\* its key pays for one expense, and every answer names that expense.
KeySpentOnce ==
    \A x, y \in ExpenseRequests :
        Body[x].key = Body[y].key =>
            /\ expense[x] # "NONE" /\ expense[y] # "NONE" => x = y
            /\ answer[x] # NoExpense /\ answer[y] # NoExpense => answer[x] = answer[y]

\* A new expense "must never drive Fund.balance negative"
\* (assertSufficientFundBalance), whatever else is posted at the same time.
ExpenseNeverOverdraws ==
    [][\A r \in ExpenseRequests :
          expense[r] = "NONE" /\ expense'[r] = "POSTED" => balance'[Body[r].fund] >= 0]_vars

\* A deactivated fund receives no new payment.
InactiveFundGetsNoPayment ==
    [][\A p \in PaymentRequests :
          payment[p] # "PENDING_APPROVAL" /\ payment'[p] = "PENDING_APPROVAL" =>
              active[PaymentBody[p].fund]]_vars

\* A retry of a request whose expense was recorded is answered with it, never
\* refused: "a retried request with the same key returns the original Expense".
RetryIsAnswered ==
    [][\A r \in ExpenseRequests :
          request[r] # "REFUSED" /\ request'[r] = "REFUSED" => KeyHolders(r) = {}]_vars
=============================================================================

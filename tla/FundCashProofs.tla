--------------------------- MODULE FundCashProofs ---------------------------
(***************************************************************************)
(* The cash of the funds, for any funds, requests and amounts: no race of  *)
(* expenses, retries, voids, approvals and reversals posts a cash entry    *)
(* twice, and an idempotency key pays for one expense.                     *)
(***************************************************************************)
EXTENDS FundCash, TLAPS

\* A request gets past its first check only for a fund that was created.
FundsExist ==
    /\ \A r \in ExpenseRequests :
           request[r] \in {"RESOLVED", "COVERED"} \/ expense[r] # "NONE" =>
               Body[r].fund \in exists
    /\ \A p \in PaymentRequests : payment[p] # "NONE" => PaymentBody[p].fund \in exists

\* What an entry of the ledger tells of its fund or its payment.
EntriesPosted ==
    \A e \in ledger :
        /\ e.type = "OPENING_BALANCE" => e.ref \in exists
        /\ e.type = "PAYMENT" =>
               e.ref \in PaymentRequests /\ payment[e.ref] \in {"APPROVED", "REVERSED"}
        /\ e.type = "REVERSAL" => e.ref \in PaymentRequests /\ payment[e.ref] = "REVERSED"

Posting == TypeOK /\ FundsExist /\ EntriesPosted /\ ExpenseEntriesMatchStatus

LEMMA PostingInit == Init => Posting
BY DEF Init, Posting, TypeOK, FundsExist, EntriesPosted, ExpenseEntriesMatchStatus, Posted

\* A step that posts nothing.
LEMMA PostingQuiet ==
  ASSUME Posting, TypeOK', FundsExist', UNCHANGED <<ledger, balance, expense>>,
         exists \subseteq exists',
         \A p \in PaymentRequests :
             payment[p] \in {"APPROVED", "REVERSED"} => payment'[p] = payment[p]
  PROVE  Posting' /\ [Cash!Next]_<<ledger, balance>>
<1>1. EntriesPosted'
  BY DEF Posting, EntriesPosted
<1>2. ExpenseEntriesMatchStatus'
  BY DEF Posting, ExpenseEntriesMatchStatus, Posted
<1> QED
  BY <1>1, <1>2 DEF Posting

\* Post is a cash step of the abstract ledger when its entry is new.
LEMMA PostIsCash ==
  ASSUME TypeOK, NEW type \in Cash!CashTypes, NEW direction \in {"CREDIT", "DEBIT"},
         NEW ref, NEW f \in Funds, NEW a \in Nat, Post(type, direction, ref, f, a),
         Entry(type, direction, ref, f, a) \notin ledger
  PROVE  Cash!PostCash
<1> DEFINE e == Entry(type, direction, ref, f, a)
<1>1. /\ e.type = type /\ e.direction = direction /\ e.fund = f /\ e.amount = a
  BY DEF Entry
<1>2. e \in ledger' \ ledger /\ ledger' = ledger \cup {e}
  BY DEF Post
<1>3. balance' = [balance EXCEPT ![e.fund] = @ + Cash!SignedAmount(e)]
  BY <1>1 DEF Post, Cash!SignedAmount, TypeOK
<1>4. Cash!IsEntry(e) /\ Cash!MovesCash(e)
  BY <1>1 DEF Cash!IsEntry, Cash!MovesCash
<1> HIDE DEF e
<1> QED
  BY <1>2, <1>3, <1>4 DEF Cash!PostCash

LEMMA PostingFund ==
  ASSUME Posting, NEW f \in Funds, DeactivateFund(f) \/ ReactivateFund(f)
  PROVE  Posting' /\ [Cash!Next]_<<ledger, balance>>
<1>1. TypeOK'
  BY BodyAssumption DEF Posting, TypeOK, DeactivateFund, ReactivateFund
<1>2. FundsExist'
  BY BodyAssumption DEF Posting, TypeOK, FundsExist, DeactivateFund, ReactivateFund
<1>3. /\ UNCHANGED <<ledger, balance, expense>> /\ exists \subseteq exists'
      /\ \A q \in PaymentRequests :
             payment[q] \in {"APPROVED", "REVERSED"} => payment'[q] = payment[q]
  BY DEF Posting, TypeOK, DeactivateFund, ReactivateFund
<1> QED
  BY <1>1, <1>2, <1>3, PostingQuiet

LEMMA PostingResolve ==
  ASSUME Posting, NEW r \in ExpenseRequests, ResolveExpense(r) \/ ReadBalance(r) \/ ReplayExpense(r)
  PROVE  Posting' /\ [Cash!Next]_<<ledger, balance>>
<1>1. TypeOK'
  BY BodyAssumption DEF Posting, TypeOK, ResolveExpense, ReadBalance, ReplayExpense, Step, KeyHolders
<1>2. FundsExist'
  BY BodyAssumption DEF Posting, TypeOK, FundsExist, ResolveExpense, ReadBalance, ReplayExpense, Step, KeyHolders
<1>3. /\ UNCHANGED <<ledger, balance, expense>> /\ exists \subseteq exists'
      /\ \A q \in PaymentRequests :
             payment[q] \in {"APPROVED", "REVERSED"} => payment'[q] = payment[q]
  BY DEF Posting, TypeOK, ResolveExpense, ReadBalance, ReplayExpense, Step, KeyHolders
<1> QED
  BY <1>1, <1>2, <1>3, PostingQuiet

LEMMA PostingCheckVoid ==
  ASSUME Posting, NEW v \in VoidRequests, NEW x \in ExpenseRequests, CheckVoid(v, x)
  PROVE  Posting' /\ [Cash!Next]_<<ledger, balance>>
<1>1. TypeOK'
  BY BodyAssumption DEF Posting, TypeOK, CheckVoid
<1>2. FundsExist'
  BY BodyAssumption DEF Posting, TypeOK, FundsExist, CheckVoid
<1>3. /\ UNCHANGED <<ledger, balance, expense>> /\ exists \subseteq exists'
      /\ \A q \in PaymentRequests :
             payment[q] \in {"APPROVED", "REVERSED"} => payment'[q] = payment[q]
  BY DEF Posting, TypeOK, CheckVoid
<1> QED
  BY <1>1, <1>2, <1>3, PostingQuiet

LEMMA PostingReport ==
  ASSUME Posting, NEW p \in PaymentRequests, ResolvePaymentFund(p) \/ CreatePayment(p)
  PROVE  Posting' /\ [Cash!Next]_<<ledger, balance>>
<1>1. TypeOK'
  BY BodyAssumption DEF Posting, TypeOK, ResolvePaymentFund, CreatePayment, Move
<1>2. FundsExist'
  BY BodyAssumption DEF Posting, TypeOK, FundsExist, ResolvePaymentFund, CreatePayment, Move
<1>3. /\ UNCHANGED <<ledger, balance, expense>> /\ exists \subseteq exists'
      /\ \A q \in PaymentRequests :
             payment[q] \in {"APPROVED", "REVERSED"} => payment'[q] = payment[q]
  BY DEF Posting, TypeOK, ResolvePaymentFund, CreatePayment, Move
<1> QED
  BY <1>1, <1>2, <1>3, PostingQuiet

LEMMA PostingApprove ==
  ASSUME Posting, NEW p \in PaymentRequests, ApprovePayment(p)
  PROVE  Posting' /\ [Cash!Next]_<<ledger, balance>>
<1> DEFINE f == PaymentBody[p].fund
           a == PaymentBody[p].amount
<1>1. f \in Funds /\ a \in Nat \ {0}
  BY BodyAssumption
<1>2. Entry("PAYMENT", "CREDIT", p, f, a) \notin ledger
  BY DEF Posting, EntriesPosted, ExpenseEntriesMatchStatus, Posted, Entry, ApprovePayment, Move
<1>3. Cash!PostCash
  BY <1>1, <1>2, PostIsCash DEF Posting, ApprovePayment, Move, Cash!CashTypes
<1>4. TypeOK'
  BY <1>1 DEF Posting, TypeOK, FundsExist, Post, Entry, ApprovePayment, Move
<1>5. FundsExist'
  BY <1>1 DEF Posting, TypeOK, FundsExist, ApprovePayment, Move
<1>6. EntriesPosted'
  BY DEF Posting, TypeOK, EntriesPosted, Post, Entry, ApprovePayment, Move
<1>7. ExpenseEntriesMatchStatus'
  BY DEF Posting, TypeOK, ExpenseEntriesMatchStatus, Posted, Post, Entry, ApprovePayment, Move
<1> QED
  BY <1>3, <1>4, <1>5, <1>6, <1>7 DEF Posting, Cash!Next

LEMMA PostingReverse ==
  ASSUME Posting, NEW p \in PaymentRequests, ReversePayment(p)
  PROVE  Posting' /\ [Cash!Next]_<<ledger, balance>>
<1> DEFINE f == PaymentBody[p].fund
           a == PaymentBody[p].amount
<1>1. f \in Funds /\ a \in Nat \ {0}
  BY BodyAssumption
<1>2. Entry("REVERSAL", "DEBIT", p, f, a) \notin ledger
  BY DEF Posting, EntriesPosted, ExpenseEntriesMatchStatus, Posted, Entry, ReversePayment, Move
<1>3. Cash!PostCash
  BY <1>1, <1>2, PostIsCash DEF Posting, ReversePayment, Move, Cash!CashTypes
<1>4. TypeOK'
  BY <1>1 DEF Posting, TypeOK, FundsExist, Post, Entry, ReversePayment, Move
<1>5. FundsExist'
  BY <1>1 DEF Posting, TypeOK, FundsExist, ReversePayment, Move
<1>6. EntriesPosted'
  BY DEF Posting, TypeOK, EntriesPosted, Post, Entry, ReversePayment, Move
<1>7. ExpenseEntriesMatchStatus'
  BY DEF Posting, TypeOK, ExpenseEntriesMatchStatus, Posted, Post, Entry, ReversePayment, Move
<1> QED
  BY <1>3, <1>4, <1>5, <1>6, <1>7 DEF Posting, Cash!Next

LEMMA PostingExpense ==
  ASSUME Posting, NEW r \in ExpenseRequests, PostExpense(r)
  PROVE  Posting' /\ [Cash!Next]_<<ledger, balance>>
<1> DEFINE f == Body[r].fund
           a == Body[r].amount
<1>1. f \in Funds /\ a \in Nat \ {0}
  BY BodyAssumption
<1>2. Entry("EXPENSE", "DEBIT", r, f, a) \notin ledger
  BY DEF Posting, EntriesPosted, ExpenseEntriesMatchStatus, Posted, Entry, PostExpense, Step, KeyHolders
<1>3. Cash!PostCash
  BY <1>1, <1>2, PostIsCash DEF Posting, PostExpense, Step, KeyHolders, Cash!CashTypes
<1>4. TypeOK'
  BY <1>1 DEF Posting, TypeOK, FundsExist, Post, Entry, PostExpense, Step, KeyHolders
<1>5. FundsExist'
  BY <1>1 DEF Posting, TypeOK, FundsExist, PostExpense, Step, KeyHolders
<1>6. EntriesPosted'
  BY DEF Posting, TypeOK, EntriesPosted, Post, Entry, PostExpense, Step, KeyHolders
<1>7. ExpenseEntriesMatchStatus'
  BY DEF Posting, TypeOK, ExpenseEntriesMatchStatus, Posted, Post, Entry, PostExpense, Step, KeyHolders
<1> QED
  BY <1>3, <1>4, <1>5, <1>6, <1>7 DEF Posting, Cash!Next

LEMMA PostingFundCreated ==
  ASSUME Posting, NEW f \in Funds, NEW a \in OpeningBalances, CreateFund(f, a)
  PROVE  Posting' /\ [Cash!Next]_<<ledger, balance>>
<1>1. a \in Nat /\ f \notin exists
  BY BodyAssumption DEF CreateFund
<1>2. CASE a = 0
  <2>1. UNCHANGED <<ledger, balance, expense, payment>> /\ exists \subseteq exists'
    BY <1>2 DEF CreateFund, PostOpening
  <2>2. TypeOK' /\ FundsExist'
    BY <2>1 DEF Posting, TypeOK, FundsExist, CreateFund
  <2> QED
    BY <2>1, <2>2, PostingQuiet
<1>3. CASE a > 0
  <2>1. Post("OPENING_BALANCE", "CREDIT", f, f, a)
    BY <1>3 DEF CreateFund, PostOpening
  <2>2. Entry("OPENING_BALANCE", "CREDIT", f, f, a) \notin ledger
    BY <1>1 DEF Posting, EntriesPosted, Entry
  <2>3. Cash!PostCash
    BY <1>1, <2>1, <2>2, PostIsCash DEF Posting, Cash!CashTypes
  <2>4. TypeOK'
    BY <1>1, <1>3, <2>1 DEF Posting, TypeOK, Post, Entry, CreateFund
  <2>5. FundsExist'
    BY DEF Posting, TypeOK, FundsExist, CreateFund
  <2>6. EntriesPosted'
    BY <2>1 DEF Posting, EntriesPosted, Post, Entry, CreateFund
  <2>7. ExpenseEntriesMatchStatus'
    BY <2>1 DEF Posting, ExpenseEntriesMatchStatus, Posted, Post, Entry, CreateFund
  <2> QED
    BY <2>3, <2>4, <2>5, <2>6, <2>7 DEF Posting, Cash!Next
<1> QED
  BY <1>1, <1>2, <1>3


LEMMA PostingVoid ==
  ASSUME Posting, NEW v \in VoidRequests, VoidExpense(v)
  PROVE  Posting' /\ [Cash!Next]_<<ledger, balance>>
<1> DEFINE x == voiding[v]
           f == Body[x].fund
           a == Body[x].amount
<1>1. x \in ExpenseRequests
  BY DEF Posting, TypeOK, VoidExpense
<1>2. f \in Funds /\ a \in Nat \ {0}
  BY <1>1, BodyAssumption
<1>3. CASE ~Voidable(x)
  <2>1. UNCHANGED <<ledger, balance, expense, payment, exists>>
    BY <1>3 DEF VoidExpense
  <2>2. TypeOK' /\ FundsExist'
    BY <2>1 DEF Posting, TypeOK, FundsExist, VoidExpense
  <2> QED
    BY <2>1, <2>2, PostingQuiet
<1>4. CASE Voidable(x)
  <2>1. /\ expense[x] = "POSTED" /\ expense' = [expense EXCEPT ![x] = "VOIDED"]
        /\ Post("EXPENSE", "CREDIT", x, f, a)
    BY <1>4 DEF VoidExpense, Voidable
  <2>2. Entry("EXPENSE", "CREDIT", x, f, a) \notin ledger
    BY <1>1, <2>1 DEF Posting, ExpenseEntriesMatchStatus, Posted
  <2> HIDE DEF x
  <2>3. Cash!PostCash
    BY <1>2, <2>1, <2>2, PostIsCash DEF Posting, Cash!CashTypes
  <2>4. TypeOK'
    BY <1>1, <1>2, <2>1 DEF Posting, TypeOK, FundsExist, Post, Entry, VoidExpense
  <2>5. FundsExist'
    BY <1>1, <2>1 DEF Posting, TypeOK, FundsExist, VoidExpense
  <2>6. EntriesPosted'
    BY <2>1 DEF Posting, EntriesPosted, Post, Entry, VoidExpense
  <2>7. ExpenseEntriesMatchStatus'
    BY <1>1, <2>1 DEF Posting, TypeOK, ExpenseEntriesMatchStatus, Posted, Post, Entry
  <2> QED
    BY <2>3, <2>4, <2>5, <2>6, <2>7 DEF Posting, Cash!Next
<1> QED
  BY <1>3, <1>4


LEMMA PostingNext ==
  Posting /\ [Next]_vars => Posting' /\ [Cash!Next]_<<ledger, balance>>
<1> SUFFICES ASSUME Posting, [Next]_vars
             PROVE  Posting' /\ [Cash!Next]_<<ledger, balance>>
  OBVIOUS
<1>1. CASE UNCHANGED vars
  <2>1. TypeOK' /\ FundsExist'
    BY <1>1 DEF Posting, TypeOK, FundsExist, vars
  <2> QED
    BY <1>1, <2>1, PostingQuiet DEF vars
<1> QED
  BY <1>1, PostingFund, PostingFundCreated, PostingResolve, PostingExpense,
     PostingCheckVoid, PostingVoid, PostingReport, PostingApprove, PostingReverse DEF Next

LEMMA PostingAlways == Spec => []Posting
<1> QED
  BY PostingInit, PostingNext, PTL DEF Spec

\* Every column keeps its type, and an entry only names a fund that exists.
THEOREM CashTypeCorrect == Spec => []TypeOK
<1>1. Posting => TypeOK
  BY DEF Posting
<1> QED
  BY <1>1, PostingAlways, PTL

\* Each expense takes its amount from its fund once, and gives it back once if
\* it is voided, however many requests race.
THEOREM ExpensesMatch == Spec => []ExpenseEntriesMatchStatus
<1>1. Posting => ExpenseEntriesMatchStatus
  BY DEF Posting
<1> QED
  BY <1>1, PostingAlways, PTL

\* Every step of the funds is a step of the append-only ledger: no race posts a
\* cash entry twice or moves a balance without its entry.
THEOREM CashRefinement == Spec => ImplementsFundLedger
<1>1. Init => Cash!Init
  BY DEF Init, Cash!Init
<1> QED
  BY <1>1, PostingAlways, PostingNext, PTL DEF Spec, ImplementsFundLedger, Cash!Spec

-----------------------------------------------------------------------------
\* A key is held by one expense, and answers name the holder of their key.
KeyInv ==
    /\ \A x, y \in ExpenseRequests :
           /\ Body[x].key = Body[y].key
           /\ expense[x] # "NONE" /\ expense[y] # "NONE"
           => x = y
    /\ \A x \in ExpenseRequests :
           answer[x] # NoExpense =>
               expense[answer[x]] # "NONE" /\ Body[answer[x]].key = Body[x].key

LEMMA KeyNext == TypeOK /\ KeyInv /\ [Next]_vars => KeyInv'
<1> SUFFICES ASSUME TypeOK, KeyInv, [Next]_vars
             PROVE  KeyInv'
  OBVIOUS
<1>1. CASE UNCHANGED <<expense, answer>>
  BY <1>1 DEF KeyInv
<1>2. ASSUME NEW r \in ExpenseRequests, PostExpense(r)
      PROVE  KeyInv'
  BY <1>2, BodyAssumption DEF PostExpense, KeyHolders, KeyInv, TypeOK
<1>3. ASSUME NEW r \in ExpenseRequests, ReplayExpense(r)
      PROVE  KeyInv'
  BY <1>3 DEF ReplayExpense, KeyHolders, KeyInv, TypeOK
<1>4. ASSUME NEW v \in VoidRequests, VoidExpense(v)
      PROVE  KeyInv'
  <2>1. \A x \in ExpenseRequests : expense'[x] # "NONE" <=> expense[x] # "NONE"
    BY <1>4 DEF VoidExpense, Voidable, TypeOK
  <2>2. answer' = answer
    BY <1>4 DEF VoidExpense
  <2> QED
    BY <2>1, <2>2 DEF KeyInv, TypeOK
<1>5. ASSUME \/ \E f \in Funds, a \in OpeningBalances : CreateFund(f, a)
             \/ \E f \in Funds : DeactivateFund(f) \/ ReactivateFund(f)
             \/ \E r \in ExpenseRequests : ResolveExpense(r) \/ ReadBalance(r)
             \/ \E v \in VoidRequests, x \in ExpenseRequests : CheckVoid(v, x)
             \/ \E p \in PaymentRequests : ResolvePaymentFund(p) \/ CreatePayment(p)
             \/ \E p \in PaymentRequests : ApprovePayment(p) \/ ReversePayment(p)
             \/ UNCHANGED vars
      PROVE  UNCHANGED <<expense, answer>>
  BY <1>5 DEF CreateFund, DeactivateFund, ReactivateFund, ResolveExpense, ReadBalance,
              CheckVoid, ResolvePaymentFund, CreatePayment, ApprovePayment, ReversePayment, vars
<1> QED
  BY <1>1, <1>2, <1>3, <1>4, <1>5 DEF Next

\* However often and in whatever order requests are retried, an idempotency key
\* pays for one expense, and every answer names it.
THEOREM KeysSpentOnce == Spec => []KeySpentOnce
<1>1. Init => KeyInv
  BY DEF Init, KeyInv
<1>2. TypeOK /\ KeyInv => KeySpentOnce
  BY DEF TypeOK, KeyInv, KeySpentOnce
<1>3. Posting => TypeOK
  BY DEF Posting
<1> QED
  BY <1>1, <1>2, <1>3, KeyNext, PostingAlways, PTL DEF Spec

Replay == INSTANCE FundLedgerProofs

\* However expenses, voids, approvals and reversals interleave, replaying the
\* ledger rebuilds every fund's balance.
THEOREM CashBalancesReplay == Spec => []BalanceIsLedgerReplay
<1>1. Cash!Init => Replay!Init
  BY DEF Cash!Init, Replay!Init
<1>2. [Cash!Next]_<<ledger, balance>> => [Replay!Next]_<<ledger, balance>>
  BY DEF Cash!Next, Replay!Next, Cash!PostReceivable, Replay!PostReceivable,
         Cash!PostCash, Replay!PostCash, Cash!IsEntry, Replay!IsEntry,
         Cash!MovesCash, Replay!MovesCash, Cash!CashTypes, Replay!CashTypes,
         Cash!SignedAmount, Replay!SignedAmount,
         Cash!IsFiniteSet, Replay!IsFiniteSet
<1>3. Replay!BalanceIsReplay => BalanceIsLedgerReplay
  BY DEF BalanceIsLedgerReplay, Cash!BalanceIsReplay, Replay!BalanceIsReplay,
         Cash!CashEntries, Replay!CashEntries, Cash!EntryAmount, Replay!EntryAmount,
         Cash!MovesCash, Replay!MovesCash, Cash!CashTypes, Replay!CashTypes,
         Cash!Total, Replay!Total, Cash!AllRials, Replay!AllRials,
         Cash!Rials, Replay!Rials, Cash!Cardinality, Replay!Cardinality
<1>4. Replay!Spec => []Replay!BalanceIsReplay
  BY Replay!LedgerReplay
<1> QED
  BY <1>1, <1>2, <1>3, <1>4, CashRefinement, PTL
     DEF ImplementsFundLedger, Cash!Spec, Replay!Spec
=============================================================================

-------------------------- MODULE FundLedgerProofs --------------------------
(* The ledger explains the balances, for any funds and any entries.        *)
EXTENDS FundLedger, MoneyProofs

LedgerInv ==
    /\ IsFiniteSet(ledger)
    /\ \A e \in ledger : IsEntry(e)
    /\ balance \in [Funds -> Int]
    /\ BalanceIsReplay

\* Sums over the entries of a fund are sums over a finite part of the ledger.
LEMMA EntriesFinite ==
  ASSUME IsFiniteSet(ledger), \A e \in ledger : IsEntry(e), NEW f, NEW d
  PROVE  /\ IsFiniteSet(CashEntries(f, d))
         /\ \A e \in CashEntries(f, d) : EntryAmount[e] \in Int
         /\ Total(CashEntries(f, d), EntryAmount) \in Nat
<1>1. CashEntries(f, d) \in SUBSET ledger
  BY DEF CashEntries
<1>2. IsFiniteSet(CashEntries(f, d))
  BY <1>1, FS_Subset
<1>3. \A e \in CashEntries(f, d) : EntryAmount[e] \in Int
  BY <1>1 DEF EntryAmount, IsEntry
<1> QED
  BY <1>2, <1>3, TotalType

\* Entries that move no cash leave every replay as it was.
LEMMA ReceivableStep ==
  ASSUME LedgerInv, PostReceivable
  PROVE  LedgerInv'
<1>1. IsFiniteSet(ledger')
  <2>1. IsFiniteSet(ledger \cup (ledger' \ ledger))
    BY FS_Union DEF LedgerInv, PostReceivable
  <2>2. ledger' = ledger \cup (ledger' \ ledger)
    BY DEF PostReceivable
  <2> QED
    BY <2>1, <2>2
<1>2. \A e \in ledger' : IsEntry(e)
  BY DEF LedgerInv, PostReceivable
<1>3. ASSUME NEW f, NEW d
      PROVE  Total(CashEntries(f, d), EntryAmount)' = Total(CashEntries(f, d), EntryAmount)
  <2>1. CashEntries(f, d)' = CashEntries(f, d)
    BY DEF CashEntries, PostReceivable
  <2>2. \A e \in CashEntries(f, d) : EntryAmount[e] = EntryAmount'[e]
    BY DEF CashEntries, EntryAmount, PostReceivable
  <2>3. Total(CashEntries(f, d), EntryAmount) = Total(CashEntries(f, d), EntryAmount')
    BY <2>2, TotalSame
  <2> QED
    BY <2>1, <2>3 DEF Total, AllRials, Rials
<1>4. balance' = balance
  BY DEF PostReceivable
<1>5. BalanceIsReplay'
  BY <1>3, <1>4 DEF BalanceIsReplay, LedgerInv
<1> QED
  BY <1>1, <1>2, <1>4, <1>5 DEF LedgerInv, IsEntry

\* A cash entry moves the replay of its fund by its signed amount.
LEMMA CashStep ==
  ASSUME LedgerInv, PostCash
  PROVE  LedgerInv'
<1>1. PICK e \in ledger' \ ledger :
         /\ ledger' = ledger \cup {e}
         /\ IsEntry(e) /\ MovesCash(e)
         /\ balance' = [balance EXCEPT ![e.fund] = @ + SignedAmount(e)]
  BY DEF PostCash
<1>2. IsFiniteSet(ledger')
  BY <1>1, FS_AddElement DEF LedgerInv
<1>3. \A x \in ledger' : IsEntry(x)
  BY <1>1 DEF LedgerInv
<1>4. balance' \in [Funds -> Int]
  BY <1>1 DEF LedgerInv, SignedAmount, IsEntry
<1>5. ASSUME NEW f, NEW d
      PROVE  Total(CashEntries(f, d), EntryAmount)' =
               Total(CashEntries(f, d), EntryAmount)
                 + (IF e.fund = f /\ e.direction = d THEN e.amount ELSE 0)
  <2> DEFINE C == CashEntries(f, d)
  <2>1. \A x \in C : EntryAmount[x] = EntryAmount'[x]
    BY <1>1 DEF CashEntries, EntryAmount
  <2>2. Total(C, EntryAmount) = Total(C, EntryAmount')
    BY <2>1, TotalSame
  <2>3. IsFiniteSet(C) /\ \A x \in C : EntryAmount[x] \in Int
    BY EntriesFinite DEF LedgerInv
  <2>4. Total(C, EntryAmount) \in Nat
    BY EntriesFinite DEF LedgerInv
  <2>5. CASE e.fund = f /\ e.direction = d
    <3>1. C' = C \cup {e}
      BY <1>1, <2>5 DEF CashEntries
    <3>2. e \notin C /\ EntryAmount'[e] = e.amount /\ e.amount \in Nat
      BY <1>1 DEF CashEntries, EntryAmount, IsEntry
    <3>3. Total(C \cup {e}, EntryAmount')
            = Total(C, EntryAmount') + AtLeastZero(EntryAmount'[e])
      <4>1. \A x \in C : EntryAmount'[x] \in Int
        BY <2>1, <2>3
      <4> QED
        BY <2>3, <3>2, <4>1, TotalAdd
    <3>4. AtLeastZero(EntryAmount'[e]) = e.amount
      BY <3>2 DEF AtLeastZero
    <3> QED
      BY <2>2, <2>5, <3>1, <3>3, <3>4 DEF Total, AllRials, Rials
  <2>6. CASE ~(e.fund = f /\ e.direction = d)
    <3>1. C' = C
      BY <1>1, <2>6 DEF CashEntries
    <3> QED
      BY <2>2, <2>4, <2>6, <3>1 DEF Total, AllRials, Rials
  <2> QED
    BY <2>5, <2>6
<1>6. BalanceIsReplay'
  <2> SUFFICES ASSUME NEW f \in Funds
               PROVE  balance'[f] = Total(CashEntries(f, "CREDIT"), EntryAmount)'
                                    - Total(CashEntries(f, "DEBIT"), EntryAmount)'
    BY DEF BalanceIsReplay
  <2>1. balance[f] = Total(CashEntries(f, "CREDIT"), EntryAmount)
                     - Total(CashEntries(f, "DEBIT"), EntryAmount)
    BY DEF LedgerInv, BalanceIsReplay
  <2>2. /\ Total(CashEntries(f, "CREDIT"), EntryAmount) \in Nat
        /\ Total(CashEntries(f, "DEBIT"), EntryAmount) \in Nat
    BY EntriesFinite DEF LedgerInv
  <2>3. balance'[f] = IF e.fund = f THEN balance[f] + SignedAmount(e) ELSE balance[f]
    BY <1>1 DEF LedgerInv
  <2>4. e.amount \in Nat /\ e.direction \in {"CREDIT", "DEBIT"}
    BY <1>1 DEF IsEntry
  <2>5. SignedAmount(e) = IF e.direction = "CREDIT" THEN e.amount ELSE -e.amount
    BY DEF SignedAmount
  <2>6. /\ Total(CashEntries(f, "CREDIT"), EntryAmount)' =
             Total(CashEntries(f, "CREDIT"), EntryAmount)
               + (IF e.fund = f /\ e.direction = "CREDIT" THEN e.amount ELSE 0)
        /\ Total(CashEntries(f, "DEBIT"), EntryAmount)' =
             Total(CashEntries(f, "DEBIT"), EntryAmount)
               + (IF e.fund = f /\ e.direction = "DEBIT" THEN e.amount ELSE 0)
    BY <1>5
  <2> QED
    BY <2>1, <2>2, <2>3, <2>4, <2>5, <2>6
<1> QED
  BY <1>2, <1>3, <1>4, <1>6 DEF LedgerInv, IsEntry

\* Replaying the ledger rebuilds every balance: whatever implements FundLedger
\* keeps Fund.balance in step with the entries it posts.
THEOREM LedgerReplay == Spec => []BalanceIsReplay
<1>1. Init => LedgerInv
  <2> SUFFICES ASSUME Init
               PROVE  LedgerInv
    OBVIOUS
  <2>1. \A f, d : Total(CashEntries(f, d), EntryAmount) = 0
    <3>1. \A f, d : CashEntries(f, d) = {}
      BY DEF Init, CashEntries
    <3> QED
      BY <3>1, TotalEmpty
  <2>2. BalanceIsReplay
    BY <2>1 DEF Init, BalanceIsReplay
  <2> QED
    BY <2>2, FS_EmptySet DEF Init, LedgerInv
<1>2. LedgerInv /\ [Next]_<<ledger, balance>> => LedgerInv'
  <2>1. ASSUME LedgerInv, UNCHANGED <<ledger, balance>>
        PROVE  LedgerInv'
    BY <2>1 DEF LedgerInv, IsEntry, BalanceIsReplay, CashEntries, EntryAmount
  <2> QED
    BY <2>1, ReceivableStep, CashStep DEF Next
<1>3. LedgerInv => BalanceIsReplay
  BY DEF LedgerInv
<1> QED
  BY <1>1, <1>2, <1>3, PTL DEF Spec
=============================================================================

------------------------------- MODULE Billing -------------------------------
(***************************************************************************)
(* How a charge batch of one building comes to be: the fund it is charged  *)
(* to is looked up, the total is divided among the flats, and the batch is *)
(* created, later issued with the payers of each flat.  Funds are retyped, *)
(* renamed, deactivated and created while such requests are under way.     *)
(* What issued batches are owed afterwards is in UnitFinance.              *)
(***************************************************************************)
EXTENDS Rows, Money, SequencesExt

CONSTANTS
    FlatLists,    \* buildings: the flats in the order of their numbers
    Totals,       \* totals to divide, rials
    Rates         \* legacy amounts per flat, or per square metre

\* area counts half square metres, 0 where none is entered.
ASSUME BillingAssumption ==
    /\ FlatLists # {}
    /\ \A l \in FlatLists : IsFiniteSet(DOMAIN l) /\ DOMAIN l \subseteq Nat
    /\ \A l \in FlatLists : \A u \in DOMAIN l :
           l[u].area \in Nat /\ l[u].use \in {"RESIDENTIAL", "PARKING"}
    /\ Totals \subseteq Nat \ {0} /\ Rates \subseteq Nat \ {0}

VARIABLES
    flats   \* the flats of the building; they stay as they are

BillingInit == flats \in IF "DIVISION" \in scene THEN FlatLists ELSE {CHOOSE l \in FlatLists : TRUE}

-----------------------------------------------------------------------------
(* Dividing a total.                                                       *)

SumOf(f) == Total(DOMAIN f, f)

\* The flats before u in their order.
Before(u, chosen) == Cardinality({v \in chosen : v < u})

AllocateEqually(total, chosen) ==
    LET n == Cardinality(chosen) IN
    [u \in chosen |-> total \div n + IF Before(u, chosen) < total % n THEN 1 ELSE 0]

\* What is left of u's exact share when its whole rials are taken.
Fraction(total, area, u) == (total * area[u]) % SumOf(area)

\* Mutant: what is left over goes to the flats in their order.
InOrder(total, area, u) == {v \in DOMAIN area : v < u}

\* The largest remainders come first, equal ones in the order of the flats.
Ahead(total, area, u) ==
    {v \in DOMAIN area :
        \/ Fraction(total, area, v) > Fraction(total, area, u)
        \/ Fraction(total, area, v) = Fraction(total, area, u) /\ v < u}

AllocateByArea(total, area) ==
    LET floor == [u \in DOMAIN area |-> (total * area[u]) \div SumOf(area)]
        leftover == total - SumOf(floor)
    IN [u \in DOMAIN area |->
           floor[u] + IF Cardinality(Ahead(total, area, u)) < leftover THEN 1 ELSE 0]

-----------------------------------------------------------------------------
(* What a request asks for.                                                *)

NoKind == "NONE"
FundTypeByChargeKind == [MONTHLY |-> "CURRENT", RESERVE |-> "RESERVE"]
Kinds == DOMAIN FundTypeByChargeKind \union {NoKind, "SPECIAL"}
FundTypes == Range(FundTypeByChargeKind)

CompatibleFundTypes(kind) == IF kind = "SPECIAL" THEN {} ELSE {FundTypeByChargeKind[kind]}
IsFundCompatible(kind, type) == type \in CompatibleFundTypes(kind)

\* How the amounts are worked out; 0 where the request leaves an amount out.  The scope is
\* all flats, those of a use, or flats picked by hand.
UnitScopes ==
    {<<"ALL", {}>>, <<"PARKING", {}>>} \union {<<"MANUAL", {u, v}>> : u, v \in DOMAIN flats}
Calculation ==
    [method : {"FIXED", "AREA_BASED"}, total : Totals \union {0}, rate : Rates \union {0},
     scope : UnitScopes]
Mixed == [method |-> "MIXED", total |-> 0, items |-> [u \in {1} |-> 1]]

\* Exactly one of the total and the legacy amount.
ValidCalculation(k) == k.method = "MIXED" \/ (k.total = 0 /\ k.rate > 0) \/ (k.total > 0 /\ k.rate = 0)

Picked(scope) ==
    CASE scope[1] = "ALL" -> DOMAIN flats
      [] scope[1] = "MANUAL" -> scope[2]
      [] OTHER -> {u \in DOMAIN flats : flats[u].use = scope[1]}

\* Flats without an area take no part in what is charged by area.
WithArea(chosen) == {u \in chosen : flats[u].area > 0}

Area(chosen) == [u \in WithArea(chosen) |-> flats[u].area]

\* Math.round of the rate times a number of half square metres.
Rounded(rate, halves) == (rate * halves + 1) \div 2

\* A total by area is refused if no flat has an area.
Chargeable(k) == k.method = "AREA_BASED" /\ k.total > 0 => WithArea(Picked(k.scope)) # {}

ResolveChargeItems(k) ==
    CASE k.method = "MIXED" -> k.items
      [] k.method = "FIXED" /\ k.total > 0 -> AllocateEqually(k.total, Picked(k.scope))
      [] k.method = "FIXED" /\ k.total = 0 -> [u \in Picked(k.scope) |-> k.rate]
      [] k.method = "AREA_BASED" /\ k.total > 0 -> AllocateByArea(k.total, Area(Picked(k.scope)))
      [] OTHER -> [u \in WithArea(Picked(k.scope)) |-> Rounded(k.rate, flats[u].area)]

-----------------------------------------------------------------------------
(* Funds.                                                                  *)

CurrentAccount == "CURRENT_ACCOUNT"    \* the name the default fund is created with
FundNames == {CurrentAccount, "SECOND"}

Fund(name, type, default) ==
    [kind |-> "FUND", name |-> name, type |-> type, default |-> default, active |-> TRUE]

\* (buildingId, name) is unique.
NameTaken(name) == \E i \in Ids("FUND") : table[i].name = name

CreateFund == \E n \in FundNames, t \in FundTypes : ~NameTaken(n) /\ Open(Fund(n, t, FALSE))

FundActive(f) == f.active
Deactivatable(f) == ~f.default

ChecksFund(c, op, Fit(_)) ==
    /\ call[c] = Idle
    /\ \E i \in Ids("FUND") : Fit(table[i]) /\ call' = [call EXCEPT ![c] = [op |-> op, on |-> i]]
    /\ UNCHANGED table

\* Name and type are written whatever has become of the fund, unless the name is another's.
FundUpdated(c, name, type) ==
    PutIf(c, name = Now(c).name \/ ~NameTaken(name), [Now(c) EXCEPT !.name = name, !.type = type])

UpdateFund(c) ==
    \/ ChecksFund(c, "UPDATE_FUND", FundActive)
    \/ /\ Ends(c, "UPDATE_FUND")
       /\ \/ \E t \in FundTypes : FundUpdated(c, Now(c).name, t)
          \/ \E n \in FundNames : FundUpdated(c, n, Now(c).type)

SetFundActive(c, v) == Put(c, [Now(c) EXCEPT !.active = v])

DeactivateFund(c) ==
    \/ ChecksFund(c, "DEACTIVATE", Deactivatable)
    \/ Ends(c, "DEACTIVATE") /\ SetFundActive(c, FALSE)

ReactivateFund(c) ==
    \/ ChecksFund(c, "REACTIVATE", LAMBDA f : TRUE)
    \/ Ends(c, "REACTIVATE") /\ SetFundActive(c, TRUE)

-----------------------------------------------------------------------------
(* Batches.                                                                *)

\* A monthly charge belongs to a period of a series (of one series here), no other does.
ValidClassification(r) == IF r.kind = "MONTHLY" THEN r.period > 0 ELSE r.period = 0

\* Bound of the model: where funds change, one flat is charged by hand; where totals are
\* divided, nothing else happens.
Calculations == IF "DIVISION" \in scene THEN {k \in Calculation : ValidCalculation(k)} ELSE {Mixed}
Requests == [kind : Kinds, period : {0, 1}, calc : Calculations]

DefaultFunds == {i \in Ids("FUND") : table[i].default}

\* The funds a charge of this kind may go to.
CompatibleFunds(kind) ==
    {i \in Ids("FUND") : table[i].active /\ (kind = NoKind \/ IsFundCompatible(kind, table[i].type))}

\* The request goes on with fund i.
Charges(c, r, i) ==
    call' = [call EXCEPT ![c] = [op |-> "CHARGE", on |-> i, seen |-> table[i].type, request |-> r]]

\* The request names one of them or leaves the fund out: a classified charge then takes the
\* only one there is, an unclassified charge the default fund.
ResolveChargeFund(c, r) ==
    \/ \E i \in CompatibleFunds(r.kind) : Charges(c, r, i)
    \/ /\ r.kind = NoKind /\ DefaultFunds = {}
       /\ call' = [call EXCEPT ![c] = [op |-> "DEFAULT_FUND", request |-> r]]

\* No default fund was found: one is created, or the name is taken and the request fails.
GetOrCreateDefaultFund(c) ==
    /\ call[c].op = "DEFAULT_FUND"
    /\ LET f == Fund(CurrentAccount, "CURRENT", TRUE) IN
       IF NameTaken(CurrentAccount)
       THEN call' = [call EXCEPT ![c] = Idle] /\ UNCHANGED table
       ELSE /\ Insert(f)
            /\ call' = [call EXCEPT ![c] =
                   [op |-> "CHARGE", on |-> Len(table) + 1, seen |-> f.type, request |-> call[c].request]]

\* Mutant: the fund is not locked and looked at again.
AsSelected(c) == TRUE

\* FOR UPDATE: of a classified request, the fund is still active and of the type it had.
StillSelected(c) ==
    call[c].request.kind # NoKind => Now(c).active /\ Now(c).type = Seen(c)

\* The partial unique index over (seriesId, periodStart) of monthly batches.
PeriodTaken(r) ==
    /\ r.kind = "MONTHLY"
    /\ \E i \in Ids("BATCH") : table[i].request.kind = "MONTHLY" /\ table[i].request.period = r.period

Batch(c) ==
    [kind |-> "BATCH", status |-> "DRAFT", fund |-> call[c].on, request |-> call[c].request,
     items |-> ResolveChargeItems(call[c].request.calc), payers |-> <<>>]

CreateBatchRow(c) ==
    IF StillSelected(c) /\ ~PeriodTaken(call[c].request) THEN Insert(Batch(c)) ELSE UNCHANGED table

CreateChargeBatch(c) ==
    \/ /\ call[c] = Idle
       /\ \E r \in Requests :
              /\ ValidClassification(r)
              /\ ResolveChargeFund(c, r)
              /\ Chargeable(r.calc)
       /\ UNCHANGED table
    \/ GetOrCreateDefaultFund(c)
    \/ Ends(c, "CHARGE") /\ CreateBatchRow(c)

Issuable(b) == b.status = "DRAFT" /\ SumOf(b.items) > 0

\* The tenant, or all owners of a flat that is not let.
ResolvePayers(b, let) == [u \in DOMAIN b.items |-> IF u \in let THEN "RESIDENT" ELSE "OWNER"]

BatchIssued(c) ==
    PutIf(c, Now(c).status = "DRAFT", [Now(c) EXCEPT !.status = "ISSUED", !.payers = call[c].payers])

\* The payers are looked up before the transaction that claims the draft.  (Bound of the
\* model: only the first flat is ever let.)
IssueChargeBatch(c) ==
    \/ \E i \in Ids("BATCH") :
           /\ call[c] = Idle /\ Issuable(table[i])
           /\ \E let \in SUBSET {1} : call' = [call EXCEPT ![c] =
                  [op |-> "ISSUE", on |-> i, payers |-> ResolvePayers(table[i], let)]]
           /\ UNCHANGED table
    \/ Ends(c, "ISSUE") /\ BatchIssued(c)

FundStep(c) == UpdateFund(c) \/ DeactivateFund(c) \/ ReactivateFund(c) \/ CreateChargeBatch(c)

\* One request creates a batch, in every way there is to divide its total; two may issue it.
DivisionStep(c) ==
    \/ Ids("BATCH") = {} /\ (\A d \in Calls \ {c} : call[d] = Idle) /\ CreateChargeBatch(c)
    \/ IssueChargeBatch(c)

-----------------------------------------------------------------------------
(* Properties.                                                             *)

Weight(k, u) == IF k.method = "FIXED" THEN 1 ELSE flats[u].area

\* A total that is divided is charged to the rial, although every share is rounded: each
\* flat pays less than one rial more or less than its exact share, and a flat with more area
\* never pays less than one with less.  (Where the scope picks no flat nothing is charged.)
SharesAddUp ==
    \A i \in Ids("BATCH") :
        LET items == table[i].items
            k == table[i].request.calc
            weight == [u \in DOMAIN items |-> Weight(k, u)]
            Off(u) == items[u] * SumOf(weight) - k.total * weight[u]
        IN k.total > 0 /\ DOMAIN items # {} =>
               /\ SumOf(items) = k.total
               /\ \A u \in DOMAIN items : Off(u) < SumOf(weight) /\ -Off(u) < SumOf(weight)
               /\ \A u, v \in DOMAIN items : weight[u] < weight[v] => items[u] <= items[v]

\* A classified charge is born into an active fund of its type, although the fund is retyped
\* and deactivated while the request is under way.
ClassifiedFundFits ==
    [][\A i \in DOMAIN table' \ DOMAIN table :
           table'[i].kind = "BATCH" /\ table'[i].request.kind # NoKind =>
               LET f == table[table'[i].fund]
               IN f.active /\ IsFundCompatible(table'[i].request.kind, f.type)]_rowVars

\* The repository calls the creation of the default fund safe to repeat, because it is
\* looked up first: a building has one.
OneDefaultFund == Cardinality(DefaultFunds) <= 1

=============================================================================

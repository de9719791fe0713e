# Specifications of the vielhome backend

The backend serves residential buildings: who owns and lives in which unit,
what the units owe and pay, what the building spends, how its owners vote, and
the back office that supervises all of it. It is a NestJS monolith over one
PostgreSQL database (Prisma), with Redis queues for the scheduled work, an
S3-compatible object store for documents, and a separate worker that copies
objects to a backup bucket. This directory holds TLA+ models of the parts whose
correctness depends on the order in which requests, workers and crashes meet,
the TLC configurations that check them, and TLAPS proofs about them.

Paths below are relative to the repository; `finance/` stands for
`src/modules/finance/`, and so on for the other modules. `PROJECT.json` names,
for every definition, the lines of code it models.

## 1. Inventory

### Concurrency and failure in this code

* Every HTTP request runs to its next `await` and then interleaves with every
  other request, in one process and across replicas. Transactions are READ
  COMMITTED, so a plain `SELECT` inside one reads the latest committed row and
  protects nothing.
* Three devices make a decision safe: an advisory lock taken first
  (`pg_advisory_xact_lock`, used by the finance operations on a unit), a
  compare-and-set (`updateMany` with the expected status in its `where`, then a
  look at `count`), and a unique index whose violation (P2002) is caught. Where
  none of the three is used, what a request read may be stale when it writes.
* Work after the commit (domain events, notifications, gamification, audit, the
  handover after an election) is best effort: a crash in between loses it, or a
  retry repeats it.
* Clients retry; the finance operations carry an idempotency key.

### Components

| Component | State | Operations | Interacts with |
|---|---|---|---|
| Unit receivables (`finance/`) | charge batches and items, adjustments, payments, debt selections with a reservation state, allocations, credit balances | create, issue, cancel a batch; report, approve, reject, reverse a payment; adjust, charge a late fee, correct an opening balance; refund | funds and ledger in the same transaction; receipts in documents; gamification after the commit |
| Funds, ledger, expenses (`finance/`) | funds with a cached balance, the append-only ledger, expenses | create, rename, deactivate, reactivate a fund; record and void an expense | every cash operation of the receivables |
| Charge amount resolution (`finance/`) | none | split an amount equally, by area, by residents, by hand; align a charge's kind with its fund | read units of the building |
| Voting (`governance/`) | votes, their options, eligibility snapshots, ballots and results; standing proxies | create, publish, cast, close with tally, cancel; grant and revoke a proxy; two sweeps | reads ownership and tenancy, hands the building to an elected manager |
| Meetings and resolutions (`governance/`) | meetings, attendance, resolutions | linear lifecycles | votes refer to them |
| Building (`building/`) | drafts of the registration wizard, buildings, settings, units, ownerships, tenancies, the current manager, join requests | save and submit a draft; add, edit and delete units; invite, link and transfer owners; begin, give notice of and end a tenancy; decide a join request; change the manager | voting eligibility, finance payers, cases |
| Authentication (`foundation/auth/`) | OTP challenges, refresh tokens, accounts, devices | request and verify an OTP, refresh with rotation | suspension by the back office |
| Back office (`backoffice/`, `backoffice-rbac/`, `backoffice-bootstrap/`, `platform-staff/`) | support, fraud and compliance cases, legal holds, subscriptions, feature grants; staff roles; building and manager verifications; enforcement actions and appeals | open, assign, resolve, merge, escalate; suspend, reinstate, grant, revoke; evaluate, decide, appeal, restore; enforce, uphold, overturn; sweeps | accounts, tokens, buildings, managers |
| Documents and receipts (`documents/`) | upload intents, documents, versions, references | presign, create one or several, add a version, archive, refer; attach a receipt to a payment | the object store, finance, the backup queue |
| Object backup (`src/backup/`) | backup requests with leases and attempts, generations | enqueue, claim, capture, copy, verify, retry, give up, reconcile | two buckets; a separate process |
| Gamification (`gamification/`) | XP ledger, balances, achievements, building scores | award, unlock, take back, correct by hand | events of the other modules |
| Notifications (`notifications/`) | preferences, notifications, deliveries, a queue | tell, dispatch, retry, resend | events of the other modules, Redis, providers |
| Scheduler (`scheduler/`) | none of its own | triggers sweeps of the other modules | all of them |
| Cases (`cases/`) | cases, assignments, merges | open, assign, resolve, close, reopen, merge | units, gamification |
| Maintenance, feature flags, provider settings | one row each and a per-process cache | read, update, reload | every request |
| Marketplace, advertising | listings, campaigns, slots | review lifecycles | - |
| Dashboard, analytics, monitoring, health | none | read | - |

### What is hard, and what makes each component correct

* **Receivables.** Charges, payments, waivers, corrections, credit and reversals
  of one unit come in any order, over months. Correct means: a rial that was
  paid has one origin; what a unit owes follows from what it was charged and
  what it paid; cash settles the oldest debt first; a reservation is exclusive
  and lives as long as its payment; a reversal gives back what the payment
  settled; one late fee per item.
* **Funds.** Operations that take no lock (expenses) meet operations that do
  (payments). Correct means: the balance is the replay of the ledger, nothing
  is posted twice, an expense never overdraws its fund, a key pays once, and a
  deactivated fund receives nothing new.
* **Voting.** Ballots, closing, cancelling and the sweeps race on one vote; the
  owner of a unit changes and proxies come and go between publication and
  ballot; two elections end together; a crash separates the tally from the
  handover. Correct means: a decision is final, the winner has the plurality of
  the ballots that count, a ballot is cast for whom the snapshot names, a unit has
  one proxy, and every vote is settled in the end.
* **Building.** Shares, tenancies and the current manager are checked by reads
  that another request may invalidate before the write.
* **Authentication and back office.** Token rotation races suspension;
  overlapping enforcement actions are overturned in any order; a last
  administrator must remain.
* **Documents and backup.** The database and the object store share no
  transaction; a call looks at an object and an intent before the transaction that
  relies on them; leases expire while their holder still works. Correct means:
  versions are linear, an intent is spent once, each version is queued, and what
  is marked verified can be restored.
* **Cases, verifications, gamification, notifications.** A row is read, checked,
  and later written, and only some of the writes repeat the check. Events are in
  memory and handled at the same time; a queue outlives the process. Correct
  means: a decision stands, what was settled reopens only by being reopened,
  points match events, SENT means accepted, nobody is skipped.

`PROJECT.json` lists the hazards one by one, each at its line, with the
properties that cover it or the reason why none does.

## 2. Modules

| Module | What it is |
|---|---|
| `Money` | sums of amounts, and how cash is spread over debts |
| `MoneyProofs` | lemmas about these, and what shares of a total come to |
| `FundLedger` | the abstract specification: an append-only ledger whose cash entries move the funds |
| `FundLedgerProofs` | its balances are the replay of its entries |
| `UnitFinance` | the receivables |
| `ReceivableProofs` | types, settlement, late fees; reservations and refunds; `UnitFinance` implements `FundLedger`; where paid amounts come from, the order of settlement, the balance of a unit |
| `MCUnitFinance` | its instances for TLC |
| `FundCash` | the funds, with expenses split at every point where others may run |
| `FundCashProofs` | expense entries, keys, and that `FundCash` implements `FundLedger` |
| `MCFundCash` | its instances for TLC |
| `Tally` | quorum, and the loop that finds the winner |
| `Voting` | votes, ballots, proxies, the owners they depend on, and the handover |
| `VotingProofs` | types, finality, proxies, legitimate ballots, the loop of the tally and the winner |
| `MCVoting` | its instances for TLC, and the loop of `Tally` against its purpose |
| `BackupPromise` | the abstract specification of the backup: asked, then protected, for good |
| `ObjectBackup`, `MCBackup` | the backup workers and the store, and their instance |
| `Documents`, `MCDocuments` | documents and receipts, composed with `ObjectBackup`, and their instance |
| `BackupProofs` | restorable copies and the promise, with any client and with documents; versions, intents and queued requests |
| `SignIn`, `MCSignIn` | codes, refresh tokens and suspension, and their instance |
| `SignInProofs` | its types and its three properties |
| `Rows` | how a service changes a row: read, check, and later write |
| `Desk` | the case desk of the back office |
| `Standing` | staff, accounts, verification of buildings and managers, enforcement |
| `BackOffice` | the two together, and their properties |
| `Switches` | rows with a copy in the memory of the server, feature flags |
| `Outreach` | deliveries and their queue; gamification |
| `Premises` | registration, units, owners, tenants, join requests |
| `Billing` | how a charge batch comes to be: its fund, its shares, its payers |
| `Inbox` | who hears of an event, and preferences created on demand |
| `Neighbourhood` | cases, meetings, listings, campaigns and slots |
| `Community` | the last six together, and their properties |
| `Platform`, `MCPlatform` | `BackOffice` and `Community` on one set of rows and requests, and its instance |
| `PlatformProofs` | decisions and settled cases, live rows, administrators; points and deliveries; units and their history, the funds and the shares of charges, and who hears of an event |

How they compose: `Documents` EXTENDS `ObjectBackup`, which instantiates
`BackupPromise`; `Standing` EXTENDS `Desk`, and `Outreach` EXTENDS `Switches`;
`Platform` conjoins `BackOffice` and `Community`, which share `table` (the rows),
`call` (the requests under way) and `scene`. `UnitFinance` and `FundCash` both
instantiate `FundLedger`.

### UnitFinance and the code

The variables are the tables of `prisma/schema.prisma`, indexed by primary key:
`amount`, `paid` and `itemStatus` are the columns of `charge_items` and
`adjustments`, both of which are *obligations*; `selected` and `reservation`
are `payment_debt_selections`; `alloc` is `payment_allocations`. An amount of 0
means that there is no row. `waived` is a history variable (no column): it counts
the rials of an obligation that a waiver or a correction wrote off.

One action is one call of a service method of `finance.service.ts` with the
repository transaction it ends in. Each such transaction begins with
`lockUnit`/`lockUnits` and re-reads what it decides on, so that it is one step.
The exceptions are modelled as they are:

* `applyLateFee` checks eligibility first and the transaction re-checks only
  part of it: `CheckLateFee`, then `ApplyLateFee` or `RefuseLateFee`;
* `createPayment` reads `isActive` of the fund before its transaction and never
  again, so the model's `CreatePayment` has no such guard (`FundCash` has both
  steps). The `isActive` read of an explicit payment is inside the transaction
  but unlocked; it is taken as part of the step;
* the eligible time of a late fee (`dueDate + graceDays`) is not modelled: it may
  be reached at any moment after issue.

Retries of a payment report name the same element of `Payments`: the unique
index on the key makes the second insert return the first row or fail, and
writes nothing. `CLOSED` is a status of a batch in the schema that no code path
sets; the type keeps it because the queries name it. Due dates and periods are
numbers, created order is the number of the batch or slot. `PaidBefore` is the
order of `orderBy dueDate, createdAt`. A refund is present as its guard
(`Refundable`), because the guards of `createRefund` cannot be met (see below).

The arithmetic of `Money` is stated through sets: a debt of *n* rials is a set of
*n* rials, a sum is the cardinality of a union, and `Covered` counts the rials
of a debt that the cash reaches when older debts are paid first. This is the
value the loops of `finance.repository.ts` compute; the form was chosen because
facts about cardinalities can be proved, while a fold over a set cannot be
reasoned about by the installed provers. `Billing` sums its shares the same way.

### FundCash and the code

An expense goes through `resolveFundForWrite` and `assertSufficientFundBalance`
(`ResolveExpense`), a second read of the balance in its transaction
(`ReadBalance`), and the insert that decrements the balance (`PostExpense`), or
the unique violation that rolls back and answers with the expense that holds the
key (`ReplayExpense`). The read and the insert are separate steps although they
are in one transaction: under READ COMMITTED, without `FOR UPDATE`, another
commit may fall between them. `VoidExpense` is one step because its
`updateMany({ status: 'POSTED' })` is the claim and everything else follows in
the same transaction. Payments appear with what the funds see of them.

### FundLedger

Two actions: post entries that move no cash, or post one new cash entry and move
its fund by its signed amount. `UnitFinance` and `FundCash` each instantiate it
with their own `ledger` and `balance`, so the refinement mapping is the identity
on these two variables, and everything else is hidden.

### Voting and the code

The variables are again tables: `body` and `status` are `votes` with their
options, `snapshot` is `vote_eligibility_snapshots`, `ballot` is `ballots`
indexed by its unique key, `result` is `vote_results`, with the set of units whose
ballots were counted as a history column. `ownership`, `proxies` and `managers`
hold the rows with `isCurrent = true`; a row is named by the request that
created it. `clock[v]` is where the time stands against the window of *v*.

None of these handlers takes a lock, so every read that a later write relies on
is a step of its own:

* `castBallot` checks everything (`CheckBallot`), then a transaction reads the
  vote again (`ReadOpen`) and inserts (`CreateBallot`), or meets the unique index.
  The last two are separate because the read locks nothing. `assertOpenForBallots`
  looks at `endAt` and not at `startAt`: a vote published early takes ballots
  early.
* `publishVote` and `closeVote` claim the row with `updateMany` on the expected
  status, so each is one step. The claim holds the row lock until the commit; a
  ballot whose transaction reads the old status before that commit is the same
  as one that read it before the step.
* `cancelVote` remembers the status it has read (`CheckCancel`) and names it in
  its update (`CancelVote`).
* A link of an owner finds a unit without owner (`FindUnlinked`) and inserts
  (`LinkOwnerToUnit`): two verifications of one person can both insert, and then
  the unit has two owner rows and nobody votes for it. The model keeps that.
* A proxy grant runs Serializable: `ReadProxies` is its snapshot, `CommitGrant`
  needs that what it read still stands, `AbortGrant` is P2034, which PostgreSQL may
  also raise without need. The service retries once.
* The handover after an election is `BuildingService.changeManager`: its checks
  (`CheckHandover`), the transaction's `findFirst` (`ReadManager`), and its writes
  (`ChangeManager`). No step of it is fair: a crash after the commit of the result
  loses it, and the code calls it best effort.

Proxies are matched by person, not by unit, as `isCurrentProxyFor` does: a proxy
appointed for one unit casts for every unit of the same granter. Tenancies, the
other memberships and `allowTenantVoting` are constants. An option is named by its
value. The order in which `findMany` returns ballots is not specified, so
`CloseVote` tallies in any order.

### ObjectBackup, BackupPromise and the code

A worker (`src/backup/`) is a process that the scheduler starts again and again.
Each of its calls is a step: `Claim` (the update of `claimNext`, which repeats the
conditions of its read), `Capture` (HEAD, GET with If-Match, HEAD again),
`CreateGeneration`, `PutCopy` and `PutManifest` with their read-backs, `Verify`
(the transaction fenced by `leaseOwner`) and `Fail` (fenced too). Any call may
fail, with or without its effect (`CallFails`), and a process may die or be
suspended past its lease (`Die`, `LeaseRunsOut`; at most `MaxMishaps` of these).
The attempt number stands for the random identifiers of owner and capture. A
COPYING row whose lease has expired is eligible whatever its attempts, as in
`claimNext`.

`BackupPromise` has three variables and two actions: a request is asked for once,
and becomes protected with one content for good. `ObjectBackup` maps `asked` to
the rows that exist and `protected` to the digest of the stamped generation of a
verified row.

### Documents and the code

`Documents` adds the API side. An intent is asked for (`RequestUploadUrl`,
`RequestReceiptIntent`), the client puts the object, and a second call validates
the intent and looks at the object outside of any transaction
(`ResolveForDocument`, `ResolveForVersion`, `LoadReceiptIntent`,
`ValidateMagicBytes`); the transaction that follows (`CreateDocument`,
`AddVersion`, `CreatePaymentReceipt`) consumes the intent with
`consumedAt IS NULL`, writes the rows and queues the backup. `AddVersion` is
preceded by `ReadLatest`, because it numbers a version by a plain read and relies
on the unique index. A behaviour plays one of three scenes: `BULK` (several
documents in one request), `RECEIPTS`, and `BACKUP`, where the worker of
`ObjectBackup` runs beside the API. `ActsAsBackupClient` says that every step of
the composition is one of `BackupSpec`: so `VerifiedIsRestorable` and
`ImplementsPromise`, checked there for any clients, hold here.

### SignIn and the code

One action is one query of `auth.repository.ts`: a guess is `ReadOtp`, then
`IncrementOtpAttempts` or `ClaimOtp`, `AdmitPerson`, `UpsertDevice`,
`CreateRefreshToken`; a refresh is `ReadToken`, `CheckPerson`,
`RotateRefreshToken`; the suspension of the back office is `SuspendBegins` and
`SuspendCommits`, an update that looks at each row again once it has locked it,
but not at rows created after its snapshot. `from`, `ended` and `next` are history
columns (the last is `replacedByTokenId`). Enforcement suspends in one step and
revokes nothing (`SuspendPerson`).

### Platform and the code

Most of the remaining services have one form: read a row, check it, await, and
write it by its identifier. `Rows` is this form: `Checked(c, op, i)` is the read
with its check, kept in `call[c]`; `Ends(c, op)` with `Put` is the write, with
`PutIf` where the write repeats what it has read in its where-clause, and looks at
`count`. Which of the two a handler uses is copied from the repository method,
handler by handler: `AssignSupportCase` is conditional and
`CloseSupportCase` is not. `table` is a sequence of rows of all kinds in
order of creation, and `seen` is what the request remembers.

* `Desk`: `support-case`, `fraud-case`, `compliance-case`, `legal-hold`,
  `subscription` and feature-grant services, and the nightly sweep, which looks for an
  open detection and inserts one.
* `Standing`: suspension takes the lock `user-admin:<person>`, and
  `platform-admin-usability` too if it reads its target to be an administrator, which it
  remembers (`locks`); it spans two steps, and the one-time bootstrap, which takes neither
  lock, may promote the target between them (`overtaken` keeps that on record); role and permission changes are
  looked up, then inserted under a partial unique index;
  building cases (two writes, case and building: `WriteBuildingStatus` is the
  second); manager cases with approvals of owners; enforcement, which snapshots what
  it replaces, and appeals, which put it back.
* `Neighbourhood`: `case.service`, `meeting.service`, `listing.service`,
  `ad-campaign.service`, `ad-slot.service`. `stored` is the set of campaign
  images that the object store still has.
* `Switches`: maintenance mode and provider settings are a row and a copy in memory;
  the copy takes the value that the request has written, whatever the row holds by
  then. Feature flags are a row only.
* `Outreach`: deliveries are created, then sent or queued one by one (`Notify`); the
  processor reads, calls the provider, and writes the outcome (`DispatchStep`);
  a restart requeues the running job. `gamification.service` is split at every
  await: look up, count, insert, badge, score.
* `Inbox`: the listener maps about thirty kinds of events to their recipients; each
  recipient reads the row of preferences, makes it, or fails because another is making it
  and reads it again. The five reads are one step, which finds the row or gives the
  recipient up, as the code does after some 200 ms (`missed` keeps that on record).
* `Premises`: the wizard's drafts and `submit`, `building.service` on units, invitations,
  claims, transfers, tenancies, join requests. An ownership or tenancy and its
  membership are one row with the column `member`.
* `Billing`: the fund of a batch is looked up, and taken again `FOR UPDATE` when the
  batch has a kind; totals are divided as `charge.policy.ts` does, by floor and
  largest remainder; payers are looked up before the transaction that issues.

Abstractions common to all of these. A behaviour plays one *scene*, a set of parts
that touch each other's rows; parts that share neither row nor lock are not
interleaved, because no property relates them. The actor of a request that was
admitted may be suspended before it writes. What permissions a role carries is a
rank. SYMMETRY is used on requests only.

Particular ones. A person becomes manager at most once. Manager-case transactions
and enforcement are one step (the first begins with a conditional update of its
row; the second reads and updates its target without a lock in one transaction).
Campaigns share one slot and one scope. Drafts are all for one postal code. The
two statements of a transfer take effect with the second, since the rows of the
first stay locked. Occupancy is left out. `Billing` has one series, periods 0 and
1, the flats of one building fixed for each behaviour, areas in half square
metres, exact integer shares where the code divides doubles, and only the first
flat is ever let; that the items of a MIXED batch are units of the building is not
checked by the code and not in the model. Memberships are fixed for a behaviour in
`Inbox`. `Documents` has two documents in a bulk request and one such call at a
time, one reference that is not a receipt, and at most two keys beside the worker.

## 3. Runs

| Run | Instance | Distinct states | Shows |
|---|---|---|---|
| `UnitFinanceCredit` | 1 unit, 2 batches of 2 rials with either due date, 2 automatic payments of 1 or 3, 2 adjustments (waiver of 3, debt of 1, or opening balance -1 or 1) | 748,402 | `PaidExplained`, `NetPosition`, `OldestDebtFirst` |
| `UnitFinanceReservations` | 1 unit, 3 months of one series in any order, 3 payments of either mode | 332,300 | `ReservationExclusive`, `ReservationFollowsPayment`, `NoPaymentRefundable`, `MonthlyOldestFirst`, `ReversalReopens` |
| `UnitFinanceShared` | 2 units, 2 funds (one closable), 2 batches, 1 payment, 2 late-fee requests | 469,250 | `LateFeeOnce`, `ItemsSettleOnlyWhenIssued`, `ImplementsFundLedger` |
| `FundCash` | 2 funds, an expense with its retry and another expense, 2 voids, 2 payments | 114,485 | `ExpenseEntriesMatchStatus`, `KeySpentOnce`, `ImplementsFundLedger` |
| `FundCashOverdraw` | 1 fund of 2 rials, expenses of 2 and 1 | violation | `ExpenseNeverOverdraws` fails |
| `Voting` | 1 vote (an election with two candidates or a referendum with quorum 60), 3 units, 4 ballot requests, two of them for one unit, 1 cancel request | 838,288 | `WinnerHasPlurality`, `DecisionsAreFinal`, `VotesSettle` |
| `VotingProxies` | 1 vote, 2 units, one with a tenant, 2 grants and a revocation, 2 ballots, a transfer and two links of the new owner | 907,693 | `BallotsLegitimate`, `OneCurrentProxy` |
| `VotingLateBallot` | 1 referendum, 1 ballot | violation | `ResultReproducible` fails |
| `ObjectBackup` | 1 object with 3 contents, 2 workers, 3 attempts, 2 deaths or stalls | 154,144 | `VerifiedIsRestorable`, `ImplementsPromise`, `BackupSettles`, `IntactIsProtected` |
| `Documents` | 3 keys, 2 documents, 1 payment, 2 calls, 2 contents, 1 worker with 1 attempt | 1,232,366 | `VersionsAreLinear`, `IntentSpentOnce`, `EveryVersionIsQueued`, `ActsAsBackupClient` |
| `SignIn` | 1 account, 1 device, 2 codes of 2 attempts, 3 tokens, 2 requests | 381,774 | `OneSessionPerCode`, `EndedOrReplaced`, `LockedCodeStaysLocked` |
| `Platform` | 20 scenes, 2 persons, 2 requests, 2 rows of a kind, 4 flats with areas 0 to 2 | 2,603,362 | `LastAdminSurvives`, `OneLiveRow`, `DecisionsStand` (back office); `PointsMatchEvents`, `SentMeansAccepted`, `NobodyIsSkipped` (events); `HistoryKeepsItsUnit`, `SettledCasesReopen`, `SharesAddUp`, `ClassifiedFundFits` (community) |

### Bounds

Amounts of 1 to 3 rials against debts of 1 or 2 give every relation
between a payment and the debts that the code distinguishes: less than one debt,
one debt exactly, part of a second, all of them, and more than all. Two batches
are enough for "older" and "newer"; the monthly rule needs three, because a gap
is a month between two others. Three payments are needed for a reservation that
is given up and taken by another while a third is pending. Two late-fee requests
and two adjustments per unit are needed for a second fee to have room; so are two
voids for one expense. Nothing in the code compares more than two payments or
two requests with each other, and the theorems of section 4 lift most of these
bounds. `Slots`, `Batches`, `Payments` and the request sets are the only bounds:
there is no counter. Payments are interchangeable, so TLC uses symmetry on them;
batches and slots are ordered by creation and are not. Deadlock is not checked,
because each bounded instance stops when its rows are used up, as the system does
when nobody sends a request.

Three units are enough for a tie, a plurality without a majority and a turnout
on either side of the quorum; a fourth request repeats one of the three. The loop
of the tally depends on more: `MCVoting` compares it with the definition of a
plurality for all ballots of up to five units on four options in every order,
as an assumption that each of its runs evaluates. Two grants suffice because a
grant that conflicts twice gives up.

`ObjectBackup` needs two workers for a lease that changes hands while its former
holder still writes, and three attempts against two mishaps so that an object that
stays can be protected in the end (the code has ten attempts, and the property is
stated for fewer mishaps than attempts). Requests do not interact, so one is
enough. A content that differs in size, and one that does not, are caught by
different checks. In `Documents` two calls and three keys give two uploads and a
retry; beside the worker two keys and one attempt are enough, because what the
worker does under all clients is the question of `ObjectBackup`.

`SignIn` has one account because nothing relates two; two wrong guesses lock a
code, two requests race, and the three tokens are a sign-in with two rotations, or
two sign-ins with one. `SignInProofs` removes these bounds. In `Platform`, a request
that holds a stale row races one other that changes it, so two requests and two
rows of a kind are enough for every pairwise race; three requests would add races that
consist of two such. Two persons are an administrator and another, who may be
owner, manager, candidate, tenant or staff. `MaxPoints` limits the hand-made
corrections, `MaxResends`, `Jobs` and `MaxSaid` the notifications. `SharesAddUp` runs over
all buildings of three flats and a parking lot with areas of 0, ½ and 1 square metre, with totals that
divide evenly and that do not.

### Fairness

Operations that a person starts take none: nothing in the code forces a
payment to be approved, a batch to be issued or a ballot to be cast. `FairSpec`
of `Voting` assumes that time passes (`ReachStart`, `ReachEnd`) and that the
sweeps run (`AutoPublish`, `AutoClose`): `scheduler-bootstrap.service.ts`
registers both as jobs that repeat every five minutes, and a failure on one vote
is caught inside the loop. The DTO demands two options, so the publication of a
DRAFT vote cannot fail for good. Under these, `VotesSettle` holds.

`BackupFairness` assumes that a worker that can take a step takes one (the job is
started on a schedule, and its calls have timeouts, so they answer or fail), and
that leases and backoffs run out. Failures and deaths are not fair and not
excluded: `BackupSettles` says that a request is verified or has used up its
attempts, `IntactIsProtected` that it is verified if the object stays and there
are fewer mishaps than attempts. No liveness is claimed of `Platform`: events in memory
are lost in a restart, and a delivery may stay PENDING without a job.

### Disagreements between the code and its documentation

1. **Expenses overdraw.** Two expenses that each fit the fund read the same
   balance and both post; `expense.policy.ts` promises that an expense never
   drives the balance negative (`FundCashOverdraw`).
2. **A late ballot is accepted and not counted.** A ballot whose transaction read
   its vote open is inserted after the tally, so the stored ballots no longer
   reproduce the result, which `schema.prisma` and `vote.policy.ts` promise
   (`VotingLateBallot`).

### Properties that do not hold, and how to see it

The suite is kept small enough to be repeated on every change, so these have no run
of their own. Each is defined in the named module; TLC finds a counterexample
when it is added to the configuration, with the change given.

| Property | Configuration | What happens |
|---|---|---|
| `InactiveFundGetsNoPayment` (`FundCash`) | `FundCash.cfg` with `PaymentBody <- SidePayments` | `createPayment` checks the fund before its transaction and never again: a fund deactivated meanwhile receives a payment |
| `RetryIsAnswered` (`FundCash`) | `FundCashOverdraw.cfg` with `ExpenseRequests = {e1, e2}` | the balance is checked before the key is looked up: the retry of an expense that emptied its fund fails instead of returning it |
| `LateFeeOnOutstanding` (`UnitFinance`) | `UnitFinanceShared.cfg` | the transaction does not read the outstanding principal again: a settled item is charged a late fee |
| `OneManager` (`Voting`) | `VotingLateBallot.cfg` with `Votes = {v1, v2}`, `Bodies <- TwoElections`, `BallotRequests = {b1, b2}`, `BallotBody <- ElectionBallots` | `changeManager` reads the current manager without a lock: two elections leave two |
| `AdminsCannotAllBeSuspended` (`BackOffice`) | `Platform.cfg` with `Scenes <- RoleScenes` | the error of a suspension says that the last active usable administrator cannot be suspended. Ann suspends Bob, who is read as no administrator, so the lock on administrators is not taken; the bootstrap makes Bob one; Bob suspends Ann, for the lock is free and he is counted as usable; both commit. `LastAdminSurvives` says what holds: without an enforcement against an administrator, and without a bootstrap that overtakes the suspension of whom it promotes, one remains |
| `EnforcedStaySuspended` (`BackOffice`) | `Platform.cfg` with `Scenes <- EnforcementScenes` | overturning the earlier of two suspensions puts back what its snapshot holds, although the later is in force; also, a reinstatement that has found no enforcement writes after one took effect |
| `RecoveryMeansNoManager` (`BackOffice`) | `Platform.cfg` with `Scenes <- ManagerScenes` | a candidate is rejected after the building was handed to somebody else: recovery mode is set although a verified manager is there |
| `OneDefaultFund` (`Billing`) | `Platform.cfg` with `Scenes = {{"FUNDS"}}` | a default fund is renamed while another request creates one |
| `CasesKeepTheirUnit` (`Community`) | `Platform.cfg` with `Scenes <- PremisesScenes` | the foreign key of cases is SET NULL, so a unit deleted while a case is being opened takes the case's unit with it, although `building.repository.ts` counts cases among what refuses a deletion |
| `ReceiptKeepsObject` (`Documents`) | `Documents.cfg` | one `finalize` fails to read the object for a moment and deletes it, while a concurrent one makes a receipt of it |
| `ArchivedIsReadOnly` (`Documents`) | `Documents.cfg` | `addVersion` checks the status before its transaction: a version is added to an archived document |

One disagreement holds as an invariant: no payment can ever be refunded. An
approved payment was either allocated or became credit, and `createRefund`
refuses both, so the refund route has no success path (`NoPaymentRefundable`,
proved as `RefundUnreachable`).

The models also contain the following behaviours, which contradict no text of the
repository and are kept as the code has them: a refresh that rotates
while its account is suspended leaves a live successor, and enforcement
revokes no token; restoring a manager is refused for ever after the first
restoration; support tickets and cases can be merged in a cycle; a message to a closed
ticket revives it; two legal holds can be active on one subject; a join request approved
twice creates two memberships; two claims of one unit both link, and two
tenancies of one unit can be current; a resent notification may arrive twice; a
building's score loses an update, and an award whose badge fails loses its score;
two campaigns can be active on one slot; two partial updates of a slot combine
into one that validation would refuse; a late notice revives an ended tenancy;
the copy of a switch in memory may differ from its row until the next change; a batch without
a kind is created in a fund deactivated after its check; a FIXED total over no
matching unit creates an empty batch; a percentage late fee of a small item rounds
to 0.

## 4. Proofs

All theorems hold for any finite sets of units, payments, batches and adjustments,
any funds and any amounts, any number of requests, under the assumptions the
modules name:

* `NumberedAssumption`, `FiniteAssumption`: batches and slots are finite sets of
  numbers; units, payments are finite; there is a unit and a fund;
* `AmountAssumption`, `RequestAssumption`: amounts are whole rials, a payment's is
  positive; a request names an existing fund;
* `NoItemAssumption`, `BodyAssumption`: the null values are no rows; expense
  amounts are positive, as the DTOs demand;
* `BodyAssumption` of `Voting`: there are finitely many units, requests name existing
  units, votes and persons, a vote has at least two options, an election's are persons,
  and a link made before the start was made by the invited person;
* `SignInAssumption`: a code takes at least one wrong guess;
* `BackupAssumption`, `DocumentsAssumption`: requests are the keys of the objects, and
  the null values are no rows;
* `StandingAssumption`, `PremisesAssumption`: owners, the manager and the first
  administrator are persons, and there is a unit;
* `OutreachAssumption`: the channels that providers serve have a switch of their own, the
  in-app channel has none, and no payment is a case;
* `BillingAssumption`: a building has finitely many numbered flats, whose areas are natural
  numbers of half square metres, and totals are positive.

| Theorem | Says |
|---|---|
| `LedgerReplay` | in the abstract ledger every balance is credits less debits of its cash entries |
| `TypeCorrect` | `UnitFinance` keeps `TypeOK`: no paid amount or credit is ever negative |
| `SettlementCorrect` | items are never overpaid, status and amounts agree, only issued batches have paid items |
| `FeeChargedOnce` | at most one late fee per item |
| `ReservationsExclusive`, `ReservationsFollow` | reservations are exclusive and follow their payment |
| `RefundUnreachable` | no payment satisfies the refund guards |
| `PaidIsExplained` | every paid rial was allocated by an approved payment, taken from credit at issue, or written off |
| `PositionKept` | what a unit owes less its credit is what it was charged less what it brought |
| `ReversalsReopen` | a reversal takes back what the payment had settled, item by item |
| `OldestFirst`, `MonthsInOrder` | automatic payments settle, and explicit ones reserve, older debts first |
| `LedgerRefinement`, `BalancesReplay` | `UnitFinance` implements `FundLedger`, so its balances are the replay |
| `CashTypeCorrect`, `ExpensesMatch`, `KeysSpentOnce` | types, entries and keys of `FundCash` |
| `CashRefinement`, `CashBalancesReplay` | `FundCash` implements `FundLedger`, so its balances are the replay |
| `VotingTypeCorrect` | `Voting` keeps `TypeOK`: exactly the closed votes have a result |
| `DecisionsFinal` | decisions, results and ballots never change |
| `AtMostOneProxy` | overlapping grants leave one proxy for each unit |
| `BallotsAreLegitimate` | ballots are cast by the person in the snapshot or an appointee |
| `WinnersHavePlurality` | a winner has as many ballots as any other option, whatever order the ballots are read in |
| `SignInTypeCorrect` | `SignIn` keeps `SignInTypeOK` |
| `LockedStaysLocked` | a code that has used up its guesses is never claimed |
| `RevokedOnce` | a revoked token was ended or replaced, and not both |
| `OneSessionOnly` | a code signs in once, and has one live token at most |
| `VerifiedRestorable`, `DocumentsAreRestorable` | a verified request has one stamped generation, whose copy and manifest are stored |
| `PromiseKept`, `DocumentsPromiseKept` | the workers implement `BackupPromise` |
| `DocumentsAreBackupClient` | every step of the documents is a step of the client that the backup assumes |
| `VersionsStayLinear` | versions are numbered 1 to n, the last is current |
| `IntentsSpentOnce` | an intent buys one version or none, a payment has one receipt |
| `VersionsAreQueued` | a version and its backup request are written together |
| `DecisionsAreFinal` | decided cases and answered appeals keep their outcome |
| `SettledCasesStaySettled` | a settled case changes only by being reopened |
| `LiveRowsAreUnique` | one open detection, one live grant of a role or permission |
| `AdminsSurvive` | an administrator who can act remains, unless an enforcement struck one or the bootstrap overtook the suspension of one |
| `PointsAddUp` | the balance of points is what was awarded less what was taken back, each once |
| `SentWasAccepted` | SENT means that the provider accepted |
| `HistoryHasItsUnit` | a unit with an ownership or tenancy is never deleted |
| `ChargesFitTheirFund` | a batch with a kind is created in an active fund of a compatible type |
| `ChargesAddUp` | the shares of a total come to the total, each within a rial, more area never paying less |
| `NobodyLeftOut` | without a restart, everybody an event concerns is told of it, unless the row of preferences stayed missing through the rereads |

The argument. `Settled` is the conjunction of `TypeOK` and
`ItemsSettleOnlyWhenIssued`; neither is inductive without the other, because that
`paid` stays natural depends on every share being bounded by what the item owes,
and that an item owes a natural amount is the second conjunct. `SharesBound` and
`ItemShares` carry the arithmetic: whatever the cash and the order, a debt gets
at most what it owes. `Reserving` adds to the two reservation properties that
only an explicit, reported payment holds reservations: automatic approval does
not look at reservations at all, and is harmless only because of that. For the
refinement, `EntriesDecided` says that a `PAYMENT` or `REVERSAL` entry in the
ledger names a payment already decided that way, hence that the entry an
approval or a reversal posts is new. In `FundCash` the corresponding invariant is
`Posting`, which ties each kind of entry to the row that explains it, and `KeyInv`
says that a key has one holder and answers name it. `RefundUnreachable` needs
only that payments are positive. The replay theorems of the two detailed modules
come from the refinement and `LedgerReplay`, not from their own actions.

The amounts of `UnitFinance` rest on one another. `Explained` adds to `PaidExplained`
that the credit entries of the ledger are those of issued batches, without which an
issue could find its entry already there. `OwnUnitOnly` says that a payment holds and
settles debts of its own unit, and `AdjustmentsWithin` that a positive adjustment is
never overpaid and a negative one never paid; with `Settled`, `Reserving` and
`Explained` they are `Accounted`. `NetPosition` is not inductive, because what a unit
owes is itself a difference: `Balanced` states instead that what is paid of the unit's
debts and its credit is what approved payments brought, what was written off and what
corrections granted. Every action moves both sides by the same sum, which the lemmas of
`MoneyProofs` on sums show (`TotalUnion`, `TotalWithout`, `TotalOne`, `TotalSum`, and
`TotalCovered`: the shares and what is left over add up to the cash). `OldestFirst`
follows from `ShareAmount` and from the order of debts being strict and total. For
`MonthsInOrder` the code compares the months that are selected, sorted, with as many of
the oldest: if an older month were missing, the selected ones would be more than the
months before them (`NoneOlderLeftOut`).

In `ObjectBackup` each claim raises the attempts of its request, so the key under which
a worker writes is its own. `BackupInv` says so: no worker, generation or copy has more
attempts than its request counts (`AttemptsCounted`); two workers on a request differ in
the attempt (`KeysApart`); `Stage` says what is stored by the time a worker has reached a
step; and `Stamped` that a verified request has a stamped generation. The lease is not
used: that a worker may write after losing it is harmless because of the keys, and the
conditional update that sets VERIFIED compares owner and attempt. The documents keep
the backup's invariant because their steps are steps of its client
(`DocumentsAreBackupClient`), so they inherit its theorems. `DocumentsInv` adds to the
three properties what a call has in its hands: the checks before the transaction are not
relied on, except that an object and an intent were once there (`CallSound`), that
purchased intents name what they bought (`Bought`), and receipts what was uploaded for
them (`Receipted`).

In `Voting`, `DecisionsFinal` follows from the type invariant alone, because it says
that a cancel request only ever remembers DRAFT or ACTIVE. `AtMostOneProxy` needs
`OnePerUnit` and no memory of the grants: what a committing transaction has seen is
what it removes. `BallotsAreLegitimate` needs `BallotFacts`, which carries what
the checks of a ballot found over to its insertion: `Legitimate` includes that the
vote has left DRAFT, since only then are its options and its snapshot fixed, and
it counts a proxy by its grant, which a revocation does not undo.

`WinnersHavePlurality` goes through the loop that finds the winner. `Loop` is a function
on the turns 0 to n, and `LoopTurns` shows that every turn follows from the one before, by
the least turn of which this would be false (the sets of the well-founded order are
quantified inside a formula, so the library's theorem applies). `Knows` says what the
loop knows after i options: whose count is the top count so far, and that there is a tie
exactly if another of them has it. The property itself is about the ballots there are
now, not those the count saw; `TallyInv` carries the result of a closed vote as the loop's
outcome over the counted units, whose ballots stay (`BallotsStay`).

In `SignIn`, `Types` says what a request under way has in its hands: a code or token
that exists (no row is ever deleted), and `Existing` that only an existing account
is suspended. `LockedStaysLocked` needs `ReadInTime`: a right guess remembers
fewer attempts than the limit, so it cannot equal the attempts of a locked code.
`TokensTold` is `EndedOrReplaced` with the converse, that what was ended or
replaced is revoked; without it a rotation could not conclude from a live token
that it has no history. `OneSession` adds to `OneSessionPerCode` that the code of
every token was consumed, which is why a claim of an unconsumed code finds no
token of it.

In `Platform` every operation goes through the same two facts. `TableMoves` says what
one step may make of the rows: each row follows itself (`Follows`: it keeps its kind and
subject, and what was decided stays), and at most one row is new, which has no live
rival, is of a unit that stands, and fits its fund (`Fresh`). `Sound` says what a request
has in its hands between its steps: it is on a row of the kind it was checked for, and
the conditional updates compare with what it saw there. There is one lemma for each
service, that its steps make a step of `TableMoves` and leave the requests `Sound`, and
`DecisionsAreFinal`, `SettledCasesStaySettled`, `ChargesFitTheirFund` and
`LiveRowsAreUnique` are read off `Follows` and `Fresh`. The other properties need more:

* `AdminsSurvive` is not about an administrator who is not suspended, but about one
  whom no request is about to suspend (`Safe`). That a suspension counts the others
  while it holds the locks, and commits in a later step, keeps one such person:
  `LockedOrOvertaken` says that whoever is suspending an administrator holds the lock, or
  read the target before the bootstrap promoted it, which is on record.
* `HistoryHasItsUnit` needs that deletion and creation do not fall into one step
  (`UnitsMove`); the deletion looks again in the step in which it removes the row.
* `SentWasAccepted` needs `NotesSent`: a job that has got its ACCEPTED belongs to a
  delivery that was accepted, because the answer of the provider is in memory while
  other jobs write the same row.
* `PointsAddUp` carries `Awarded`: a request that takes points back has found their
  award in the ledger, which only grows. The balance is the difference of two sums of
  cardinalities, of what was given and of what was taken.
* `NobodyLeftOut` carries `Told` and `Preferred`: who was passed over was told, has a
  row of preferences that lets nothing through and made it so, or was given up because the
  row was still missing when it was read again. It is stated for the
  scenes without a restart, because events are in memory and a restart does lose them;
  the run interleaves no restart with the telling either.
* `ChargesAddUp` carries `Charged`: every batch still holds the items that its request
  works out. That these fit their total is `SharesFit` of `MoneyProofs`, for equal shares and for
  shares by area at once: what is left over when every exact share is rounded down is the
  sum of the remainders, so it is less than the number of flats with a remainder
  (`TotalBelow`), and the flats that come first in a strict total order are as many as are
  left over (`FirstOnes`). Facts about all finite sets are shown by a largest subset of
  which they hold (`SetsGrow`), since induction over data is not available.

Every invariant and action property that a run of the code's guarantees checks is stated by
a theorem. Checked by TLC and not proved: the liveness properties `VotesSettle`,
`BackupSettles` and `IntactIsProtected`. Beyond the prover altogether: liveness under
fairness and `ENABLED`, induction over data through the library's theorems (what is needed
of it goes through least numbers and largest subsets, as above), and anything that uses a
`RECURSIVE` operator; no module here declares one.

## 5. Not modelled

* Reports, statements, summaries, dashboards, analytics, monitoring and health:
  they read. The profile of a person: one update, last write wins.
* HTTP, validation of bodies, throttling, serialisation, audit rows and texts of
  notifications; the list of cities, which is data.
* Charge series are given: their creation and the preview of a batch are left out.
* Downloads of documents, which stamp an access record, and installations without
  object storage.
* Messages of support cases beyond the status they set, exports and searches of the
  back office.
* Read and archive flags of notifications and the registration of push tokens;
  which advertisement a viewer is shown; the leaderboard.
* The waiting of finance transactions on each other's advisory locks: an operation
  is one step. The lock key is a 32-bit hash, so two units may share one, and
  PostgreSQL would fail one of two transactions that wait on each other.

## 6. What is left

An abstract specification of the life of a row in `Platform` would put `Follows` and
`Fresh` beside the model instead of in its proofs. The proofs of `Platform` keep what the
properties need of a row and leave the columns of plain kinds open.

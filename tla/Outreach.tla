------------------------------ MODULE Outreach ------------------------------
(***************************************************************************)
(* What events set off beside the transaction they come from: a            *)
(* notification with its deliveries and dispatch jobs, and the experience  *)
(* points, achievement and building score of gamification.  Events are     *)
(* emitted in memory after the commit and handled at the same time; a      *)
(* restart forgets those that are not handled yet.                         *)
(***************************************************************************)
EXTENDS Switches, Integers, TLC

CONSTANTS
    InApp,         \* the channel that needs no provider
    External,      \* channels with a provider; their names are switches
    MaxAttempts,   \* attempts of a dispatch job
    Jobs,          \* bound of the model: dispatch jobs that exist at once
    MaxResends,    \* bound of the model: resends asked for
    Payments,      \* payments that earn points
    Cases          \* cases that earn points

ASSUME OutreachAssumption ==
    /\ External \subseteq SwitchNames \ {Maintenance} /\ InApp \notin External
    /\ MaxAttempts \in Nat \ {0}
    /\ Payments \intersect Cases = {}

VARIABLES
    delivery,    \* per channel of one notification: its delivery, and what the provider accepted
    job,         \* the dispatch queue
    resends,     \* resends asked for so far
    life,        \* per payment and case: what has happened to it
    event,       \* events emitted and not handled yet
    points,      \* the ledger of experience points of one person
    balance,     \* xpBalance
    badge,       \* the achievement of a first payment is held
    score        \* score of the building

noteVars == <<delivery, job, resends>>
gameVars == <<life, event, points, balance, badge, score>>

Channels == External \union {InApp}
NoDelivery == [status |-> "NONE", accepted |-> FALSE]
NoJob == [state |-> "NONE"]
References == Payments \union Cases

OutreachInit ==
    /\ SwitchesInit
    /\ delivery = [ch \in Channels |-> NoDelivery]
    /\ job = [j \in Jobs |-> NoJob]
    /\ resends = 0
    /\ life = [r \in References |-> "NEW"]
    /\ event = {}
    /\ points = <<>>
    /\ balance = 0 /\ badge = FALSE /\ score = 0

-----------------------------------------------------------------------------
(* Notifications.                                                          *)

\* One delivery per channel that the preference, or the priority, lets through.
CreateNotification(channels) ==
    delivery' = [ch \in Channels |->
        IF ch \in channels THEN [NoDelivery EXCEPT !.status = "PENDING"] ELSE NoDelivery]

MarkDelivery(ch, s) == delivery' = [delivery EXCEPT ![ch].status = s]

DispatchJob(ch) == [state |-> "WAITING", of |-> ch, made |-> 0]
FreeJobs == {j \in Jobs : job[j] = NoJob}

AddJob(ch) ==
    /\ FreeJobs # {}
    /\ job' = [job EXCEPT ![CHOOSE j \in FreeJobs : TRUE] = DispatchJob(ch)]

\* The deliveries are created together, then sent or queued one at a time; a restart in
\* between leaves the rest pending without a job.
Notify(c) ==
    \/ /\ call[c] = Idle
       /\ delivery = [ch \in Channels |-> NoDelivery]
       /\ \E channels \in SUBSET Channels \ {{}} :
              /\ CreateNotification(channels)
              /\ call' = [call EXCEPT ![c] = [op |-> "NOTIFY", left |-> channels]]
       /\ UNCHANGED job
    \/ \E ch \in Channels :
           /\ call[c].op = "NOTIFY" /\ ch \in call[c].left
           /\ call' = IF call[c].left = {ch} THEN [call EXCEPT ![c] = Idle]
                      ELSE [call EXCEPT ![c].left = @ \ {ch}]
           /\ IF ch = InApp
              THEN MarkDelivery(ch, "SENT") /\ UNCHANGED job
              ELSE AddJob(ch) /\ UNCHANGED delivery

\* Only a failed delivery is resent; the reset does not repeat the check.
ResendDelivery(c) ==
    \/ /\ call[c] = Idle /\ resends < MaxResends
       /\ \E ch \in Channels :
              /\ delivery[ch].status = "FAILED"
              /\ call' = [call EXCEPT ![c] = [op |-> "RESEND", of |-> ch]]
       /\ resends' = resends + 1
       /\ UNCHANGED <<delivery, job>>
    \/ /\ call[c].op = "RESEND"
       /\ MarkDelivery(call[c].of, "PENDING")
       /\ call' = [call EXCEPT ![c].op = "REQUEUE"]
       /\ UNCHANGED <<job, resends>>
    \/ /\ Ends(c, "REQUEUE")
       /\ AddJob(call[c].of)
       /\ UNCHANGED <<delivery, resends>>

\* The worker runs one job at a time.
Running(j) == job[j].state \notin {"NONE", "WAITING"}
JobTurns(j, s) == job' = [job EXCEPT ![j].state = s]

\* The delivery is read: it may be settled already, or the channel may not be usable (no
\* provider configured, provider switched off, no address or device).
StartJob(j) ==
    /\ job[j].state = "WAITING" /\ \A k \in Jobs : ~Running(k)
    /\ IF delivery[job[j].of].status # "PENDING"
       THEN job' = [job EXCEPT ![j] = NoJob]
       ELSE \/ IsEnabled(job[j].of) /\ JobTurns(j, "SENDING")
            \/ JobTurns(j, "REFUSED")
    /\ UNCHANGED <<delivery, resends>>

\* Mutant: the answers are in, whatever they are.
Answered(n) == TRUE

\* At least one of the requests has succeeded.
Succeeded(n) == n > 0

Retried(j) ==
    [job[j] EXCEPT !.made = @ + 1,
                   !.state = IF job[j].made + 1 < MaxAttempts THEN "WAITING" ELSE "EXHAUSTED"]

\* A request to the provider, or one for each device: n of them succeed.
SendJob(j) ==
    /\ job[j].state = "SENDING"
    /\ \E n \in 0 .. 2 :
           /\ delivery' = [delivery EXCEPT ![job[j].of].accepted = @ \/ n > 0]
           /\ IF Succeeded(n) THEN JobTurns(j, "ACCEPTED")
              ELSE JobTurns(j, "REFUSED") \/ job' = [job EXCEPT ![j] = Retried(j)]
    /\ UNCHANGED resends

\* The outcome is written by the identifier of the delivery.
SettleJob(j) ==
    /\ job[j].state \in {"ACCEPTED", "REFUSED", "EXHAUSTED"}
    /\ MarkDelivery(job[j].of, IF job[j].state = "ACCEPTED" THEN "SENT" ELSE "FAILED")
    /\ job' = [job EXCEPT ![j] = NoJob]
    /\ UNCHANGED resends

\* The queue outlives a restart: the job that was running is taken up again, the one whose
\* attempts are exhausted has failed, and its delivery stays as it is.
Requeued(j) ==
    IF job[j].state = "EXHAUSTED" THEN NoJob
    ELSE IF Running(j) THEN [job[j] EXCEPT !.state = "WAITING"] ELSE job[j]

DispatchStep(j) == StartJob(j) \/ SendJob(j) \/ SettleJob(j)

-----------------------------------------------------------------------------
(* Gamification.                                                           *)

\* XP_CATALOG: the points of a reason, and what the building gains with them.
Award == [CHARGE_PAID |-> 2, CHARGE_PAID_REVERSED |-> -2, CASE_RESOLVED |-> 1]

Emit(r, name) == event' = event \union {[of |-> r, name |-> name]}

\* What gamification listens to: a payment is approved and may be reversed, or refunded
\* in full; a case may be resolved, reopened and resolved again.
PaymentApproved(r) ==
    /\ life[r] = "NEW" /\ r \in Payments
    /\ life' = [life EXCEPT ![r] = "APPROVED"]
    /\ Emit(r, "CHARGE_PAID")

PaymentUndone(r) ==
    /\ life[r] = "APPROVED"
    /\ life' = [life EXCEPT ![r] = "UNDONE"]
    /\ Emit(r, "CHARGE_PAID_REVERSED")

CaseStatusChanged(r) ==
    /\ r \in Cases
    /\ \/ life[r] \in {"NEW", "REOPENED"} /\ Emit(r, "CASE_RESOLVED")
       \/ life[r] = "RESOLVED" /\ UNCHANGED event
    /\ life' = [life EXCEPT ![r] = IF @ = "RESOLVED" THEN "REOPENED" ELSE "RESOLVED"]

Transaction(r, reason) == [of |-> r, reason |-> reason, amount |-> Award[reason]]
Recorded(r, reason) == \E i \in DOMAIN points : points[i].of = r /\ points[i].reason = reason
PriorCount(reason) == Cardinality({i \in DOMAIN points : points[i].reason = reason})

Turns(c, op) == call' = [call EXCEPT ![c].op = op]

\* A handler takes an event up.  To take points back it first looks for the award and for an
\* earlier reversal; to award them it begins the transaction.
HandleEvent(c, e) ==
    /\ call[c] = Idle
    /\ event' = event \ {e}
    /\ call' = [call EXCEPT ![c] =
           [op |-> IF e.name = "CHARGE_PAID_REVERSED" THEN "CLAWBACK" ELSE "AWARD",
            of |-> e.of, reason |-> e.name]]
    /\ UNCHANGED <<points, balance, badge, score>>

ClawbackChargePaidXp(c) ==
    /\ call[c].op = "CLAWBACK"
    /\ IF Recorded(call[c].of, "CHARGE_PAID") /\ ~Recorded(call[c].of, "CHARGE_PAID_REVERSED")
       THEN Turns(c, "AWARD") ELSE call' = [call EXCEPT ![c] = Idle]
    /\ UNCHANGED <<points, balance, badge, score>>

\* Mutant: (referenceType, referenceId, reason) is not unique.
NeverSuppressed(c) == FALSE

\* The unique index over the ledger: the later of two awards answers "not awarded".
DuplicateSuppressed(c) == Recorded(call[c].of, call[c].reason)

\* The transaction counts the earlier awards of the reason, ...
CountPrior(c) ==
    /\ call[c].op = "AWARD"
    /\ call' = [call EXCEPT ![c] =
           [op |-> "INSERT", of |-> @.of, reason |-> @.reason, first |-> PriorCount(@.reason) = 0]]
    /\ UNCHANGED <<points, balance, badge, score>>

\* ... and adds the row and the balance.
AwardXp(c) ==
    /\ call[c].op = "INSERT"
    /\ IF DuplicateSuppressed(c)
       THEN call' = [call EXCEPT ![c] = Idle] /\ UNCHANGED <<points, balance>>
       ELSE LET t == Transaction(call[c].of, call[c].reason) IN
            /\ points' = Append(points, t)
            /\ balance' = balance + t.amount
            /\ Turns(c, IF call[c].first /\ call[c].reason = "CHARGE_PAID" THEN "UNLOCK" ELSE "SCORE")
    /\ UNCHANGED <<badge, score>>

\* The badge is looked up, then created; the active one is unique, and a handler whose
\* create fails ends there, before the score.
UnlockAchievement(c) ==
    /\ \/ /\ call[c].op = "UNLOCK"
          /\ Turns(c, IF badge THEN "SCORE" ELSE "UNLOCKING")
          /\ UNCHANGED badge
       \/ /\ call[c].op = "UNLOCKING"
          /\ IF badge THEN call' = [call EXCEPT ![c] = Idle] ELSE Turns(c, "SCORE")
          /\ badge' = TRUE
    /\ UNCHANGED <<points, balance, score>>

\* The score is read and written back without a lock.
ApplyBuildingScoreDelta(c) ==
    /\ \/ /\ call[c].op = "SCORE"
          /\ call' = [call EXCEPT ![c] = [op |-> "SCORED", reason |-> @.reason, before |-> score]]
          /\ UNCHANGED score
       \/ /\ Ends(c, "SCORED")
          /\ score' = call[c].before + Award[call[c].reason]
    /\ UNCHANGED <<points, balance, badge>>

\* Corrections of the back office: no reference, nothing to compare with.
AdjustXp(amount) ==
    /\ points' = Append(points, [of |-> "NOTHING", reason |-> "ADMIN_CORRECTION", amount |-> amount])
    /\ balance' = balance + amount
    /\ UNCHANGED <<call, badge, score>>

AdjustBuildingScore(c) ==
    /\ call[c] = Idle
    /\ call' = [call EXCEPT ![c] = [op |-> "SCORE", reason |-> "CASE_RESOLVED"]]
    /\ UNCHANGED <<points, balance, badge, score>>

GrantAchievement == ~badge /\ badge' = TRUE /\ UNCHANGED <<call, points, balance, score>>
RevokeAchievement == badge /\ badge' = FALSE /\ UNCHANGED <<call, points, balance, score>>

GameStep(c) ==
    \/ ClawbackChargePaidXp(c) \/ CountPrior(c) \/ AwardXp(c) \/ UnlockAchievement(c)
    \/ ApplyBuildingScoreDelta(c)

=============================================================================

-------------------------------- MODULE Desk --------------------------------
(***************************************************************************)
(* The case desk of the back office: support tickets, fraud cases,         *)
(* compliance cases, legal holds and building subscriptions.               *)
(***************************************************************************)
EXTENDS Rows

-----------------------------------------------------------------------------
(* Support tickets.                                                        *)

\* priority counts from LOW = 0 to CRITICAL = 3; "into" is the ticket it was merged into.
SupportCase == [kind |-> "SUPPORT", status |-> "OPEN", priority |-> 2, into |-> 0]

Actionable(k) == k.status \notin {"RESOLVED", "CLOSED"}
Closable(k) == k.status = "RESOLVED"
Reopenable(k) == ~Actionable(k) /\ k.into = 0
Escalatable(k) == Actionable(k) /\ k.priority < 3

OpenSupportCase == Open(SupportCase)

\* Some ticket that passes the check of the operation.
ChecksSupport(c, op, Fit(_)) == \E i \in Ids("SUPPORT") : Fit(table[i]) /\ Checked(c, op, i)

\* The status is set whatever it has become.
UpdateSupportCaseStatus(c, s) == Put(c, [Now(c) EXCEPT !.status = s])

SupportCaseAssigned(c) == PutIf(c, SameStatus(c), [Now(c) EXCEPT !.status = "IN_PROGRESS"])

AssignSupportCase(c) ==
    \/ ChecksSupport(c, "ASSIGN", Actionable)
    \/ Ends(c, "ASSIGN") /\ SupportCaseAssigned(c)

\* A message is kept whatever happens; the status then follows from what was read before it.
AddStaffMessage(c) ==
    \/ ChecksSupport(c, "MESSAGE", Actionable)
    \/ /\ Ends(c, "MESSAGE")
       /\ \E internal \in BOOLEAN :
              IF Seen(c).status = "OPEN" /\ ~internal
              THEN UpdateSupportCaseStatus(c, "WAITING_USER") ELSE UNCHANGED table

ReplyAsCreator(c) ==
    \/ ChecksSupport(c, "REPLY", Actionable)
    \/ /\ Ends(c, "REPLY")
       /\ IF Seen(c).status = "WAITING_USER"
          THEN UpdateSupportCaseStatus(c, "IN_PROGRESS") ELSE UNCHANGED table

SupportCaseResolved(c) == PutIf(c, SameStatus(c), [Now(c) EXCEPT !.status = "RESOLVED"])

ResolveSupportCase(c) ==
    \/ ChecksSupport(c, "RESOLVE", Actionable)
    \/ Ends(c, "RESOLVE") /\ SupportCaseResolved(c)

CloseSupportCase(c) ==
    \/ ChecksSupport(c, "CLOSE", Closable)
    \/ Ends(c, "CLOSE") /\ UpdateSupportCaseStatus(c, "CLOSED")

SupportCaseReopened(c) == PutIf(c, SameStatus(c), [Now(c) EXCEPT !.status = "OPEN"])

ReopenSupportCase(c) ==
    \/ ChecksSupport(c, "REOPEN", Reopenable)
    \/ Ends(c, "REOPEN") /\ SupportCaseReopened(c)

\* One step up from the priority that was read, which may have been raised meanwhile.
EscalateSupportCase(c) ==
    \/ ChecksSupport(c, "ESCALATE", Escalatable)
    \/ Ends(c, "ESCALATE") /\ Put(c, [Now(c) EXCEPT !.priority = Seen(c).priority + 1])

\* Both tickets are checked when they are read; the target is not looked at again.
Mergeable(i, j) ==
    /\ i # j
    /\ Actionable(table[i]) /\ table[i].into = 0
    /\ Actionable(table[j]) /\ table[j].into = 0

SupportCaseMerged(c) ==
    PutIf(c, SameStatus(c) /\ Now(c).into = 0,
          [Now(c) EXCEPT !.into = call[c].into, !.status = "CLOSED"])

MergeSupportCase(c) ==
    \/ \E i, j \in Ids("SUPPORT") :
           /\ call[c] = Idle
           /\ Mergeable(i, j)
           /\ call' = [call EXCEPT ![c] =
                  [op |-> "MERGE", on |-> i, seen |-> table[i], into |-> j]]
           /\ UNCHANGED table
    \/ Ends(c, "MERGE") /\ SupportCaseMerged(c)

SupportStep(c) ==
    \/ AssignSupportCase(c) \/ AddStaffMessage(c) \/ ReplyAsCreator(c) \/ ResolveSupportCase(c)
    \/ CloseSupportCase(c) \/ ReopenSupportCase(c) \/ EscalateSupportCase(c)
    \/ MergeSupportCase(c)

-----------------------------------------------------------------------------
(* Fraud cases.                                                            *)

\* "on" is what the case accuses: a person, or the building.
FraudCase(x) == [kind |-> "FRAUD", status |-> "OPEN", on |-> x, evidence |-> FALSE]

\* A member reports, or staff open a case on a signal.
ReportFraud(x) == Open(FraudCase(x))

Investigable(k) == k.status \in {"OPEN", "UNDER_INVESTIGATION"}
FraudReopenable(k) == k.status \in {"CONFIRMED", "DISMISSED"}

ChecksFraud(c, op, Fit(_)) == \E i \in Ids("FRAUD") : Fit(table[i]) /\ Checked(c, op, i)

FraudCaseAssigned(c) == PutIf(c, SameStatus(c), [Now(c) EXCEPT !.status = "UNDER_INVESTIGATION"])

AssignFraudCase(c) ==
    \/ ChecksFraud(c, "INVESTIGATE", Investigable)
    \/ Ends(c, "INVESTIGATE") /\ FraudCaseAssigned(c)

\* Nothing is compared when the evidence is written: it may reach a decided case.
FraudCaseEvidenceAdded(c) == Put(c, [Now(c) EXCEPT !.evidence = TRUE])

AddFraudCaseEvidence(c) ==
    \/ ChecksFraud(c, "EVIDENCE", Investigable)
    \/ Ends(c, "EVIDENCE") /\ FraudCaseEvidenceAdded(c)

FraudCaseDecided(c, s) == PutIf(c, SameStatus(c), [Now(c) EXCEPT !.status = s])

DecideFraudCase(c) ==
    \/ ChecksFraud(c, "DECIDE_FRAUD", Investigable)
    \/ Ends(c, "DECIDE_FRAUD") /\ \E s \in {"CONFIRMED", "DISMISSED"} : FraudCaseDecided(c, s)

\* New evidence on a decided case opens another one; the decided one stays as it is.
ReopenFraudCase == \E i \in Ids("FRAUD") : FraudReopenable(table[i]) /\ Open(FraudCase(table[i].on))

FraudStep(c) == AssignFraudCase(c) \/ AddFraudCaseEvidence(c) \/ DecideFraudCase(c)

-----------------------------------------------------------------------------
(* Compliance cases.                                                       *)

ComplianceCase(key) == [kind |-> "COMPLIANCE", status |-> "OPEN", by |-> NoOne, key |-> key]

OpenComplianceCase == Open(ComplianceCase(NoOne))

\* Mutant: the sweep only looks for a case that nobody has taken up yet.
DetectionUnassigned(p) ==
    \E i \in Ids("COMPLIANCE") : table[i].key = p /\ table[i].status = "OPEN"

\* activeDetectionKey is unique; NoOne stands for null, which any number of rows have.
DetectionKeyTaken(p) == \E i \in Ids("COMPLIANCE") : table[i].key = p

\* What the sweep over repeated fraud, suspensions and rejected payments finds about p.
AutoOpenComplianceCase(p) == ~DetectionKeyTaken(p) /\ Open(ComplianceCase(p))

SameAssignee(c) == Now(c).by = Seen(c).by

ComplianceInvestigable(k) == k.status \in {"OPEN", "UNDER_INVESTIGATION"}
ChecksCompliance(c, op) ==
    \E i \in Ids("COMPLIANCE") : ComplianceInvestigable(table[i]) /\ Checked(c, op, i)

ComplianceCaseAssigned(c, p) ==
    PutIf(c, SameStatus(c) /\ SameAssignee(c),
          [Now(c) EXCEPT !.status = "UNDER_INVESTIGATION", !.by = p])

AssignComplianceCase(c, eligible) ==
    \/ ChecksCompliance(c, "COMPLY")
    \/ Ends(c, "COMPLY") /\ \E p \in eligible \ {Seen(c).by} : ComplianceCaseAssigned(c, p)

\* The decision gives the detection key back.
ComplianceCaseDecided(c, s) ==
    PutIf(c, SameStatus(c) /\ SameAssignee(c), [Now(c) EXCEPT !.status = s, !.key = NoOne])

DecideComplianceCase(c) ==
    \/ ChecksCompliance(c, "DECIDE_COMPLIANCE")
    \/ /\ Ends(c, "DECIDE_COMPLIANCE")
       /\ \E s \in {"CONFIRMED", "DISMISSED"} : ComplianceCaseDecided(c, s)

-----------------------------------------------------------------------------
(* Legal holds on one entity.                                              *)

LegalHold == [kind |-> "HOLD", status |-> "ACTIVE"]
ActiveLegalHolds == {i \in Ids("HOLD") : table[i].status = "ACTIVE"}

\* Looked up first, created afterwards: two requests may both find none.
PlaceLegalHold(c) ==
    \/ /\ call[c] = Idle /\ ActiveLegalHolds = {}
       /\ call' = [call EXCEPT ![c] = [op |-> "HOLD"]]
       /\ UNCHANGED table
    \/ Ends(c, "HOLD") /\ Insert(LegalHold)

LegalHoldReleased(c) == Put(c, [Now(c) EXCEPT !.status = "RELEASED"])

ReleaseLegalHold(c) ==
    \/ \E i \in ActiveLegalHolds : Checked(c, "RELEASE", i)
    \/ Ends(c, "RELEASE") /\ LegalHoldReleased(c)

-----------------------------------------------------------------------------
(* Subscriptions: "due" says that trialEndsAt, currentPeriodEndsAt or      *)
(* gracePeriodEndsAt, whichever the status reads, has passed.              *)

Subscription ==
    [kind |-> "SUBSCRIPTION", status |-> "TRIAL", plan |-> "FREE", due |-> FALSE, grant |-> "NONE"]

InitiateSubscription == Ids("SUBSCRIPTION") = {} /\ Open(Subscription)

UpdateSubscriptionPlan(c, p) == Put(c, [Now(c) EXCEPT !.plan = p])
\* The new status starts its own period; only a period that has been seen to end is due.
UpdateSubscriptionStatus(c, s) == Put(c, [Now(c) EXCEPT !.status = s, !.due = FALSE])

ChangePlan(c) ==
    \/ \E i \in Ids("SUBSCRIPTION") : Checked(c, "PLAN", i)
    \/ Ends(c, "PLAN") /\ \E p \in {"FREE", "PRO"} : UpdateSubscriptionPlan(c, p)

ChangeStatus(c) ==
    \/ \E i \in Ids("SUBSCRIPTION") : Checked(c, "STATUS", i)
    \/ /\ Ends(c, "STATUS")
       /\ \E s \in {"ACTIVE", "EXPIRED", "CANCELLED"} : UpdateSubscriptionStatus(c, s)

DueForEvaluation(k) == k.due /\ k.status # "CANCELLED"

\* The sweep finds the due subscriptions and evaluates each on a row of its own reading:
\* a trial and a grace period end in the free plan, a paid period in the grace period.
\* The plan and the status are two updates.
EvaluateExpiry(c) ==
    \/ \E i \in Ids("SUBSCRIPTION") : DueForEvaluation(table[i]) /\ Checked(c, "EXPIRE", i)
    \/ /\ call[c].op = "EXPIRE"
       /\ IF Seen(c).status = "ACTIVE"
          THEN /\ UpdateSubscriptionStatus(c, "EXPIRED")
               /\ call' = [call EXCEPT ![c] = Idle]
          ELSE /\ UpdateSubscriptionPlan(c, "FREE")
               /\ call' = [call EXCEPT ![c].op = "DOWNGRADED"]
    \/ Ends(c, "DOWNGRADED") /\ UpdateSubscriptionStatus(c, "ACTIVE")

\* A feature granted beside the plan, and its revocation.
CreateGrant(i) ==
    /\ table[i].grant = "NONE"
    /\ table' = [table EXCEPT ![i].grant = "ACTIVE"]
    /\ UNCHANGED call

GrantRevocable(k) == k.grant = "ACTIVE"
FeatureGrantRevoked(c) == Put(c, [Now(c) EXCEPT !.grant = "REVOKED"])

RevokeGrant(c) ==
    \/ \E i \in Ids("SUBSCRIPTION") : GrantRevocable(table[i]) /\ Checked(c, "REVOKE", i)
    \/ Ends(c, "REVOKE") /\ FeatureGrantRevoked(c)

PeriodEnds(i) ==
    /\ ~table[i].due
    /\ table' = [table EXCEPT ![i].due = TRUE]
    /\ UNCHANGED call

SubscriptionStep(c) == ChangePlan(c) \/ ChangeStatus(c) \/ EvaluateExpiry(c) \/ RevokeGrant(c)

-----------------------------------------------------------------------------

DeskStep(c, eligible) ==
    \/ SupportStep(c) \/ FraudStep(c) \/ SubscriptionStep(c)
    \/ AssignComplianceCase(c, eligible) \/ DecideComplianceCase(c)
    \/ PlaceLegalHold(c) \/ ReleaseLegalHold(c)

\* Rows that come into being without reading another one first.
DeskOpens ==
    \/ OpenSupportCase \/ InitiateSubscription \/ ReopenFraudCase \/ OpenComplianceCase
    \/ \E p \in Persons : AutoOpenComplianceCase(p)
    \/ \E i \in Ids("SUBSCRIPTION") : CreateGrant(i) \/ PeriodEnds(i)

=============================================================================

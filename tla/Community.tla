------------------------------ MODULE Community ------------------------------
(***************************************************************************)
(* The community of a building: its premises and the people in them, their *)
(* cases, meetings, listings and campaigns, and what reaches them.         *)
(***************************************************************************)
EXTENDS Neighbourhood, Outreach, Premises, Billing, Inbox, Money

CONSTANTS MaxPoints    \* bound of the model: staff correct only smaller ledgers and scores

communityVars == <<stored, switch, noteVars, gameVars, unit, flats, inboxVars>>

RecordMoves ==
    /\ \/ "CASES" \in scene /\ (CreateCase \/ \E c \in Calls : CaseStep(c))
       \/ "MEETINGS" \in scene /\ (CreateMeeting \/ \E c \in Calls : MeetingStep(c))
       \/ "LISTINGS" \in scene /\ (Submit \/ \E c \in Calls : ListingStep(c))
       \/ "SLOT" \in scene /\ \E c \in Calls : UpdateSlotFill(c)
       \/ "FLAGS" \in scene /\ \E c \in Calls : FlagStep(c)
       \/ "REGISTRATION" \in scene /\ (UpdateSettings \/ \E c \in Calls : RegistrationStep(c))
       \/ "REQUESTS" \in scene
          /\ (RequestMembership \/ \E c \in Calls : ResolveMembershipRequest(c))
    /\ UNCHANGED communityVars

AdvertisingMoves ==
    /\ CreateCampaign \/ \E c \in Calls : CampaignStep(c)
    /\ UNCHANGED <<switch, noteVars, gameVars, unit, flats, inboxVars>>

PremisesMoves ==
    /\ \/ InviteOwner
       \/ \E c \in Calls :
              \/ UnitStep(c)
              \/ "OWNERSHIP" \in scene /\ OwnershipStep(c)
              \/ "TENANCY" \in scene /\ TenancyStep(c) /\ UNCHANGED unit
    /\ UNCHANGED <<stored, switch, noteVars, gameVars, flats, inboxVars>>

SwitchMoves ==
    /\ \E c \in Calls : Refreshes(c) \/ \E s \in SwitchNames, v \in BOOLEAN : SetEnabled(c, s, v)
    /\ UNCHANGED <<stored, noteVars, gameVars, unit, flats, inboxVars>>

\* The requests and the events in memory are lost; the dispatch queue is not.
RestartMoves ==
    /\ Restart
    /\ job' = [j \in Jobs |-> Requeued(j)]
    /\ event' = {}
    /\ UNCHANGED <<stored, delivery, resends, life, points, balance, badge, score, unit, flats, inboxVars>>

NotificationMoves ==
    /\ \/ \E c \in Calls :
              \/ Notify(c) /\ UNCHANGED resends
              \/ ResendDelivery(c)
       \/ \E j \in Jobs : DispatchStep(j) /\ UNCHANGED call
    /\ UNCHANGED <<table, stored, switch, gameVars, unit, flats, inboxVars>>

GamificationMoves ==
    /\ \/ \E r \in References :
              /\ PaymentApproved(r) \/ PaymentUndone(r) \/ CaseStatusChanged(r)
              /\ UNCHANGED <<call, points, balance, badge, score>>
       \/ /\ \/ \E c \in Calls, e \in event : HandleEvent(c, e)
             \/ /\ \/ \E c \in Calls :
                          GameStep(c) \/ (score < MaxPoints /\ AdjustBuildingScore(c))
                   \/ Len(points) < MaxPoints /\ AdjustXp(1)
                   \/ GrantAchievement \/ RevokeAchievement
                /\ UNCHANGED event
          /\ UNCHANGED life
    /\ UNCHANGED <<table, stored, switch, noteVars, unit, flats, inboxVars>>

ChargeMoves ==
    /\ \/ "FUNDS" \in scene /\ (CreateFund \/ \E c \in Calls : FundStep(c))
       \/ "DIVISION" \in scene /\ \E c \in Calls : DivisionStep(c)
    /\ UNCHANGED <<stored, switch, noteVars, gameVars, unit, flats, inboxVars>>

CommunityInit ==
    /\ BillingInit
    /\ InboxInit
    /\ OutreachInit
    /\ PremisesInit
    /\ stored = Images

CommunityNext ==
    \/ RecordMoves
    \/ "ADS" \in scene /\ AdvertisingMoves
    \/ ChargeMoves
    \/ ("OWNERSHIP" \in scene \/ "TENANCY" \in scene) /\ PremisesMoves
    \/ "SWITCHES" \in scene /\ (SwitchMoves \/ RestartMoves)
    \/ "NOTIFICATIONS" \in scene /\ NotificationMoves
    \/ "INBOX" \in scene /\ InboxMoves
       /\ UNCHANGED <<table, stored, switch, noteVars, gameVars, unit, flats>>
    \/ "GAMIFICATION" \in scene /\ (GamificationMoves \/ RestartMoves)

-----------------------------------------------------------------------------
(* Properties.                                                             *)

\* A case that is resolved or closed becomes active again only by being reopened, and only a
\* resolved or merged case is closed: no assignment, resolution or merge that has read the
\* case before it was settled gets its write in.
SettledCasesReopen ==
    [][\A i \in Ids("CASE") :
           LET before == table[i].status
               after == table'[i].status
           IN /\ before = "CLOSED" => after \in {"CLOSED", "OPEN"}
              /\ before = "RESOLVED" => after \in {"RESOLVED", "CLOSED", "OPEN"}
              /\ before # "CLOSED" /\ after = "CLOSED" =>
                     before = "RESOLVED" \/ table'[i].into # 0]_rowVars

\* The points given (1), or taken back (-1).
Signed(sign) == Total(DOMAIN points, [i \in DOMAIN points |-> sign * points[i].amount])

\* Points are awarded once per payment and case, and taken back once, after the award,
\* although cases are resolved again, handlers of an award and of its reversal run at the
\* same time, and staff correct the same balance; the balance is the sum of the ledger.
PointsMatchEvents ==
    /\ balance = Signed(1) - Signed(-1)
    /\ \A i, j \in DOMAIN points :
           points[i].of # "NOTHING" /\ points[i].of = points[j].of
           /\ points[i].reason = points[j].reason => i = j
    /\ \A i \in DOMAIN points :
           points[i].reason = "CHARGE_PAID_REVERSED" =>
               \E j \in 1 .. i - 1 : points[j].of = points[i].of /\ points[j].reason = "CHARGE_PAID"

\* SENT says that a provider accepted the notification, whatever jobs of the same delivery
\* ran before, are resent, or are taken up again after a restart.
SentMeansAccepted ==
    \A ch \in External : delivery[ch].status = "SENT" => delivery[ch].accepted

\* The history of ownership and tenancy is never cut off from its unit: a unit that is
\* counted as unused is not deleted when it comes into use before the deletion.
HistoryKeepsItsUnit ==
    \A i \in Ids("OWNERSHIP") \union Ids("TENANCY") : Stands(table[i].unit)

\* The repository says of every relation that is counted, cases among them, that the
\* database refuses the deletion: a case about a unit stays about it.
CasesKeepTheirUnit == \A i \in Ids("UNIT_CASE") : table[i].unit # NoUnit

=============================================================================

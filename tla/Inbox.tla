-------------------------------- MODULE Inbox --------------------------------
(***************************************************************************)
(* Who hears of what: the listener that turns the events of all other      *)
(* modules into notifications, and the channel preferences it respects.    *)
(* Each recipient of an event is served on its own, and events are handled *)
(* at the same time; the row of preferences of a person is made by whoever *)
(* needs it first.                                                         *)
(***************************************************************************)
EXTENDS Rows

CONSTANTS
    EventKinds,      \* bound of the model: the kinds of events of a behaviour
    Wishes,    \* bound of the model: what people choose as their channels
    MaxSaid     \* bound of the model: events of a behaviour

VARIABLES
    member,        \* the roles that each person holds in the building
    owner,         \* who owns the unit the events are about
    said,          \* the events so far
    preference,    \* rows of notification preferences
    note,          \* the notifications of everybody
    silenced,      \* history: who has, at some time, switched every channel off
    missed         \* history: notifications given up, the row of preferences not being there

inboxVars == <<member, owner, said, preference, note, silenced, missed>>

PRIVILEGED_ROLES == {"MANAGER", "BOARD_MEMBER", "ACCOUNTANT"}
PRIVILEGED_DOCUMENT_CATEGORIES == {"GOVERNANCE", "FINANCIAL", "LEGAL"}

\* The channels that a new row of preferences lets through.
DefaultChannels == {"IN_APP", "PUSH", "EMAIL"}

-----------------------------------------------------------------------------
(* Recipients, looked up when the event is handled.                        *)

listCurrentMemberPersonIds == {p \in Persons : member[p] # {}}
listCurrentMemberPersonIdsByRoles(roles) == {p \in Persons : member[p] \intersect roles # {}}
getCurrentOwnerPersonIds == owner

\* Decided for or about one person: the one the event names, if it names one and the outcome
\* is one that person is told of.
WelcomeNews == {"BuildingCreated", "PersonAuthenticated"}
DecisionNews == {"ManagerVerificationDecided", "BuildingVerificationDecided",
                 "ServiceProviderDecided", "FraudCaseDecided", "EnforcementActionIssued",
                 "SupportCaseResolved"}
PointNews == {"XpAwarded", "AchievementUnlocked"}
PersonalNews == WelcomeNews \union DecisionNews \union PointNews \union {"CaseAssigned"}

\* The whole building hears of it.
PremisesNews == {"ManagerChanged", "OwnershipTransferInitiated", "TenancyCreated", "TenancyEnded"}
ChargeNews == {"ChargeBatchIssued", "ChargeBatchCancelled"}
GovernanceNews == {"VotePublished", "VoteClosed", "VoteCancelled", "MeetingCreated",
                   "MeetingArchived"}
BuildingNews == PremisesNews \union ChargeNews \union GovernanceNews \union {"LeagueTierChanged"}

\* The owners of the unit hear of its payments and corrections, those who run the building
\* of its cases.
PaymentNews == {"PaymentApproved", "PaymentRejected", "AdjustmentCreated", "PaymentReversed",
                "PaymentRefunded"}
CaseNews == {"CaseCreated", "CaseStatusChanged"}

News ==
    [event : EventKinds \intersect PersonalNews, about : Persons \union {NoOne}]
    \union [event : EventKinds \intersect (BuildingNews \union PaymentNews \union CaseNews), about : {NoOne}]
    \union [event : EventKinds \intersect {"DocumentUploaded"}, about : {"LEGAL", "RECEIPT"}]

Recipients(a) ==
    CASE a.event \in PersonalNews -> {a.about} \intersect Persons
      [] a.event \in BuildingNews -> listCurrentMemberPersonIds
      [] a.event \in PaymentNews -> getCurrentOwnerPersonIds
      [] a.event \in CaseNews -> listCurrentMemberPersonIdsByRoles(PRIVILEGED_ROLES)
      [] a.event = "DocumentUploaded" ->
             IF a.about \in PRIVILEGED_DOCUMENT_CATEGORIES
             THEN listCurrentMemberPersonIdsByRoles(PRIVILEGED_ROLES)
             ELSE listCurrentMemberPersonIds

-----------------------------------------------------------------------------
(* Notifying.                                                              *)

PreferenceOf(p) == {r \in preference : r.of = p}

Step(s, channels) == [step |-> s, channels |-> channels]
StepIs(c, p, s) == call[c].op = "TELL" /\ p \in DOMAIN call[c].at /\ call[c].at[p].step = s
Moves(c, p, s, channels) == call' = [call EXCEPT ![c].at[p] = Step(s, channels)]

\* notifyMany: one notify for each recipient, all at the same time.
NotifyMany(c, a) ==
    /\ call[c] = Idle
    /\ a \in News \ said /\ Cardinality(said) < MaxSaid
    /\ said' = said \union {a}
    /\ call' = [call EXCEPT ![c] =
           IF Recipients(a) = {} THEN Idle
           ELSE [op |-> "TELL", of |-> a, at |-> [p \in Recipients(a) |-> Step("READ", {})]]]
    /\ UNCHANGED <<member, owner, preference, note, silenced, missed>>

\* getOrCreatePreference: the upsert looks for the row, and makes it when there is none.
ReadPreference(c, p) ==
    /\ StepIs(c, p, "READ")
    /\ IF PreferenceOf(p) = {} THEN Moves(c, p, "MAKE", {})
       ELSE \E r \in PreferenceOf(p) : Moves(c, p, "CREATE", r.on)
    /\ UNCHANGED inboxVars

BeingMade(c, p) == \E d \in Calls \ {c} : StepIs(d, p, "MAKE")

\* Whoever loses the race fails on the row, or on one that is not there yet.
MakePreference(c, p) ==
    /\ StepIs(c, p, "MAKE")
    /\ \/ /\ PreferenceOf(p) = {}
          /\ preference' = preference \union {[of |-> p, on |-> DefaultChannels]}
          /\ Moves(c, p, "CREATE", DefaultChannels)
       \/ /\ PreferenceOf(p) # {} \/ BeingMade(c, p)
          /\ Moves(c, p, "REREAD", {})
          /\ UNCHANGED preference
    /\ UNCHANGED <<member, owner, said, note, silenced, missed>>

\* Mutant: whoever loses the race for the row gives up.
GivesUp(c, p) ==
    /\ StepIs(c, p, "REREAD")
    /\ Moves(c, p, "DONE", {})
    /\ UNCHANGED inboxVars

\* Somebody else makes the row: the read that finds it, or the fifth one that does not, which
\* leaves the recipient out.
RereadPreference(c, p) ==
    /\ StepIs(c, p, "REREAD")
    /\ \/ /\ \E r \in PreferenceOf(p) : Moves(c, p, "CREATE", r.on)
          /\ UNCHANGED missed
       \/ /\ PreferenceOf(p) = {}
          /\ missed' = missed \union {[to |-> p, of |-> call[c].of]}
          /\ Moves(c, p, "DONE", {})
    /\ UNCHANGED <<member, owner, said, preference, note, silenced>>

\* One notification, with a delivery for each channel that is let through; none without one.
CreateNote(c, p) ==
    /\ StepIs(c, p, "CREATE")
    /\ note' = IF call[c].at[p].channels = {} THEN note
               ELSE note \union {[to |-> p, of |-> call[c].of]}
    /\ Moves(c, p, "DONE", {})
    /\ UNCHANGED <<member, owner, said, preference, silenced, missed>>

Notified(c) ==
    /\ call[c].op = "TELL" /\ \A p \in DOMAIN call[c].at : StepIs(c, p, "DONE")
    /\ call' = [call EXCEPT ![c] = Idle]
    /\ UNCHANGED inboxVars

\* An upsert of the row of the one who asks.
UpdatePreferences(p) ==
    /\ \E chosen \in Wishes :
           /\ preference' = (preference \ PreferenceOf(p)) \union {[of |-> p, on |-> chosen]}
           /\ silenced' = IF chosen = {} THEN silenced \union {p} ELSE silenced
    /\ UNCHANGED <<call, member, owner, said, note, missed>>

-----------------------------------------------------------------------------

InboxInit ==
    /\ \E boss \in {CHOOSE p \in Persons : TRUE}, own \in {{}, {"OWNER"}} :
           /\ member = [p \in Persons |-> IF p = boss THEN {"MANAGER"} ELSE own]
           /\ owner = {p \in Persons : "OWNER" \in member[p]}
           /\ "INBOX" \notin scene => own = {}
    /\ said = {} /\ preference = {} /\ note = {} /\ silenced = {} /\ missed = {}

InboxMoves ==
    \/ \E c \in Calls :
           \/ \E a \in News : NotifyMany(c, a)
           \/ \E p \in Persons :
                  \/ ReadPreference(c, p) \/ MakePreference(c, p)
                  \/ RereadPreference(c, p) \/ CreateNote(c, p)
           \/ Notified(c)
    \/ \E p \in Persons : UpdatePreferences(p)

\* Everybody an event concerns finds it among their notifications once it is handled, unless
\* they wanted none, or another's row of their preferences was not there through five reads:
\* also whoever hears of two events at once before any preference exists, and whatever the
\* other recipients' notifications come to.
NobodyIsSkipped ==
    \A a \in said :
        \/ \E c \in Calls : call[c].op = "TELL" /\ call[c].of = a
        \/ \A p \in Recipients(a) \ silenced : \E n \in note \union missed : n.to = p /\ n.of = a

=============================================================================

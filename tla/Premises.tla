------------------------------ MODULE Premises ------------------------------
(***************************************************************************)
(* A building from its registration on: the wizard's draft and the         *)
(* building it becomes; then its units, who owns and rents them, and who   *)
(* asks to become a member.                                                *)
(*                                                                         *)
(* An ownership and a tenancy are created together with the OWNER or       *)
(* TENANT membership of their person; "member" says that this membership   *)
(* is current.  Occupancy and the other details of a unit are left out.    *)
(***************************************************************************)
EXTENDS Rows

CONSTANTS
    Units,     \* unit numbers of the building
    Manager    \* its manager

ASSUME PremisesAssumption == Manager \in Persons /\ Units # {}

VARIABLES unit    \* per number: its row, and the invited owner (ownerPhone)

NoUnit == "NO_UNIT"
Skeleton == [state |-> "STANDS", owner |-> NoOne]
Stands(u) == unit[u].state = "STANDS"

PremisesInit == unit = [u \in Units |-> Skeleton]

\* The request, for op on the unit, has passed its checks.
CallOn(c, op, u, x) ==
    /\ call[c] = Idle
    /\ call' = [call EXCEPT ![c] = [op |-> op, unit |-> u, with |-> x]]

-----------------------------------------------------------------------------
(* Registration.  All drafts are for the same postal code.                 *)

Draft(p) == [kind |-> "DRAFT", of |-> p, status |-> "ACTIVE", ready |-> FALSE]
Building(p, role) == [kind |-> "BUILDING", of |-> p, role |-> role]

ActiveDrafts(p) == {i \in Ids("DRAFT") : table[i].of = p /\ table[i].status = "ACTIVE"}

\* The active draft is looked up, then created or updated; two first saves create two.
SaveDraft(c) ==
    \/ \E p \in Persons :
           /\ ActiveDrafts(p) = {}
           /\ CallOn(c, "NEW_DRAFT", NoUnit, p)
           /\ UNCHANGED table
    \/ Ends(c, "NEW_DRAFT") /\ Insert(Draft(call[c].with))
    \/ \E p \in Persons : \E i \in ActiveDrafts(p) : Checked(c, "SAVE_DRAFT", i)
    \/ Ends(c, "SAVE_DRAFT") /\ Put(c, [Now(c) EXCEPT !.ready = TRUE])

PostalCodeTaken == Ids("BUILDING") # {}

\* A person whose current roles are all TENANT creates no building.
CanCreateBuilding(roles) == roles = {} \/ roles \ {"TENANT"} # {}
CanSubmit(d) == d.ready

\* The wizard makes its caller an owner or the provisional manager.
CreateBuildingWithFoundingMember(p) ==
    \E role \in {"OWNER", "MANAGER"} : Insert(Building(p, role))

MarkSubmitted(c) == Put(c, [Now(c) EXCEPT !.status = "SUBMITTED"])

\* The postal code is looked up, and unique: the later of two submissions fails.
SubmitSetup(c) ==
    \/ \E p \in Persons, roles \in SUBSET {"OWNER", "TENANT"} :
           /\ CanCreateBuilding(roles) /\ ~PostalCodeTaken
           /\ \E i \in ActiveDrafts(p) : CanSubmit(table[i]) /\ Checked(c, "SUBMIT_SETUP", i)
    \/ /\ call[c].op = "SUBMIT_SETUP"
       /\ IF PostalCodeTaken
          THEN call' = [call EXCEPT ![c] = Idle] /\ UNCHANGED table
          ELSE /\ CreateBuildingWithFoundingMember(Seen(c).of)
               /\ call' = [call EXCEPT ![c].op = "SUBMITTED_SETUP"]
    \/ Ends(c, "SUBMITTED_SETUP") /\ MarkSubmitted(c)

\* An upsert; the loser of two first writes updates the winner's row.
Settings(tenantsVote) == [kind |-> "SETTINGS", tenantsVote |-> tenantsVote]

UpsertBuildingSettings(v) ==
    IF Ids("SETTINGS") = {} THEN Insert(Settings(v))
    ELSE table' = [i \in DOMAIN table |-> IF i \in Ids("SETTINGS") THEN Settings(v) ELSE table[i]]

UpdateSettings == (\E v \in BOOLEAN : UpsertBuildingSettings(v)) /\ UNCHANGED call

RegistrationStep(c) == SaveDraft(c) \/ SubmitSetup(c)

-----------------------------------------------------------------------------
(* Units.                                                                  *)

\* The number is unique in the building: a second unit with it is not created.
UnitCreated(u) == unit' = IF Stands(u) THEN unit ELSE [unit EXCEPT ![u] = Skeleton]

\* The number is first compared with those of the units listed.
AddUnit(c) ==
    /\ \/ \E u \in Units : ~Stands(u) /\ CallOn(c, "ADD_UNIT", u, NoOne) /\ UNCHANGED unit
       \/ Ends(c, "ADD_UNIT") /\ UnitCreated(call[c].unit)
    /\ UNCHANGED table

\* A write to a unit's row by its identifier fails once the unit is gone.
UpdateUnit(u, changed) == IF Stands(u) THEN unit' = [unit EXCEPT ![u] = changed] ELSE UNCHANGED unit

\* Any edit of the unit may name the owner to come by phone ...
EditUnit(u, p) == Stands(u) /\ UpdateUnit(u, [unit[u] EXCEPT !.owner = p])

\* ... and an invitation does.
InviteOwner == (\E u \in Units, p \in Persons : EditUnit(u, p)) /\ UNCHANGED rowVars

\* The relations of a unit that are counted before it is deleted.
InUse(u) == \E i \in DOMAIN table : table[i].unit = u

\* Mutant: no relation of the unit holds it.
NothingRefuses(u) == TRUE

\* The foreign keys of ownerships and tenancies refuse the deletion (RESTRICT).
DeletionAllowed(u) == \A i \in Ids("OWNERSHIP") \union Ids("TENANCY") : table[i].unit # u

\* The foreign key of cases gives way to it (SET NULL).
Released(u) ==
    [i \in DOMAIN table |->
        IF table[i].kind = "UNIT_CASE" /\ table[i].unit = u
        THEN [table[i] EXCEPT !.unit = NoUnit] ELSE table[i]]

\* The transaction ends: others have committed since it counted, the foreign keys decide.
UnitDeleted(u) ==
    IF Stands(u) /\ DeletionAllowed(u)
    THEN unit' = [unit EXCEPT ![u] = [Skeleton EXCEPT !.state = "GONE"]] /\ table' = Released(u)
    ELSE UNCHANGED <<table, unit>>

\* Counted and deleted in one transaction, which sees what others commit in between.
DeleteUnit(c) ==
    \/ \E u \in Units :
           Stands(u) /\ ~InUse(u) /\ CallOn(c, "DELETE_UNIT", u, NoOne) /\ UNCHANGED <<table, unit>>
    \/ Ends(c, "DELETE_UNIT") /\ UnitDeleted(call[c].unit)

\* A case about a unit: the unit is looked up, then the case refers to it.
UnitCase(u) == [kind |-> "UNIT_CASE", unit |-> u]

CreateUnitCase(c) ==
    /\ \/ \E u \in Units : Stands(u) /\ CallOn(c, "UNIT_CASE", u, NoOne) /\ UNCHANGED table
       \/ /\ Ends(c, "UNIT_CASE")
          /\ IF Stands(call[c].unit) THEN Insert(UnitCase(call[c].unit)) ELSE UNCHANGED table
    /\ UNCHANGED unit

UnitStep(c) == AddUnit(c) \/ DeleteUnit(c) \/ CreateUnitCase(c)

-----------------------------------------------------------------------------
(* Ownership.                                                              *)

Ownership(u, p) ==
    [kind |-> "OWNERSHIP", unit |-> u, person |-> p, current |-> TRUE, member |-> TRUE]

CurrentOwners(u) == {i \in Ids("OWNERSHIP") : table[i].unit = u /\ table[i].current}
OwnerOf(u, p) == \E i \in CurrentOwners(u) : table[i].person = p

\* The unit has no current owner, and the caller is the one invited.
InvitedOwner(u, p) == CurrentOwners(u) = {} /\ unit[u].owner = p

LinkOwnerToUnit(u, p) == IF Stands(u) THEN Insert(Ownership(u, p)) ELSE UNCHANGED table

\* A claim, or the sign-in of the invited phone: nothing looks again when it links.
ClaimOwnership(c) ==
    /\ \/ \E u \in Units, p \in Persons :
              Stands(u) /\ InvitedOwner(u, p) /\ CallOn(c, "CLAIM", u, p) /\ UNCHANGED table
       \/ Ends(c, "CLAIM") /\ LinkOwnerToUnit(call[c].unit, call[c].with)
    /\ UNCHANGED unit

OwnershipsEnded(rows, u) ==
    [i \in DOMAIN table |->
        IF i \in Ids("OWNERSHIP") /\ table[i].unit = u
        THEN [table[i] EXCEPT !.member = FALSE, !.current = @ /\ i \notin rows] ELSE table[i]]

\* The current owners are ended in one statement, their memberships in the next, which also
\* ends those that were created in between.  The rows of the first are locked until the
\* commit and others read them as they were, so they change with the second.
TransferOwnership(c) ==
    \/ \E u \in Units, a, p \in Persons :
           Stands(u) /\ OwnerOf(u, a) /\ CallOn(c, "TRANSFER", u, p) /\ UNCHANGED <<table, unit>>
    \/ /\ call[c].op = "TRANSFER"
       /\ \A d \in Calls : call[d].op = "TRANSFERRING" => call[d].unit # call[c].unit
       /\ call' = [call EXCEPT ![c] =
              [op |-> "TRANSFERRING", unit |-> @.unit, with |-> @.with, rows |-> CurrentOwners(@.unit)]]
       /\ UNCHANGED <<table, unit>>
    \/ /\ Ends(c, "TRANSFERRING")
       /\ table' = OwnershipsEnded(call[c].rows, call[c].unit)
       /\ UpdateUnit(call[c].unit, [unit[call[c].unit] EXCEPT !.owner = call[c].with])

OwnershipStep(c) == ClaimOwnership(c) \/ TransferOwnership(c)

-----------------------------------------------------------------------------
(* Tenancy.                                                                *)

Tenancy(u, p) ==
    [kind |-> "TENANCY", unit |-> u, person |-> p, status |-> "ACTIVE", current |-> TRUE, member |-> TRUE]

CanCreateTenancy(u, p) == OwnerOf(u, p) \/ p = Manager
CanManageTenancy(t, p) == OwnerOf(t.unit, p) \/ p = Manager \/ p = t.person

Let(u) == \E i \in Ids("TENANCY") : table[i].unit = u /\ table[i].current

\* The unit has an owner and is free; neither is looked at again when the tenancy is created.
TenancyCreatable(u) == CurrentOwners(u) # {} /\ ~Let(u)

TenancyCreated(u, p) == IF Stands(u) THEN Insert(Tenancy(u, p)) ELSE UNCHANGED table

CreateTenancy(c) ==
    \/ \E u \in Units, a, p \in Persons :
           /\ Stands(u) /\ CanCreateTenancy(u, a) /\ TenancyCreatable(u)
           /\ CallOn(c, "TENANCY", u, p)
           /\ UNCHANGED table
    \/ Ends(c, "TENANCY") /\ TenancyCreated(call[c].unit, call[c].with)

NoticeCanBeGiven(t) == t.status = "ACTIVE"
CanEndTenancy(t) == t.status \in {"ACTIVE", "NOTICE_GIVEN"}

ChecksTenancy(c, op, Fit(_)) ==
    \E i \in Ids("TENANCY"), a \in Persons :
        CanManageTenancy(table[i], a) /\ Fit(table[i]) /\ Checked(c, op, i)

\* A notice that comes late puts an ended tenancy back to NOTICE_GIVEN.
NoticeGiven(c) == Put(c, [Now(c) EXCEPT !.status = "NOTICE_GIVEN"])

GiveTenancyNotice(c) ==
    \/ ChecksTenancy(c, "NOTICE", NoticeCanBeGiven)
    \/ Ends(c, "NOTICE") /\ NoticeGiven(c)

\* The tenancy ends with all TENANT memberships its person has in the unit.
TenancyEnded(c) ==
    table' = [i \in DOMAIN table |->
        LET t == IF i = call[c].on THEN [table[i] EXCEPT !.status = "ENDED", !.current = FALSE] ELSE table[i]
        IN  IF t.kind = "TENANCY" /\ t.unit = Now(c).unit /\ t.person = Now(c).person
            THEN [t EXCEPT !.member = FALSE] ELSE t]

EndTenancy(c) ==
    \/ ChecksTenancy(c, "END_TENANCY", CanEndTenancy)
    \/ Ends(c, "END_TENANCY") /\ TenancyEnded(c)

TenancyStep(c) == CreateTenancy(c) \/ GiveTenancyNotice(c) \/ EndTenancy(c)

-----------------------------------------------------------------------------
(* Requests to join the building, for the manager's role or another one.   *)

\* "granted" counts the memberships it has led to.
MembershipRequest(role) == [kind |-> "REQUEST", role |-> role, status |-> "PENDING", granted |-> 0]

RequestMembership == \E role \in {"MANAGER", "TENANT"} : Open(MembershipRequest(role))

\* A manager is current: the one of the building or one whose request was granted.
NoActiveManager(managed) ==
    ~managed /\ \A i \in Ids("REQUEST") : table[i].role = "MANAGER" => table[i].granted = 0

\* The status is written whatever it was, and stays written when a manager stands in the way.
StatusWritten(c, s) == Put(c, [Now(c) EXCEPT !.status = s])
MembershipCreated(c) == Put(c, [Now(c) EXCEPT !.granted = @ + 1])

ResolveMembershipRequest(c) ==
    \/ \E i \in Ids("REQUEST") : table[i].granted < 2 /\ Checked(c, "RESOLVE_REQUEST", i)
    \/ /\ call[c].op = "RESOLVE_REQUEST"
       /\ \/ StatusWritten(c, "REJECTED") /\ call' = [call EXCEPT ![c] = Idle]
          \/ StatusWritten(c, "APPROVED") /\ call' = [call EXCEPT ![c].op = "APPROVED_REQUEST"]
    \/ /\ call[c].op = "APPROVED_REQUEST"
       /\ \E managed \in BOOLEAN :
              call' = [call EXCEPT ![c] =
                  IF Seen(c).role = "MANAGER" /\ ~NoActiveManager(managed) THEN Idle
                  ELSE [@ EXCEPT !.op = "GRANT_MEMBERSHIP"]]
       /\ UNCHANGED table
    \/ Ends(c, "GRANT_MEMBERSHIP") /\ MembershipCreated(c)

=============================================================================

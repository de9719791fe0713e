------------------------------ MODULE Standing ------------------------------
(***************************************************************************)
(* What the back office does to people, buildings and managers: staff and  *)
(* their roles, the suspension and approval of accounts, the verification  *)
(* of buildings and managers, and the enforcement that follows a confirmed *)
(* fraud case.  One building, whose managers are among the persons.        *)
(*                                                                         *)
(* A suspension runs as a transaction of two steps, between which other    *)
(* requests may commit; the locks it takes are held from the first to the  *)
(* second.  A transaction that begins with a conditional update of the row *)
(* it decides is one step.                                                 *)
(***************************************************************************)
EXTENDS Desk, FiniteSetsExt

CONSTANTS
    Owners,          \* current owners of the building
    Creator,         \* who registered the building
    ApprovalPercent, \* requiredApprovalPercent of a manager case
    MaxRank          \* rank of PLATFORM_ADMIN in PLATFORM_STAFF_RANK

ASSUME StandingAssumption ==
    /\ Owners \subseteq Persons
    /\ Creator \in Persons
    /\ MaxRank \in Nat \ {0}

VARIABLES
    person,     \* per person: suspended, approved for the back office, rank of active staff (or 0);
                \* history: made an admin while their suspension was under way (overtaken)
    building,   \* status and recovery (recoveryModeEnteredAt is set)
    manager     \* per person: the MANAGER membership, its state and isCurrent

standingVars == <<table, call, person, building, manager>>

NotManager == [state |-> "NONE", current |-> FALSE]
Provisional == [state |-> "PROVISIONAL", current |-> TRUE]

\* Nothing has happened yet to people of these staff ranks.
StandingFrom(rank) ==
    /\ call = [c \in Calls |-> Idle]
    /\ person = [p \in Persons |->
                    [suspended |-> FALSE, approved |-> rank[p] > 0, rank |-> rank[p],
                     overtaken |-> FALSE]]
    /\ building = [status |-> "PENDING", recovery |-> FALSE]
    /\ manager = [p \in Persons |-> IF p = Creator THEN Provisional ELSE NotManager]

StandingInit ==
    \E rank \in [Persons -> {0, MaxRank - 1, MaxRank}] :
        (\E p \in Persons : rank[p] = MaxRank) /\ StandingFrom(rank)

-----------------------------------------------------------------------------
(* Suspension and approval of accounts.                                    *)

Admin(p) == person[p].rank = MaxRank

\* Staff may not act on themselves, nor on active staff of their rank or above.
MayTarget(a, t) ==
    /\ a # t
    /\ person[a].rank > 0
    /\ person[t].rank > 0 => Admin(a) \/ person[a].rank > person[t].rank

\* The advisory lock 'user-admin:<target>'.
TargetLockFree(t) == \A c \in Calls : call[c].op = "SUSPENSION" => call[c].target # t

\* The advisory lock 'platform-admin-usability': taken where the target is read to be an admin,
\* and never by a suspension whose target became one afterwards.
UsabilityLockFree == \A c \in Calls : call[c].op = "SUSPENSION" => ~call[c].locks

\* Mutant: any other admin counts, suspended or not.
AnyOtherAdmin(t) == {p \in Persons \ {t} : Admin(p)}

OtherUsableAdmins(t) == {p \in Persons \ {t} : Admin(p) /\ ~person[p].suspended}

LastAdminKept(t) == Admin(t) => UsabilityLockFree /\ OtherUsableAdmins(t) # {}

InForce(k, t) == k.type = "ACCOUNT_SUSPENSION" /\ k.target = t /\ k.applied /\ ~k.reversed

\* activeEnforcement: an account suspension whose effect was applied and not reversed.
ActiveEnforcement(t) == \E i \in Ids("ENFORCEMENT") : InForce(table[i], t)

\* The reads of the transaction; the actor is active staff, suspended meanwhile or not.
ChangeSuspensionReads(c, a, t, suspend) ==
    /\ call[c] = Idle
    /\ MayTarget(a, t)
    /\ TargetLockFree(t)
    /\ IF suspend THEN LastAdminKept(t) ELSE ~ActiveEnforcement(t)
    /\ call' = [call EXCEPT ![c] =
           [op |-> "SUSPENSION", target |-> t, suspend |-> suspend, locks |-> suspend /\ Admin(t)]]
    /\ UNCHANGED <<table, person, building, manager>>

\* Its conditional update, and the commit.
ChangeSuspensionWrites(c) ==
    /\ Ends(c, "SUSPENSION")
    /\ LET t == call[c].target
       IN person' = IF person[t].suspended # call[c].suspend
                    THEN [person EXCEPT ![t].suspended = call[c].suspend] ELSE person
    /\ UNCHANGED <<table, building, manager>>

SuspendPerson(c, a, t) == ChangeSuspensionReads(c, a, t, TRUE)
ReinstatePerson(c, a, t) == ChangeSuspensionReads(c, a, t, FALSE)

BeingSuspended(t) == \E c \in Calls : call[c].op = "SUSPENSION" /\ call[c].target = t /\ call[c].suspend

\* Either way: granted or withdrawn.
SetBackofficeApproval(a, t) ==
    /\ MayTarget(a, t)
    /\ TargetLockFree(t)
    /\ person' = [person EXCEPT ![t].approved = ~@]
    /\ UNCHANGED <<table, call, building, manager>>

-----------------------------------------------------------------------------
(* Roles of staff, and the permissions of roles: one role, one permission. *)

StaffRole(p) == [kind |-> "GRANT", status |-> "ACTIVE", to |-> p]
RolePermission == [kind |-> "PERMISSION", status |-> "ACTIVE"]

ActiveGrants(p) == {i \in Ids("GRANT") : table[i].status = "ACTIVE" /\ table[i].to = p}
ActivePermissions == {i \in Ids("PERMISSION") : table[i].status = "ACTIVE"}
StandingUnchanged == UNCHANGED <<person, building, manager>>

\* The partial unique indexes over the live rows: the later of two grants fails.
GrantTaken(p) == ActiveGrants(p) # {}
PermissionTaken == ActivePermissions # {}

CreateStaffRole(p) == IF GrantTaken(p) THEN UNCHANGED table ELSE Insert(StaffRole(p))
CreateRolePermission == IF PermissionTaken THEN UNCHANGED table ELSE Insert(RolePermission)

\* Looked up first, created afterwards.
AssignRole(c) ==
    /\ \/ \E p \in Persons :
              /\ call[c] = Idle /\ person[p].rank > 0 /\ ActiveGrants(p) = {}
              /\ call' = [call EXCEPT ![c] = [op |-> "GRANT", to |-> p]]
              /\ UNCHANGED table
       \/ Ends(c, "GRANT") /\ CreateStaffRole(call[c].to)
    /\ StandingUnchanged

RoleRevoked(c) == Put(c, [Now(c) EXCEPT !.status = "REVOKED"])

RevokeRole(c) ==
    /\ \/ \E p \in Persons : \E i \in ActiveGrants(p) : Checked(c, "REVOKE_ROLE", i)
       \/ Ends(c, "REVOKE_ROLE") /\ RoleRevoked(c)
    /\ StandingUnchanged

GrantPermission(c) ==
    /\ \/ /\ call[c] = Idle /\ ActivePermissions = {}
          /\ call' = [call EXCEPT ![c] = [op |-> "PERMIT"]]
          /\ UNCHANGED table
       \/ Ends(c, "PERMIT") /\ CreateRolePermission
    /\ StandingUnchanged

PermissionRevoked(c) == Put(c, [Now(c) EXCEPT !.status = "REVOKED"])

RevokePermission(c) ==
    /\ \/ \E i \in ActivePermissions : Checked(c, "FORBID", i)
       \/ Ends(c, "FORBID") /\ PermissionRevoked(c)
    /\ StandingUnchanged

\* The account made the first administrator must not be suspended; a suspension of it may be
\* under way, for the bootstrap takes neither lock of a suspension.
CreateBootstrapAdmin(p) ==
    /\ ~person[p].suspended
    /\ Insert(StaffRole(p))
    /\ person' = [person EXCEPT ![p].rank = MaxRank, ![p].overtaken = @ \/ BeingSuspended(p)]
    /\ UNCHANGED <<call, building, manager>>

\* Nobody holds the role: asked again, under a lock, where it is granted.
Bootstrap(p) == (\A q \in Persons : ActiveGrants(q) = {}) /\ CreateBootstrapAdmin(p)

\* Who may take a case: active staff who are not suspended (that their roles carry the
\* permission is for the role tables to say).
Eligible == {p \in Persons : person[p].rank > 0 /\ ~person[p].suspended}

-----------------------------------------------------------------------------
(* Verification of the building.                                           *)

BuildingCase(status) == [kind |-> "BUILDING_CASE", status |-> status, by |-> NoOne]
BuildingCases == Ids("BUILDING_CASE")
LatestBuildingCase == table[Max(BuildingCases)]

BuildingDecidable(k) == k.status \in {"PENDING", "UNDER_REVIEW", "PENDING_INFORMATION"}

UpdateBuildingStatus(s) == building' = [building EXCEPT !.status = s]

\* The case and the building are two writes; "then" is the status still to be written.
WritesCaseFirst(c, op, s) == call' = [call EXCEPT ![c] = [op |-> op, then |-> s]]

\* A building without a similar address is verified at once, any other is queued.
EvaluateNewBuilding(c) ==
    /\ call[c] = Idle
    /\ BuildingCases = {} /\ building.status = "PENDING"
    /\ \E s \in {"VERIFIED", "UNDER_REVIEW"} :
           Insert(BuildingCase(s)) /\ WritesCaseFirst(c, "BUILDING_STATUS", s)
    /\ StandingUnchanged

WriteBuildingStatus(c) ==
    /\ Ends(c, "BUILDING_STATUS")
    /\ UpdateBuildingStatus(call[c].then)
    /\ UNCHANGED <<table, person, manager>>

\* By its identifier alone, unlike the assignment, which asks the status again.
BuildingCaseDecided(c, s) == Put(c, [Now(c) EXCEPT !.status = s])

BuildingCaseAssigned(c) ==
    \E a \in Eligible : PutIf(c, BuildingDecidable(Now(c)), [Now(c) EXCEPT !.by = a])

AssignBuildingCase(c) ==
    /\ \/ \E i \in BuildingCases : BuildingDecidable(table[i]) /\ Checked(c, "ASSIGN_BUILDING", i)
       \/ Ends(c, "ASSIGN_BUILDING") /\ BuildingCaseAssigned(c)
    /\ StandingUnchanged

\* The case is checked when it is read.
DecideBuildingCase(c) ==
    /\ \/ \E i \in BuildingCases : BuildingDecidable(table[i]) /\ Checked(c, "DECIDE_BUILDING", i)
       \/ /\ call[c].op = "DECIDE_BUILDING"
          /\ \E s \in {"VERIFIED", "REJECTED", "PENDING_INFORMATION"} :
                 /\ BuildingCaseDecided(c, s)
                 /\ WritesCaseFirst(c, "BUILDING_STATUS", s)
    /\ StandingUnchanged

AppealBuilding(c) ==
    /\ call[c] = Idle
    /\ BuildingCases # {} /\ LatestBuildingCase.status = "REJECTED"
    /\ Insert(BuildingCase("UNDER_REVIEW"))
    /\ WritesCaseFirst(c, "BUILDING_STATUS", "UNDER_REVIEW")
    /\ StandingUnchanged

\* Neither reads the status it replaces.
LockBuilding == UpdateBuildingStatus("REJECTED") /\ UNCHANGED <<table, call, person, manager>>
ReinstateBuilding == UpdateBuildingStatus("VERIFIED") /\ UNCHANGED <<table, call, person, manager>>

-----------------------------------------------------------------------------
(* Verification of the manager.                                            *)

ManagerCase(p, again) ==
    [kind |-> "MANAGER_CASE", status |-> "PENDING", of |-> p, again |-> again, restores |-> FALSE,
     approvals |-> {}]

ManagerCases(p) == {i \in Ids("MANAGER_CASE") : table[i].of = p}
CompetingManager(p) == \E q \in Persons \ {p} : manager[q].current

\* A building registered by its manager: the listener queues the first case.
InitiateForProvisionalManager(p) ==
    /\ p = Creator /\ manager[p] = Provisional
    /\ Ids("MANAGER_CASE") = {}
    /\ Open(ManagerCase(p, FALSE))
    /\ StandingUnchanged

ManagerOutcome(decision) ==
    CASE decision = "APPROVE" -> [status |-> "VERIFIED",
                                  membership |-> [state |-> "VERIFIED", current |-> TRUE]]
      [] decision = "REJECT"  -> [status |-> "REJECTED",
                                  membership |-> [state |-> "FORMER", current |-> FALSE]]
      [] decision = "SUSPEND" -> [status |-> "SUSPENDED",
                                  membership |-> [state |-> "SUSPENDED", current |-> TRUE]]

\* The first update of the transaction finds the case pending or the transaction fails.
StillPending(k) == k.status = "PENDING"

ManagerCaseDecided(i, decision) ==
    LET p == table[i].of IN
    /\ decision # "REJECT" => ~CompetingManager(p)
    /\ table' = [table EXCEPT ![i].status = ManagerOutcome(decision).status]
    /\ manager' = [manager EXCEPT ![p] = ManagerOutcome(decision).membership]
    /\ building' = [building EXCEPT !.recovery = (decision # "APPROVE")]
    /\ UNCHANGED <<call, person>>

DecideManagerCase(i, decision) == StillPending(table[i]) /\ ManagerCaseDecided(i, decision)

MeetsApprovalThreshold(n) == n * 100 >= Cardinality(Owners) * ApprovalPercent

\* The approval that meets the threshold decides the case, unless another manager is
\* current, which undoes the approval too.
CastApproval(i, o) ==
    LET k == table[i]
        approvals == k.approvals \union {o}
        resolved == MeetsApprovalThreshold(Cardinality(approvals))
    IN
    /\ resolved => ~CompetingManager(k.of)
    /\ table' = [table EXCEPT ![i] =
           [k EXCEPT !.approvals = approvals, !.status = IF resolved THEN "VERIFIED" ELSE @]]
    /\ IF resolved
       THEN /\ manager' = [manager EXCEPT ![k.of] = ManagerOutcome("APPROVE").membership]
            /\ building' = [building EXCEPT !.recovery = FALSE]
       ELSE UNCHANGED <<manager, building>>
    /\ UNCHANGED <<call, person>>

\* An owner who is not the candidate approves once.
ApproveByOwner(i, o) ==
    /\ StillPending(table[i]) /\ o # table[i].of /\ o \notin table[i].approvals
    /\ CastApproval(i, o)

\* The suspended case stays as it is; a decided one records the restoration, once per manager.
RestoreManager(i) ==
    LET p == table[i].of IN
    /\ \A j \in ManagerCases(p) : ~table[j].restores
    /\ ~CompetingManager(p)
    /\ manager[p].state = "SUSPENDED"
    /\ Insert([ManagerCase(p, TRUE) EXCEPT !.status = "VERIFIED", !.restores = TRUE])
    /\ manager' = [manager EXCEPT ![p] = ManagerOutcome("APPROVE").membership]
    /\ building' = [building EXCEPT !.recovery = FALSE]
    /\ UNCHANGED <<call, person>>

RestoreManagement(i) == table[i].status = "SUSPENDED" /\ RestoreManager(i)

\* At most one appeal is pending.
CreateManagerAppeal(p) ==
    /\ \A j \in ManagerCases(p) : table[j].again => table[j].status # "PENDING"
    /\ Open(ManagerCase(p, TRUE))
    /\ StandingUnchanged

\* The rejected candidate appeals the latest case.
AppealManager(p) ==
    /\ ManagerCases(p) # {} /\ table[Max(ManagerCases(p))].status = "REJECTED"
    /\ CreateManagerAppeal(p)

\* The building hands its management over, or ends it.  Recovery ends with a handover that
\* needs no verification.  (Bound of the model: a person becomes manager once.)
ChangeManager(p, state) ==
    /\ manager[p] = NotManager
    /\ manager' = [q \in Persons |->
           IF q = p THEN [state |-> state, current |-> TRUE]
           ELSE IF manager[q].current THEN [state |-> "FORMER", current |-> FALSE]
           ELSE manager[q]]
    /\ building' = [building EXCEPT !.recovery = @ /\ state = "PROVISIONAL"]
    /\ UNCHANGED <<table, call, person>>

EndManagement(p) ==
    /\ manager[p].current
    /\ manager' = [manager EXCEPT ![p] = [state |-> "FORMER", current |-> FALSE]]
    /\ UNCHANGED <<table, call, person, building>>

-----------------------------------------------------------------------------
(* Enforcement.                                                            *)

\* "before" is the snapshot of what the effect replaced.
EnforcementAction(i, key, type, x) ==
    [kind |-> "ENFORCEMENT", type |-> type, fraud |-> i, key |-> key, target |-> x,
     applied |-> TRUE, before |-> "NOTHING", reversed |-> FALSE, appeal |-> "NONE"]

\* Senior reviewers and above; only a PLATFORM_ADMIN suspends an account.
CanIssueEnforcement(type, a) ==
    /\ person[a].rank >= MaxRank - 1
    /\ type = "ACCOUNT_SUSPENSION" => Admin(a)

\* The target is the case's own, or a manager of the building the case is about.
TargetMatches(k, type, x) ==
    CASE type \in {"WARNING", "BUILDING_REVOCATION"} -> x = k.on
      [] type = "ACCOUNT_SUSPENSION" -> x = k.on /\ x \in Persons
      [] type = "MANAGER_REVOCATION" -> k.on = "BUILDING" /\ x \in Persons /\ manager[x] # NotManager

\* The snapshot is read and the effect written by identifier; a warning has none.
EnforcementEffect(e) ==
    LET x == e.target IN
    CASE e.type = "ACCOUNT_SUSPENSION" ->
             /\ Open([e EXCEPT !.before = person[x].suspended])
             /\ person' = [person EXCEPT ![x].suspended = TRUE]
             /\ UNCHANGED <<building, manager>>
      [] e.type = "BUILDING_REVOCATION" ->
             /\ x = "BUILDING"
             /\ Open([e EXCEPT !.before = building.status])
             /\ UpdateBuildingStatus("REJECTED")
             /\ UNCHANGED <<person, manager>>
      [] e.type = "MANAGER_REVOCATION" ->
             /\ Open([e EXCEPT !.before = <<manager[x].state, building.recovery>>])
             /\ manager' = [manager EXCEPT ![x].state = "SUSPENDED"]
             /\ building' = [building EXCEPT !.recovery = TRUE]
             /\ UNCHANGED person
      [] OTHER -> Open([e EXCEPT !.applied = FALSE]) /\ StandingUnchanged

\* The key names the case and the request: a repeated request creates nothing.
KeyUsed(i, key) == \E j \in Ids("ENFORCEMENT") : table[j].fraud = i /\ table[j].key = key

EnforcementTypes == {"WARNING", "ACCOUNT_SUSPENSION", "BUILDING_REVOCATION", "MANAGER_REVOCATION"}

\* A confirmed case stays so.
Enforce(i, key, a, type, x) ==
    /\ table[i].status = "CONFIRMED"
    /\ TargetMatches(table[i], type, x)
    /\ CanIssueEnforcement(type, a)
    /\ ~KeyUsed(i, key)
    /\ EnforcementEffect(EnforcementAction(i, key, type, x))

\* The person struck, or for a building its creator.
Appellant(e) == IF e.target = "BUILDING" THEN Creator ELSE e.target

RequestAppeal(i) ==
    /\ table[i].appeal = "NONE"
    /\ table' = [table EXCEPT ![i].appeal = "PENDING"]
    /\ UNCHANGED call /\ StandingUnchanged

AppealEnforcement(i, p) == p = Appellant(table[i]) /\ RequestAppeal(i)

AppealDecidable(k) == k.appeal = "PENDING"

UpholdEnforcement(i) ==
    /\ AppealDecidable(table[i])
    /\ table' = [table EXCEPT ![i].appeal = "UPHELD"]
    /\ UNCHANGED call /\ StandingUnchanged

\* What the snapshot holds is put back if the target is still as the action left it.
Restored(k) ==
    CASE k.type = "ACCOUNT_SUSPENSION" ->
             /\ person[k.target].suspended
             /\ person' = [person EXCEPT ![k.target].suspended = k.before]
             /\ UNCHANGED <<building, manager>>
      [] k.type = "BUILDING_REVOCATION" ->
             /\ building.status = "REJECTED"
             /\ UpdateBuildingStatus(k.before)
             /\ UNCHANGED <<person, manager>>
      [] k.type = "MANAGER_REVOCATION" ->
             /\ manager[k.target].state = "SUSPENDED" /\ building.recovery
             /\ manager' = [manager EXCEPT ![k.target].state = k.before[1]]
             /\ building' = [building EXCEPT !.recovery = k.before[2]]
             /\ UNCHANGED person
      [] OTHER -> StandingUnchanged

OverturnEnforcement(i) ==
    /\ AppealDecidable(table[i])
    /\ table' = [table EXCEPT ![i].appeal = "OVERTURNED", ![i].reversed = table[i].applied]
    /\ Restored(table[i])
    /\ UNCHANGED call

=============================================================================

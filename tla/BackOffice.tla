----------------------------- MODULE BackOffice -----------------------------
(***************************************************************************)
(* The back office: the case desk and the standing of people, buildings    *)
(* and managers, driven by staff, members and the nightly sweeps.          *)
(***************************************************************************)
EXTENDS Standing

CONSTANTS
    Keys      \* request identifiers of enforcement

\* What can happen to the rows of the desk.
DeskMoves ==
    /\ \/ DeskOpens
       \/ \E p \in Persons : ReportFraud(p)
       \/ \E c \in Calls : DeskStep(c, Eligible)
    /\ StandingUnchanged

AccountMoves ==
    \/ \E c \in Calls, a, t \in Persons : SuspendPerson(c, a, t) \/ ReinstatePerson(c, a, t)
    \/ \E c \in Calls : ChangeSuspensionWrites(c)
    \/ \E a, t \in Persons : SetBackofficeApproval(a, t)

RoleMoves ==
    \/ \E c \in Calls :
           AssignRole(c) \/ RevokeRole(c) \/ GrantPermission(c) \/ RevokePermission(c)
    \/ \E p \in Persons : Bootstrap(p)

BuildingMoves ==
    \/ \E c \in Calls :
           EvaluateNewBuilding(c) \/ WriteBuildingStatus(c) \/ AssignBuildingCase(c)
           \/ DecideBuildingCase(c) \/ AppealBuilding(c)
    \/ LockBuilding \/ ReinstateBuilding

ManagerMoves ==
    \/ \E p \in Persons :
           \/ InitiateForProvisionalManager(p) \/ AppealManager(p) \/ EndManagement(p)
           \/ ChangeManager(p, "VERIFIED") \/ ChangeManager(p, "PROVISIONAL")
    \/ \E i \in Ids("MANAGER_CASE") :
           \/ \E decision \in {"APPROVE", "REJECT", "SUSPEND"} : DecideManagerCase(i, decision)
           \/ \E o \in Owners : ApproveByOwner(i, o)
           \/ RestoreManagement(i)

ConductMoves ==
    \/ \E i \in Ids("FRAUD"), key \in Keys, a \in Persons, type \in EnforcementTypes :
           \E x \in Persons \union {"BUILDING"} : Enforce(i, key, a, type, x)
    \/ \E i \in Ids("ENFORCEMENT") :
           \/ \E p \in Persons : AppealEnforcement(i, p)
           \/ UpholdEnforcement(i) \/ OverturnEnforcement(i)

\* Where enforcement is looked at, a case against x has been confirmed.
Confirmed(x) == [FraudCase(x) EXCEPT !.status = "CONFIRMED"]

BackOfficeInit ==
    /\ StandingInit
    /\ \/ table = <<>>
       \/ "CONDUCT" \in scene /\ \E x \in Persons \union {"BUILDING"} : table = <<Confirmed(x)>>

BackOfficeNext ==
    \/ "DESK" \in scene /\ DeskMoves
    \/ "ACCOUNTS" \in scene /\ AccountMoves
    \/ "ROLES" \in scene /\ RoleMoves
    \/ "BUILDING" \in scene /\ BuildingMoves
    \/ "MANAGER" \in scene /\ ManagerMoves
    \/ "CONDUCT" \in scene /\ ConductMoves

-----------------------------------------------------------------------------
(* Properties.                                                             *)

Decided(k) ==
    \/ k.kind = "FRAUD" /\ k.status \in {"CONFIRMED", "DISMISSED"}
    \/ k.kind = "COMPLIANCE" /\ k.status \in {"CONFIRMED", "DISMISSED"}
    \/ k.kind = "MANAGER_CASE" /\ k.status # "PENDING"

\* A decision stands: a decided fraud, compliance or manager case keeps its decision, and an
\* appeal against an enforcement is decided once, however the requests that have read the
\* row before (assignments, second decisions) are ordered after it.
DecisionsStand ==
    [][\A i \in DOMAIN table :
           /\ Decided(table[i]) => table'[i].status = table[i].status
           /\ table[i].kind = "ENFORCEMENT" /\ table[i].appeal \in {"UPHELD", "OVERTURNED"} =>
                  table'[i] = table[i]]_standingVars

SuspendedByEnforcement(p) ==
    \E i \in Ids("ENFORCEMENT") : table[i].type = "ACCOUNT_SUSPENSION" /\ table[i].target = p

UsableAdmins == {p \in Persons : Admin(p) /\ ~person[p].suspended}

\* Staff cannot lock themselves out by suspensions alone: unless an enforcement has struck an
\* admin, or the bootstrap promoted somebody whose suspension was under way, some
\* PLATFORM_ADMIN is active and not suspended, even if two of them suspend each other.
LastAdminSurvives ==
    (\A p \in Persons : Admin(p) => ~SuspendedByEnforcement(p) /\ ~person[p].overtaken) =>
        UsableAdmins # {}

\* The error that a suspension raises: "The last active usable platform admin cannot be
\* suspended."  Without the first hypothesis of LastAdminSurvives it fails by design, for
\* enforcement does not ask; without the second it fails where no enforcement is looked at.
AdminsCannotAllBeSuspended == UsableAdmins # {}

Live(k) ==
    \/ k.kind = "COMPLIANCE" /\ k.key # NoOne
    \/ k.kind \in {"GRANT", "PERMISSION"} /\ k.status = "ACTIVE"

Subject(k) ==
    CASE k.kind = "COMPLIANCE" -> k.key
      [] k.kind = "GRANT" -> k.to
      [] OTHER -> "ROLE"

\* At most one live row per subject: one open detection of the anomaly sweep while staff take
\* its cases up, decide them and new sweeps run, and one live grant of a role or a permission
\* while requests that found none race each other and revocations.
OneLiveRow ==
    \A i, j \in DOMAIN table :
        /\ Live(table[i]) /\ Live(table[j])
        /\ table[i].kind = table[j].kind /\ Subject(table[i]) = Subject(table[j])
        => i = j

\* The error the reinstatement raises says that an active account-suspension enforcement
\* blocks it: an account with such an enforcement stays suspended.
EnforcedStaySuspended == \A p \in Persons : ActiveEnforcement(p) => person[p].suspended

\* Recovery Mode, says the repository, means that a building has no active verified manager.
RecoveryMeansNoManager ==
    building.recovery =>
        \A p \in Persons : manager[p] # [state |-> "VERIFIED", current |-> TRUE]

=============================================================================

------------------------------ MODULE Platform ------------------------------
(***************************************************************************)
(* The back office and the community of a building on the same rows and    *)
(* the same requests.  A behaviour plays one scene: the parts that touch   *)
(* each other's state.                                                     *)
(***************************************************************************)
EXTENDS BackOffice, Community

platformVars == <<standingVars, communityVars, scene>>

BackOfficeParts == {"DESK", "ACCOUNTS", "ROLES", "BUILDING", "MANAGER", "CONDUCT"}

\* The slot exists, and what is rented has an owner.
StartOf(s) ==
    IF "SLOT" \in s THEN <<Slot>>
    ELSE IF "TENANCY" \in s THEN <<Ownership(CHOOSE u \in Units : TRUE, Manager)>> ELSE <<>>

PlatformInit ==
    /\ scene \in Scenes
    /\ CommunityInit
    /\ \/ scene \subseteq BackOfficeParts /\ BackOfficeInit
       \/ /\ ~(scene \subseteq BackOfficeParts)
          /\ StandingFrom([p \in Persons |-> MaxRank])
          /\ table = StartOf(scene)

PlatformNext ==
    /\ \/ BackOfficeNext /\ UNCHANGED communityVars
       \/ CommunityNext /\ UNCHANGED <<person, building, manager>>
    /\ UNCHANGED scene

PlatformSpec == PlatformInit /\ [][PlatformNext]_platformVars

=============================================================================

----------------------------- MODULE MCPlatform -----------------------------
(* Platform: the scenes whose operations touch each other's state.         *)
EXTENDS Platform

AnyCall == Permutations(Calls)

BackOfficeScenes ==
    {{"DESK"}, {"ACCOUNTS", "ROLES"}, {"ACCOUNTS", "CONDUCT"}, {"BUILDING"}, {"MANAGER"}}

CommunityScenes ==
    {{"CASES"}, {"MEETINGS"}, {"LISTINGS"}, {"FLAGS"}, {"REGISTRATION"}, {"REQUESTS"}, {"SLOT"}, {"ADS"},
     {"FUNDS"}, {"DIVISION"}, {"OWNERSHIP"}, {"TENANCY"}, {"SWITCHES", "NOTIFICATIONS"}, {"GAMIFICATION"},
     {"INBOX"}}

\* Buildings of four flats, the last one a parking lot.
SmallBuildings ==
    {[u \in 1 .. 4 |->
        [area |-> a[u], use |-> IF u = 4 THEN "PARKING" ELSE "RESIDENTIAL"]] :
     a \in [1 .. 4 -> 0 .. 2]}

\* What people choose: nothing at all, or text messages too.
FewChannels == {{}, {"IN_APP", "SMS"}}

AllScenes == BackOfficeScenes \union CommunityScenes
RoleScenes == {{"ACCOUNTS", "ROLES"}}
EnforcementScenes == {{"ACCOUNTS", "CONDUCT"}}
ManagerScenes == {{"MANAGER"}}
PremisesScenes == {{"OWNERSHIP"}}

=============================================================================

\* Two persons, the first an admin; two requests; two rows of a kind.
CONSTANTS
    Persons = {ann, bob}
    Calls = {c1, c2}
    MaxRows = 2
    Owners = {ann, bob}
    Creator = bob
    ApprovalPercent = 30
    MaxRank = 3
    Keys = {k1, k2}
    Images = {i1, i2}
    Providers = {google}
    Scopes = {all}
    Maintenance = maintenance
    SwitchNames = {maintenance, sms}
    InApp = inapp
    External = {sms}
    MaxAttempts = 2
    Jobs = {j1, j2}
    MaxResends = 1
    Payments = {p1}
    Cases = {k3}
    MaxPoints = 2
    Units = {u1}
    Manager = bob
    FlatLists <- SmallBuildings
    Totals = {2, 7}
    Rates = {3}
    EventKinds = {"PersonAuthenticated", "XpAwarded", "ChargeBatchIssued", "PaymentApproved", "CaseCreated", "DocumentUploaded"}
    Wishes <- FewChannels
    MaxSaid = 2
    Scenes <- AllScenes
SYMMETRY AnyCall
SPECIFICATION PlatformSpec
INVARIANTS
    LastAdminSurvives
    OneLiveRow
    PointsMatchEvents
    SentMeansAccepted
    HistoryKeepsItsUnit
    SharesAddUp
    NobodyIsSkipped
PROPERTIES
    DecisionsStand
    SettledCasesReopen
    ClassifiedFundFits
\* Every row may be decided and every request answered.
CHECK_DEADLOCK FALSE

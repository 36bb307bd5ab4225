SPECIFICATION AccountSpec
CONSTANTS
    Words = {"agents", "logs", "deployments", "read", "execute", "prod", "dev"}
    RoleMap <- DefaultRolePermissions
    Claims <- SomeClaims
    Pending = Pending
    Refused = Refused
INVARIANTS
    TypeOK
    MatchesWhatIsClaimed
    ListAgreesWithSet
    SurvivesFormatting
    NamesTheAccount
CHECK_DEADLOCK FALSE

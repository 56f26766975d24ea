CONSTANTS
    p1 = p1
    p2 = p2
    manager = manager
    reporter = reporter
    Project <- MCProject
    Role <- MCRole
    Name <- MCName
    Known <- MCKnown
    IssuePermissions <- MCIssuePermissions
    Status <- MCStatus
    Memberships <- MCMemberships
    MaxChanges = 2
SPECIFICATION FairSpec
INVARIANTS
    TypeOK
    OnlyGranted
    ProjectsIsolated
    NothingLost
    IssueNeedsGrant
PROPERTY Decides

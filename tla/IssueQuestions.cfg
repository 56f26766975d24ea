CONSTANTS
    Text <- MCText
    Number <- MCNumber
    Octets <- MCOctets
    ProjectId <- MCProjectId
    Sites <- MCSites
    Contents <- MCContents
    Created <- MCCreated
    Paged <- MCPaged
    PageSize = 2
    TypedDone <- MCTypedDone
    Modulus = 256
    Memory = 100
    MaxWatchers = 1
    MaxChanges = 2
SPECIFICATION FairSpec
INVARIANTS
    TypeOK
    ProjectIsMeant
    IntendedIsPosted
    PostedFromOwnLists
    ListsAreSnapshots
    DoneIsPosted
    ShortNamesAreListed
PROPERTIES
    FormSpec
    RunEnds

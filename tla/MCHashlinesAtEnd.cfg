CONSTANTS
    Parts = {"pages"}
    x = x
    y = y
    Readers = {"r"}
    Mutators = {"m"}
    PageSize = 2
    First <- MCFirst
    Fresh <- MCFresh
    Heavy = {"c"}
    Numbers = {2, 3, 7}
    Limits <- MCLimits
    MaxRecords = 6
    MaxPages = 2
    Unrepresentable = {4}
    MaxVersions = 2
    MaxFaults = 1
    MaxReads = 2
    JiraReaders = {x, y}
    Sites = {"s"}
    Origins = {"o", "p"}
    Targets <- MCTargets
    Order <- MCOrder
    Native = 2
    JiraRecords = 2
    Attempts = 3
    NoCursor = {}
    MaxEditions = 2
    JiraFaults = 1
    JiraReadings = 2
    Names <- MCNames
    Hidden = {".h"}
    Queries <- MCQueries
    Trees <- MCTrees
    MaxChanges = 0
    MaxEntries = 8
    WalkRecords = 3
    Calls = {"c1", "c2"}
    Requests <- MCRequests
    Upstreams <- MCSources
    ServerLimits <- MCServerLimits
    MaxResults = 5
    MaxDocument = 32
    Quota = 1
    Texts <- SomeTexts
    Selectors <- SomeSelectors
    PageLimits <- SomeLimits
    Bodies <- SomeBodies
    MaxTextBytes = 12
    MaxHunks = 2
    Profiles <- MCProfiles
    Kinds <- MCKinds
    Networked = {"https", "github"}
    Unprobed = {"ssh"}
    Answers <- MCAnswers
    Values = {"v", "w"}
    MaxSources = 2
SPECIFICATION Spec
INVARIANT RowsAsAuthored
CHECK_DEADLOCK FALSE

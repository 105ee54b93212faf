SPECIFICATION FairSpec
CONSTANTS
    Process = {p1, p2}
    None = None
    NumWorlds = 2
    NumConditions = 3
INVARIANTS
    TypeOK
    ClaimsArePublished
    PublishedRunLeavesNoKnowledgeBase
    LateWorkIsBounded
    ReportedPreflightIsRetained
PROPERTIES
    StoreSpec
    RetainedUnlessRaced
    CommandsEnd

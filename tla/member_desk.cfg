CONSTANTS
    MaxRequests = 2
    MaxServiceCalls = 3
    SentStatuses <- ServiceStatusesSent
    MaxCards = 2
    MaxCardRequests = 2
    MaxCardCalls = 3
    MaxCardCallsAtOnce = 2
    SentDecisions <- DecisionsSent
    MaxOffers = 2
    DismissDays = 1
    ActedDays = 2
    LastDay = 2
    MaxFeedCalls = 2
    MaxFeedCallsAtOnce = 2
    EarlierFeeds <- Feeds
    CandidateSets <- OneOrBoth
    DeskLoads <- Loads
SPECIFICATION FairSpec
INVARIANTS
    DeskTypeOK
    DeskRecordsAgree
PROPERTIES
    DismissalsHold
    MemberIsTold
CHECK_DEADLOCK FALSE

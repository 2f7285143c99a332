SPECIFICATION Spec
CONSTANTS
    Accounts = {"a1"}
    Opening <- Balances
    Requests = {"r1", "r2"}
    MaxDebits = 2
    MaxFailures = 1
    MaxTime = 1
    Schools = {"blue_nile"}
    StudentIds = {"ST-1001"}
    Grades = {"Grade 7"}
    Years = {"2026"}
    ThisYear = "2026"
    Amounts = {1, 2}
    Channels = {"mobile"}
    SeedStudents <- NoStudents
    SeedPlans <- NoPlans
    SeedInvoices <- OpenFixtures
    SeedReceipts <- ReceiptFixtures
    Workloads <- OnlyPayments
    Registrations <- TwoPeople
    NoFin = "no_fin"
    Enrolled = 1
    ProviderMode = "manual"
    SentReviews = {"approved", "needs_action", "review_in_progress"}
    MaxOnboardCalls = 3
    MaxOnboardCallsAtOnce = 2
    Customer = 1
    MaxSelfCalls = 3
    MaxSelfCallsAtOnce = 2
    MaxSessions = 2
    MaxPhoneCalls = 4
    Loads <- EachInTurn
INVARIANT TypeOK
INVARIANT NoOverdraft
INVARIANT RecordsInOrder
INVARIANT ReceiptsAreBacked
PROPERTY DebitsNeedStanding
INVARIANT NumbersAreConsecutive
INVARIANT DocumentsAgree
INVARIANT SelfServiceHolds
INVARIANT SignedInIsLive
PROPERTY LoggedOutStaysOut
CHECK_DEADLOCK FALSE

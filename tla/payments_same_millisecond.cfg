SPECIFICATION Spec
CONSTANTS
    Accounts = {"a1", "a2"}
    Opening <- Balances
    Requests = {"r1", "r2"}
    MaxDebits = 2
    MaxFailures = 0
    MaxTime = 1
    Schools = {"blue_nile"}
    StudentIds = {"ST-1001"}
    Grades = {"Grade 7"}
    Years = {"2026"}
    ThisYear = "2026"
    Amounts = {1}
    Channels = {"mobile"}
    SeedStudents <- NoStudents
    SeedPlans <- NoPlans
    SeedInvoices <- OpenFixtures
    SeedReceipts <- ReceiptFixtures
    Workloads <- OnlyPayments
    Registrations <- TwoPeople
    NoFin = "no_fin"
    Enrolled = 1
    ProviderMode = "manual"
    SentReviews = {"approved", "needs_action", "review_in_progress"}
    MaxOnboardCalls = 3
    MaxOnboardCallsAtOnce = 2
    Customer = 1
    MaxSelfCalls = 3
    MaxSelfCallsAtOnce = 2
    MaxSessions = 2
    MaxPhoneCalls = 4
    Loads <- PaymentsAlone
INVARIANT DebitsAreLogged
CHECK_DEADLOCK FALSE

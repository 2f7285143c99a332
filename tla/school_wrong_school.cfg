SPECIFICATION Spec
CONSTANTS
    Schools = {"blue_nile", "tana"}
    StudentIds = {"ST-1001", "ST-1002", "ST-2001", "ST-3001"}
    Grades = {"Grade 5", "Grade 7", "Grade 9"}
    Years = {"2026", "2027"}
    Channels = {"mobile", "branch"}
    ThisYear = "2026"
    SeedStudents <- FixtureStudents
    SeedPlans <- FixturePlans
    SeedInvoices <- FixtureInvoices
    SeedReceipts <- FixtureReceipts
    Workloads <- Transfer
PROPERTY PaymentStaysInSchool
CHECK_DEADLOCK FALSE

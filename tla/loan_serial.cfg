SPECIFICATION FairSpec
CHECK_DEADLOCK FALSE
CONSTANTS
    small = small
    large = large
    officer = officer
    district = district
    ho = ho
    income = income
    r1 = r1
    r2 = r2
    Loans = {large}
    Staff = {officer, district, ho}
    RoleOf <- MCRoleOf
    Amount <- MCAmount
    BranchMax = 20
    Reasons = {income}
    Requests = {r1}
    MaxDecisions = 4
    MaxFailures = 1
INVARIANT TypeOK
INVARIANT TrailInOrder
PROPERTY LifecycleSpec
PROPERTY DecisionsReachTheTrail

SPECIFICATION Spec
CHECK_DEADLOCK FALSE
CONSTANTS
    small = small
    large = large
    officer = officer
    district = district
    ho = ho
    income = income
    r1 = r1
    r2 = r2
    Loans = {small}
    Staff = {officer, district, ho}
    RoleOf <- MCRoleOf
    Amount <- MCAmount
    BranchMax = 20
    Reasons = {income}
    Requests = {r1, r2}
    MaxDecisions = 2
    MaxFailures = 0
PROPERTY RejectedIsFinal

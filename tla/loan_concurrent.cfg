SPECIFICATION Spec
CHECK_DEADLOCK FALSE
SYMMETRY Symmetry
CONSTANTS
    small = small
    large = large
    officer = officer
    district = district
    ho = ho
    income = income
    r1 = r1
    r2 = r2
    Loans = {large}
    Staff = {officer, district, ho}
    RoleOf <- MCRoleOf
    Amount <- MCAmount
    BranchMax = 20
    Reasons = {income}
    Requests = {r1, r2}
    MaxDecisions = 3
    MaxFailures = 0
INVARIANT HighValueApproval
INVARIANT DeskCanDecide
PROPERTY FreshLoansFollowLifecycle

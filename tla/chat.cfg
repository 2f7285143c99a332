SPECIFICATION FairSpec
CONSTANTS
    agent = agent
    manager = manager
    Conversations = {c1}
    Loans = {loan}
    Staff = {agent, manager}
    RoleOf <- MCRoleOf
    InScope = {manager}
    Requests = {r1, r2}
    MaxCalls = 3
    MaxFailures = 1
INVARIANT AssignedIsListed
INVARIANT RepliesAreAuthorised
INVARIANT StateIsOnRecord
PROPERTY FreshFinishedTakesNoMessage
PROPERTY RepliesReachTheMember
CHECK_DEADLOCK FALSE

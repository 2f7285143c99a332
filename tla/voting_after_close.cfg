SPECIFICATION Spec
CONSTANTS
    Events = {e1}
    Options = {yes, no}
    Members = {m1, m2}
    Voters = {m1, m2}
    StartDate <- OpensAtOne
    EndDate <- EndsAtTwo
    Ballots = {b1}
    Admins = {a1}
    MaxTime = 1
    MaxFailures = 0
    MaxLocks = 0
PROPERTY ClosedVotesRejectResponses
CHECK_DEADLOCK FALSE

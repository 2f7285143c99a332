SPECIFICATION Spec
CONSTANTS
    Events = {e1}
    Options = {yes, no, abstain}
    Members = {m1, guest}
    Voters = {m1}
    StartDate <- OpensAtOne
    EndDate <- EndsAtTwo
    Ballots = {b1, b2}
    Admins = {a1}
    MaxTime = 3
    MaxFailures = 1
    MaxLocks = 1
INVARIANT TypeOK
INVARIANT OneVotePerMember
INVARIANT ResponsesAreForTheEvent
PROPERTY BallotBoxSpec
CHECK_DEADLOCK FALSE

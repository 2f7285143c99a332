------------------------------ MODULE MCMemberDesk ------------------------------
EXTENDS MemberDesk

\* The service tells awaiting_customer, completed and cancelled from the rest.
ServiceStatusesSent == {"awaiting_customer", "approved", "completed", "cancelled"}

\* It tells completed and rejected from the rest.
DecisionsSent == {"under_review", "completed", "rejected"}

\* A recommendation nobody has seen yet is one call away.
Since0(status) == [status |-> status, updatedAt |-> 0]
Feeds == {<<None, None>>, <<None, Since0("viewed")>>,
          <<Since0("acted_on"), Since0("dismissed")>>,
          <<Since0("viewed"), Since0("acted_on")>>}
OneOrBoth == {{1}, {1, 2}}

Load(s, c, f) == [service |-> s, cards |-> c, feed |-> f]

\* Three service or three card calls, one of each, or two at the recommendations.
Loads == {Load(3, 0, 0), Load(0, 3, 0), Load(1, 1, 0), Load(0, 0, 2)}
=============================================================================

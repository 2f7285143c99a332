------------------------------- MODULE MemberDesk -------------------------------
(***************************************************************************)
(* What one member has the staff do, and is offered: service requests,     *)
(* cards and recommendations, side by side.  They share the members, the   *)
(* staff, the audit log and the notifications, and no document.            *)
(***************************************************************************)
EXTENDS ServiceRequests, Cards, Recommendations

CONSTANT
    DeskLoads   \* bound: how many calls of each a behaviour makes

ASSUME DeskConstants ==
    DeskLoads \subseteq [service: 0..MaxServiceCalls, cards: 0..MaxCardCalls,
                         feed: 0..MaxFeedCalls]

VARIABLE load   \* bound: the load of this behaviour

vars == <<serviceVars, cardVars, feedVars, load>>

-----------------------------------------------------------------------------
DeskTypeOK == ServiceTypeOK /\ CardTypeOK /\ FeedTypeOK /\ load \in DeskLoads

Init == ServiceInit /\ CardInit /\ FeedInit /\ load \in DeskLoads

Next ==
    /\ \/ \E k \in 1..load.service : ServiceNextOf(k) /\ UNCHANGED <<cardVars, feedVars>>
       \/ \E k \in 1..load.cards : CardNextOf(k) /\ UNCHANGED <<serviceVars, feedVars>>
       \/ \E k \in 1..load.feed : FeedNextOf(k) /\ UNCHANGED <<serviceVars, cardVars>>
       \/ load.feed > 0 /\ DayPasses /\ UNCHANGED <<serviceVars, cardVars>>
    /\ UNCHANGED load

Spec == Init /\ [][Next]_vars

\* Nobody has to call; the server goes on with a call it has taken.
FairSpec ==
    /\ Spec
    /\ \A k \in ServiceCalls : WF_vars(ServiceStep(k) /\ UNCHANGED <<cardVars, feedVars, load>>)
    /\ \A k \in CardCalls : WF_vars(CardStep(k) /\ UNCHANGED <<serviceVars, feedVars, load>>)

-----------------------------------------------------------------------------
(* What the desk's documents say agrees, so that the desk can answer for    *)
(* them: the dates of a request and of a card with their status, a card     *)
(* that waits with the request it waits for, and the recommendations with   *)
(* the rules, though updateStatus, lock, unlock, the decisions and the      *)
(* generations save over each other.                                        *)
DeskRecordsAgree ==
    DatesTellStatus /\ LockedIsDated /\ CardsMatchRequests /\ FeedIsCurrent

(* The member hears of everything the desk does with a request of either    *)
(* kind, unless a call dies on the way (notifyMember, createNotification).  *)
MemberIsTold == StatusIsTold /\ DecisionsAreTold
=============================================================================

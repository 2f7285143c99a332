---------------------------- MODULE ServiceRequests ----------------------------
(***************************************************************************)
(* A member's service requests (disputes, failed transfers, phone updates) *)
(* and what the staff makes of them: ServiceRequestsService.               *)
(*                                                                         *)
(* A call reads the request, decides on what it read, saves it, and then   *)
(* writes the timeline event, the audit row and the notification, one      *)
(* await after the other.  request.save() sends the changed fields only    *)
(* and compares no version (versionKey: false).                            *)
(***************************************************************************)
EXTENDS Naturals, Sequences

CONSTANTS
    MaxRequests,     \* bound: service requests created
    MaxServiceCalls, \* bound: HTTP calls, numbered in the order they arrive
    SentStatuses     \* bound: the statuses staff puts requests in


VARIABLES
    requests,   \* service_requests, in the order of creation
    timeline,   \* the statuses service_request_events has, <<request, status>>
    told,       \* the statuses the member was notified of, <<request, status>>
    call,       \* the calls
    outdated    \* ghost: requests saved by a call that had not seen them last

serviceVars == <<requests, timeline, told, call, outdated>>

-----------------------------------------------------------------------------
ServiceCalls == 1..MaxServiceCalls
Statuses == {"submitted", "under_review", "awaiting_customer", "approved", "rejected",
             "completed", "cancelled"}

ASSUME ServiceConstants ==
    MaxRequests \in Nat /\ MaxServiceCalls \in Nat /\ SentStatuses \subseteq Statuses

\* A date is the call that took it; 0 is a date that is not set.
Dates == 0..MaxServiceCalls
RequestDoc == [status: Statuses, completedAt: Dates, cancelledAt: Dates]
Submitted == [status |-> "submitted", completedAt |-> 0, cancelledAt |-> 0]

Waiting == [at |-> "idle"]
Finished == [at |-> "done"]
Call == [at: {"save", "event", "notify", "dead"}, request: 1..MaxRequests,
         seen: RequestDoc, next: RequestDoc]

ServiceTypeOK ==
    /\ requests \in Seq(RequestDoc) /\ Len(requests) <= MaxRequests
    /\ timeline \subseteq (DOMAIN requests) \X Statuses
    /\ told \subseteq (DOMAIN requests) \X Statuses
    /\ call \in [ServiceCalls -> Call \cup {Waiting, Finished}]
    /\ outdated \subseteq DOMAIN requests

ServiceInit ==
    /\ requests = << >>
    /\ timeline = {}
    /\ told = {}
    /\ call = [k \in ServiceCalls |-> Waiting]
    /\ outdated = {}

Arrives(k) == call[k] = Waiting /\ \A j \in 1..(k - 1) : call[j] # Waiting

-----------------------------------------------------------------------------
\* create: the insert; the member is active.
Create(k) ==
    /\ Arrives(k)
    /\ Len(requests) < MaxRequests
    /\ requests' = Append(requests, Submitted)
    /\ call' = [call EXCEPT ![k] = [at |-> "event", request |-> Len(requests) + 1,
                                    seen |-> Submitted, next |-> Submitted]]
    /\ UNCHANGED <<timeline, told, outdated>>

Read(k, q, next) ==
    /\ Arrives(k)
    /\ call' = [call EXCEPT ![k] = [at |-> "save", request |-> q,
                                    seen |-> requests[q], next |-> next]]
    /\ UNCHANGED <<requests, timeline, told, outdated>>

\* cancel, of the member's own request
Cancel(k, q) ==
    /\ requests[q].status \in {"submitted", "awaiting_customer"}
    /\ Read(k, q, [requests[q] EXCEPT !.status = "cancelled", !.cancelledAt = k])

\* Mutation of UpdateStatus: completedAt is kept when the request is taken up again.
UpdateStatusKeepsDate(k, q, to) ==
    /\ requests[q].status # "cancelled"
    /\ Read(k, q, [requests[q] EXCEPT !.status = to,
                                      !.completedAt = IF to = "completed" THEN k ELSE @])

\* updateStatus, by staff with the request in scope: to any status, CANCELLED too
UpdateStatus(k, q, to) ==
    /\ requests[q].status # "cancelled"
    /\ Read(k, q, [requests[q] EXCEPT !.status = to,
                                      !.completedAt = IF to = "completed" THEN k ELSE 0])

\* save() of a document that was read as old and now holds new, over stored.
Saved(stored, old, new) ==
    [f \in DOMAIN stored |-> IF old[f] = new[f] THEN stored[f] ELSE new[f]]

SaveRequest(k) ==
    LET q == call[k].request
    IN  /\ call[k].at = "save"
        /\ requests' = [requests EXCEPT ![q] = Saved(@, call[k].seen, call[k].next)]
        /\ outdated' = IF requests[q] = call[k].seen THEN outdated ELSE outdated \cup {q}
        /\ call' = [call EXCEPT ![k].at = "event"]
        /\ UNCHANGED <<timeline, told>>

Change(k) == <<call[k].request, call[k].next.status>>

WriteEvent(k) ==
    /\ call[k].at = "event"
    /\ timeline' = timeline \cup {Change(k)}
    /\ call' = [call EXCEPT ![k].at = "notify"]
    /\ UNCHANGED <<requests, told, outdated>>

\* Mutation of NotifyMember: only a status that changed is told.
NotifyIfChanged(k) ==
    /\ call[k].at = "notify"
    /\ told' = IF call[k].seen.status = call[k].next.status
               THEN told ELSE told \cup {Change(k)}
    /\ call' = [call EXCEPT ![k] = Finished]
    /\ UNCHANGED <<requests, timeline, outdated>>

\* The audit row, and notifyMember.
NotifyMember(k) ==
    /\ call[k].at = "notify"
    /\ told' = told \cup {Change(k)}
    /\ call' = [call EXCEPT ![k] = Finished]
    /\ UNCHANGED <<requests, timeline, outdated>>

\* The next write throws, or the server stops: in one call of a behaviour.
CallThrows(k) ==
    /\ \A j \in ServiceCalls : call[j].at # "dead"
    /\ call[k].at \in {"save", "event", "notify"}
    /\ call' = [call EXCEPT ![k].at = "dead"]
    /\ UNCHANGED <<requests, timeline, told, outdated>>

ServiceStep(k) == SaveRequest(k) \/ WriteEvent(k) \/ NotifyMember(k)

ServiceNextOf(k) ==
    \/ Create(k)
    \/ \E q \in DOMAIN requests : \/ Cancel(k, q)
                                  \/ \E to \in SentStatuses : UpdateStatus(k, q, to)
    \/ ServiceStep(k)
    \/ CallThrows(k)

-----------------------------------------------------------------------------
(* The dates of a request tell its status, through any sequence of updates: *)
(* completedAt is set exactly while it is completed, and a request with a   *)
(* cancelledAt is cancelled and stays so ('Cancelled requests cannot be     *)
(* updated.', updateStatus, cancel).  A call that saved the request without *)
(* having seen it last can leave any mix of the two.                        *)
DatesTellStatus ==
    \A q \in DOMAIN requests \ outdated :
        /\ requests[q].completedAt # 0 <=> requests[q].status = "completed"
        /\ requests[q].cancelledAt # 0 => requests[q].status = "cancelled"

StatusNow == {<<q, requests[q].status>> : q \in DOMAIN requests}

(* Again and again the member has been told of every status a request went  *)
(* through and is in, and they are on its timeline, whatever calls race     *)
(* over the request, unless one dies (create, cancel, updateStatus).        *)
StatusIsTold ==
    []<>(\/ StatusNow \subseteq timeline /\ timeline \subseteq told
         \/ \E k \in ServiceCalls : call[k].at = "dead")
=============================================================================
